----------------------------- MODULE GrowthProofs -----------------------------
(***************************************************************************)
(* What the organization grants itself, for any evidence, requests,        *)
(* engines and operations: a scope in effect was earned and its history    *)
(* keeps what speaks against it; a context is bound once, as its plan was  *)
(* accepted, and is ready only on evidence of its own; what is reported of *)
(* a knowledge provider happened there, once; a crawl that says it lost    *)
(* nothing has every page within its depth; a skill in use was inspected.  *)
(***************************************************************************)
EXTENDS Environment, ProfessionalEvolution, KnowledgeQueries, WebRequests, Skills,
        FiniteSetTheorems, TLAPS

-----------------------------------------------------------------------------
(* The evolution of a member. *)

DecisionRows ==
  [revision : Nat \ {0}, request : Promotions, disposition : {"accepted", "rejected"},
   source : 0..MaxScope, target : 0..MaxScope, support : SUBSET Evidence,
   against : SUBSET Evidence, at : 0..MaxTime]

EvolutionTypes ==
  /\ now \in 0..MaxTime
  /\ shown \in [Evidence -> EvidenceRecords \cup {NotRecorded}]
  /\ decisions \in Seq(DecisionRows)
  /\ deciding \in [Promotions -> DecisionRows \cup {NotDeciding}]

\* Critical mastery is never demonstrated by the identity itself.
NotSelfShown == \A e \in Recorded : shown[e].selfCertified => shown[e].outcome # "demonstrated"

\* A decision rests on what is recorded, at the scope it generalizes, and an accepted one on
\* an individual demonstration that was fresh.
Founded(row) ==
  /\ row.support \subseteq Recorded /\ row.against \subseteq Against
  /\ \A e \in row.support : shown[e].scope = row.source
  /\ row.source < row.target /\ row.at <= now

Decision(i) == decisions[i].revision = i /\ Founded(decisions[i])

\* A thread read no further than the history; who read all of it keeps what it holds.
Deliberation(p) ==
  deciding[p] # NotDeciding =>
    /\ deciding[p].request = p /\ Founded(deciding[p])
    /\ deciding[p].revision <= Len(decisions) + 1
    /\ deciding[p].revision = Len(decisions) + 1 =>
         \A i \in DOMAIN decisions : decisions[i].against \subseteq deciding[p].against

EvolutionInv ==
  /\ EvolutionTypes
  /\ NotSelfShown
  /\ \A i \in DOMAIN decisions : Decision(i)
  /\ \A p \in Promotions : Deliberation(p)
  /\ AgainstPreserved

\* Nothing is recorded at first.
LEMMA EvolutionInitially == EvolutionInit => EvolutionInv
<1> USE EvolutionAssumption
<1> SUFFICES ASSUME EvolutionInit PROVE EvolutionInv
  OBVIOUS
<1>1. EvolutionTypes
  BY DEF EvolutionInit, EvolutionTypes
<1>2. NotSelfShown
  BY DEF EvolutionInit, NotSelfShown, Recorded
<1>3. (\A i \in DOMAIN decisions : Decision(i)) /\ AgainstPreserved
  BY DEF EvolutionInit, AgainstPreserved
<1>4. \A p \in Promotions : Deliberation(p)
  BY DEF EvolutionInit, Deliberation
<1> QED BY <1>1, <1>2, <1>3, <1>4 DEF EvolutionInv

\* Evidence stays what it was: what a decision rests on does not change under it.
LEMMA EvidenceStays ==
  ASSUME EvolutionTypes, NEW row, Founded(row), row.support \subseteq Evidence, row.against \subseteq Evidence,
         row.at \in Nat, now' \in Nat, now <= now',
         \A e \in Evidence : shown[e] # NotRecorded => shown'[e] = shown[e]
  PROVE  /\ row.support \subseteq Recorded' /\ row.against \subseteq Against'
         /\ \A e \in row.support : shown'[e].scope = row.source
         /\ row.source < row.target /\ row.at <= now'
<1>1. now \in Nat
  BY EvolutionAssumption DEF EvolutionTypes
<1>2. Recorded \subseteq Recorded' /\ \A e \in Recorded : shown'[e] = shown[e]
  BY DEF Recorded
<1>3. Against \subseteq Against'
  BY <1>2 DEF Against
<1> QED BY <1>1, <1>2, <1>3 DEF Founded

\* Time, evidence and both halves of a decision keep the invariant.
LEMMA EvolutionStep == EvolutionInv /\ [EvolutionNext]_evolutionVars => EvolutionInv'
<1> USE EvolutionAssumption
<1> SUFFICES ASSUME EvolutionInv, [EvolutionNext]_evolutionVars PROVE EvolutionInv'
  OBVIOUS
<1>t. /\ now \in 0..MaxTime /\ shown \in [Evidence -> EvidenceRecords \cup {NotRecorded}]
      /\ decisions \in Seq(DecisionRows) /\ deciding \in [Promotions -> DecisionRows \cup {NotDeciding}]
      /\ Len(decisions) \in Nat /\ DOMAIN decisions = 1..Len(decisions)
      /\ EvolutionTypes
  BY DEF EvolutionInv, EvolutionTypes
<1>i. /\ NotSelfShown /\ AgainstPreserved
      /\ \A i \in DOMAIN decisions : Decision(i)
      /\ \A p \in Promotions : Deliberation(p)
  BY DEF EvolutionInv
<1>n. ASSUME NEW row \in DecisionRows PROVE row # NotDeciding /\ row.revision \in Nat \ {0}
  BY DEF DecisionRows, NotDeciding
\* More time or more evidence.
<1>g. ASSUME UNCHANGED <<decisions, deciding>>, now' \in 0..MaxTime, now <= now',
             shown' \in [Evidence -> EvidenceRecords \cup {NotRecorded}], NotSelfShown',
             \A e \in Evidence : shown[e] # NotRecorded => shown'[e] = shown[e]
      PROVE  EvolutionInv'
  <2>1. EvolutionTypes'
    BY <1>g, <1>t DEF EvolutionTypes
  <2>2. ASSUME NEW row \in DecisionRows, Founded(row) PROVE Founded(row)'
    <3>1. row.support \subseteq Evidence /\ row.against \subseteq Evidence /\ row.at \in Nat
      BY DEF DecisionRows
    <3>2. now' \in Nat
      BY <1>g
    <3> QED BY <1>g, <1>t, <2>2, <3>1, <3>2, EvidenceStays DEF Founded
  <2>3. ASSUME NEW i \in DOMAIN decisions' PROVE Decision(i)'
    <3>1. PICK row \in DecisionRows : row = decisions[i] /\ row = decisions'[i]
      BY <1>g, <1>t
    <3>2. Founded(row) /\ row.revision = i
      BY <1>g, <1>i, <3>1 DEF Decision
    <3>3. Founded(row)'
      BY <2>2, <3>2
    <3> QED BY <3>1, <3>2, <3>3 DEF Decision, Founded
  <2>4. ASSUME NEW p \in Promotions PROVE Deliberation(p)'
    <3> SUFFICES ASSUME deciding[p] # NotDeciding PROVE Deliberation(p)'
      BY <1>g DEF Deliberation
    <3>1. PICK row \in DecisionRows : row = deciding[p] /\ row = deciding'[p]
      BY <1>g, <1>t
    <3>2. Founded(row)
      BY <1>i, <3>1 DEF Deliberation
    <3>3. Founded(row)'
      BY <2>2, <3>2
    <3> QED BY <1>g, <1>i, <3>1, <3>3 DEF Deliberation, Founded
  <2>5. AgainstPreserved'
    BY <1>g, <1>i DEF AgainstPreserved
  <2> QED BY <1>g, <2>1, <2>3, <2>4, <2>5 DEF EvolutionInv
<1>1. CASE Tick
  <2>1. now' = now + 1 /\ now < MaxTime /\ UNCHANGED <<shown, decisions, deciding>>
    BY <1>1 DEF Tick
  <2>2. now' \in 0..MaxTime /\ now <= now'
    BY <2>1, <1>t
  <2>3. NotSelfShown'
    BY <2>1, <1>i DEF NotSelfShown, Recorded
  <2> QED BY <2>1, <2>2, <2>3, <1>t, <1>g
<1>2. ASSUME NEW e \in Evidence, NEW record \in EvidenceRecords, RecordEvidence(e, record) PROVE EvolutionInv'
  <2>1. /\ shown[e] = NotRecorded /\ ~(record.selfCertified /\ record.outcome = "demonstrated")
        /\ shown' = [shown EXCEPT ![e] = record] /\ UNCHANGED <<now, decisions, deciding>>
    BY <1>2 DEF RecordEvidence
  <2>2. /\ shown' \in [Evidence -> EvidenceRecords \cup {NotRecorded}] /\ shown'[e] = record
        /\ \A f \in Evidence : f # e => shown'[f] = shown[f]
    BY <2>1, <1>t
  <2>3. NotSelfShown'
    <3> SUFFICES ASSUME NEW f \in Evidence, shown'[f] # NotRecorded, shown'[f].selfCertified
                 PROVE  shown'[f].outcome # "demonstrated"
      BY DEF NotSelfShown, Recorded
    <3>1. CASE f = e
      BY <2>1, <2>2, <3>1
    <3>2. CASE f # e
      BY <2>2, <3>2, <1>i DEF NotSelfShown, Recorded
    <3> QED BY <3>1, <3>2
  <2>4. now <= now' /\ now' \in 0..MaxTime
    BY <2>1, <1>t
  <2> QED BY <2>1, <2>2, <2>3, <2>4, <1>g
<1>3. ASSUME NEW p \in Promotions, NEW content \in PromotionRequests, NEW d \in {"accepted", "rejected"},
             CheckPromotion(p, content, d)
      PROVE  EvolutionInv'
  <2>1. /\ content.support \subseteq Recorded /\ (\A e \in content.support : shown[e].scope = content.source)
        /\ UNCHANGED <<now, shown, decisions>>
    BY <1>3 DEF CheckPromotion
  <2>2. /\ content.source \in 0..MaxScope /\ content.target \in 0..MaxScope
        /\ content.support \in SUBSET Evidence /\ content.source < content.target
    BY DEF PromotionRequests
  <2>3. PICK row \in DecisionRows :
          /\ deciding' = [deciding EXCEPT ![p] = row] /\ row.revision = Len(decisions) + 1 /\ row.request = p
          /\ row.against = Against /\ row.support = content.support /\ row.source = content.source
          /\ row.target = content.target /\ row.at = now
    <3> DEFINE new == [revision |-> Len(decisions) + 1, request |-> p, disposition |-> d,
                       source |-> content.source, target |-> content.target, support |-> content.support,
                       against |-> Against, at |-> now]
    <3>1. /\ new \in DecisionRows /\ new.revision = Len(decisions) + 1 /\ new.request = p
          /\ new.against = Against /\ new.support = content.support /\ new.source = content.source
          /\ new.target = content.target /\ new.at = now
      BY <2>2, <1>t DEF DecisionRows, Against, Recorded
    <3>2. deciding' = [deciding EXCEPT ![p] = new]
      BY <1>3 DEF CheckPromotion
    <3> HIDE DEF new
    <3> QED BY <3>1, <3>2
  <2>4. Founded(row)
    BY <2>1, <2>2, <2>3, <1>t DEF Founded
  <2>5. /\ deciding' \in [Promotions -> DecisionRows \cup {NotDeciding}] /\ deciding'[p] = row
        /\ \A q \in Promotions : q # p => deciding'[q] = deciding[q]
    BY <2>1, <2>3, <1>t
  <2>6. EvolutionTypes'
    BY <2>1, <2>5, <1>t DEF EvolutionTypes
  <2>7. ASSUME NEW r, Founded(r) PROVE Founded(r)'
    BY <2>1, <2>7 DEF Founded, Recorded, Against
  <2>8. ASSUME NEW q \in Promotions PROVE Deliberation(q)'
    <3>1. CASE q = p
      <4>1. \A i \in DOMAIN decisions : decisions[i].against \subseteq row.against
        BY <2>3, <1>i DEF Decision, Founded
      <4>2. deciding'[q] = row /\ Len(decisions') = Len(decisions) /\ DOMAIN decisions' = DOMAIN decisions
        BY <2>1, <2>5, <3>1
      <4>3. row.revision <= Len(decisions) + 1
        BY <2>3, <1>t
      <4>4. Founded(row)'
        BY <2>4, <2>7
      <4> QED BY <2>1, <2>3, <3>1, <4>1, <4>2, <4>3, <4>4 DEF Deliberation, Founded
    <3>2. CASE q # p
      BY <2>1, <2>5, <3>2, <1>i DEF Deliberation, Founded, Recorded, Against
    <3> QED BY <3>1, <3>2
  <2>9. (\A i \in DOMAIN decisions' : Decision(i)') /\ AgainstPreserved' /\ NotSelfShown'
    BY <2>1, <1>i DEF Decision, Founded, Recorded, Against, AgainstPreserved, NotSelfShown
  <2> QED BY <2>6, <2>8, <2>9 DEF EvolutionInv
<1>4. ASSUME NEW p \in Promotions, WritePromotion(p) PROVE EvolutionInv'
  <2>1. /\ deciding[p] # NotDeciding /\ UNCHANGED <<now, shown>>
        /\ decisions' = IF deciding[p].revision = Len(decisions) + 1
                        THEN Append(decisions, deciding[p]) ELSE decisions
        /\ deciding' = [deciding EXCEPT ![p] = NotDeciding]
    BY <1>4 DEF WritePromotion
  <2>2. PICK row \in DecisionRows : row = deciding[p]
    BY <2>1, <1>t
  <2>3. /\ row.request = p /\ Founded(row) /\ row.revision \in Nat
        /\ row.revision = Len(decisions) + 1 =>
             \A i \in DOMAIN decisions : decisions[i].against \subseteq row.against
    BY <2>1, <2>2, <1>i, <1>n DEF Deliberation
  <2>4. /\ deciding' \in [Promotions -> DecisionRows \cup {NotDeciding}] /\ deciding'[p] = NotDeciding
        /\ \A q \in Promotions : q # p => deciding'[q] = deciding[q]
    BY <2>1, <1>t
  <2>5. NotSelfShown'
    BY <2>1, <1>i DEF NotSelfShown, Recorded
  <2>6. CASE decisions' = decisions
    <3>1. EvolutionTypes'
      BY <2>1, <2>4, <2>6, <1>t DEF EvolutionTypes
    <3>2. (\A i \in DOMAIN decisions' : Decision(i)') /\ AgainstPreserved'
      BY <2>1, <2>6, <1>i DEF Decision, Founded, Recorded, Against, AgainstPreserved
    <3>3. ASSUME NEW q \in Promotions PROVE Deliberation(q)'
      BY <2>1, <2>4, <2>6, <1>i DEF Deliberation, Founded, Recorded, Against
    <3> QED BY <2>5, <3>1, <3>2, <3>3 DEF EvolutionInv
  <2>7. CASE row.revision = Len(decisions) + 1 /\ decisions' = Append(decisions, row)
    <3> DEFINE n == Len(decisions) + 1
    <3>1. /\ decisions' \in Seq(DecisionRows) /\ Len(decisions') = n /\ DOMAIN decisions' = 1..n
          /\ decisions'[n] = row /\ \A i \in 1..Len(decisions) : decisions'[i] = decisions[i]
      BY <2>7, <1>t
    <3>2. \A i \in 1..n : i = n \/ i \in 1..Len(decisions)
      BY <1>t
    <3>3. EvolutionTypes'
      BY <2>1, <2>4, <3>1, <1>t DEF EvolutionTypes
    <3>4. ASSUME NEW i \in DOMAIN decisions' PROVE Decision(i)'
      <4>1. CASE i = n
        BY <2>1, <2>3, <2>7, <3>1, <4>1 DEF Decision, Founded, Recorded, Against
      <4>2. CASE i \in 1..Len(decisions)
        BY <2>1, <3>1, <4>2, <1>t, <1>i DEF Decision, Founded, Recorded, Against
      <4> QED BY <3>1, <3>2, <4>1, <4>2
    <3>5. ASSUME NEW q \in Promotions PROVE Deliberation(q)'
      <4> SUFFICES ASSUME deciding'[q] # NotDeciding PROVE Deliberation(q)'
        BY DEF Deliberation
      <4>1. PICK r \in DecisionRows : r = deciding[q] /\ r = deciding'[q] /\ q # p
        BY <2>4, <1>t
      <4>2. deciding[q] # NotDeciding /\ r.revision \in Nat
        BY <4>1, <1>n
      <4>3. r.request = q /\ Founded(r) /\ r.revision <= Len(decisions) + 1
        BY <4>1, <4>2, <1>i DEF Deliberation
      <4>4. r.revision <= n + 1 /\ r.revision # n + 1
        BY <4>2, <4>3, <1>t
      <4> QED BY <2>1, <3>1, <4>1, <4>3, <4>4 DEF Deliberation, Founded, Recorded, Against
    <3>6. AgainstPreserved'
      <4> SUFFICES ASSUME NEW i \in 1..n, NEW j \in 1..n, i <= j
                   PROVE  decisions'[i].against \subseteq decisions'[j].against
        BY <3>1 DEF AgainstPreserved
      <4>1. CASE j = n
        BY <2>3, <2>7, <3>1, <3>2, <4>1, <1>t
      <4>2. CASE j \in 1..Len(decisions)
        <5>1. i \in 1..Len(decisions)
          BY <4>2, <1>t
        <5> QED BY <3>1, <4>2, <5>1, <1>t, <1>i DEF AgainstPreserved
      <4> QED BY <3>2, <4>1, <4>2
    <3> QED BY <2>5, <3>3, <3>4, <3>5, <3>6 DEF EvolutionInv
  <2> QED BY <2>1, <2>2, <2>6, <2>7
<1>5. CASE UNCHANGED evolutionVars
  <2>1. UNCHANGED <<now, shown, decisions, deciding>>
    BY <1>5 DEF evolutionVars
  <2>2. NotSelfShown' /\ now <= now'
    BY <2>1, <1>t, <1>i DEF NotSelfShown, Recorded
  <2> QED BY <2>1, <2>2, <1>t, <1>g
<1> QED BY <1>1, <1>2, <1>3, <1>4, <1>5 DEF EvolutionNext

\* However requests read, write and expire: a scope in effect rests on an individual
\* demonstration that is still fresh, and no decision loses what speaks against the identity.
THEOREM EvolutionAlwaysEarned == EvolutionSpec => []EvolutionEarned
<1> USE EvolutionAssumption
<1>1. EvolutionInv => EvolutionEarned
  <2> SUFFICES ASSUME EvolutionInv PROVE EvolutionEarned
    OBVIOUS
  <2>1. EvolutionTypes /\ NotSelfShown /\ AgainstPreserved
        /\ (\A i \in DOMAIN decisions : Decision(i)) /\ \A p \in Promotions : Deliberation(p)
    BY DEF EvolutionInv
  <2>2. \A i \in DOMAIN decisions : decisions[i] \in DecisionRows
    BY <2>1 DEF EvolutionTypes
  <2>3. \A e \in Recorded : shown[e] \in EvidenceRecords
    BY <2>1 DEF EvolutionTypes, Recorded
  <2>4. EvolutionTypeOK
    BY <2>1, <2>2, <2>3
       DEF EvolutionTypes, EvolutionTypeOK, NotSelfShown, Decision, Founded, Deliberation, DecisionRows
  <2>5. ASSUME NEW i \in Effective
        PROVE \E e \in decisions[i].support :
          /\ shown[e].outcome = "demonstrated" /\ shown[e].individual /\ ~shown[e].selfCertified
          /\ shown[e].until > now /\ shown[e].until > decisions[i].at
          /\ shown[e].scope = decisions[i].source /\ decisions[i].source < decisions[i].target
    <3>1. PICK e \in decisions[i].support : e \in FreshSupport
      BY DEF Effective
    <3>2. i \in DOMAIN decisions
      BY DEF Effective, AcceptedDecisions
    <3>3. /\ e \in Recorded /\ shown[e].outcome = "demonstrated" /\ shown[e].until > now
          /\ shown[e].individual
      BY <3>1 DEF FreshSupport
    <3>4. /\ shown[e].scope = decisions[i].source /\ decisions[i].source < decisions[i].target
          /\ decisions[i].at <= now
      BY <2>1, <3>2 DEF Decision, Founded
    <3>5. shown[e].until \in Nat /\ shown[e].selfCertified \in BOOLEAN
      BY <2>3, <3>3 DEF EvidenceRecords
    <3>6. decisions[i].at \in Nat /\ now \in Nat
      BY <2>1, <2>2, <3>2 DEF DecisionRows, EvolutionTypes
    <3>7. ~shown[e].selfCertified
      BY <2>1, <3>3 DEF NotSelfShown
    <3> QED BY <3>3, <3>4, <3>5, <3>6, <3>7
  <2> QED BY <2>1, <2>4, <2>5 DEF EvolutionEarned, EffectiveEarned
<1> QED BY <1>1, EvolutionInitially, EvolutionStep, PTL DEF EvolutionSpec

-----------------------------------------------------------------------------
(* The environment of a context. *)

Observations == [eligible : SUBSET Engines, file : Digests \cup {NoFile}]
Askings == [via : {"plan", "owner"}, choice : Alternatives]
BindingRows == [state : BindingStates, engines : SUBSET Engines]
AttemptRows == [request : Requests, operation : Operations, settlement : Settlements]
VerdictRows == [cites : [Checks -> SUBSET Nat], settlement : Settlements \ {"cancelled"}]

\* What a thread that is about to insert holds.
Resolving == [kind : {"resolve"}, request : Requests, row : BindingRows]
Attempting == [kind : {"attempt"}, row : AttemptRows]
Verifying == [kind : {"verify"}, request : Requests, row : VerdictRows]

EnvironmentTypes ==
  /\ observed \in Observations /\ aged \in BOOLEAN
  /\ asked \in [Requests -> Askings \cup {NotAsked}]
  /\ bindings \in [Requests -> Seq(BindingRows)] /\ voided \subseteq Requests
  /\ described \subseteq Requests \X Digests
  /\ session \in [Operations -> SessionStates] /\ ended \in Seq(Operations)
  /\ attempts \in Seq(AttemptRows)
  /\ verdicts \in [Requests -> Seq(VerdictRows)]
  /\ pending \in [EnvHands -> Resolving \cup Attempting \cup Verifying \cup {Idle}]

\* A request keeps one binding, of engines that were observed, and what it was asked for.
BindingKept(r) ==
  /\ Len(bindings[r]) <= 1
  /\ bindings[r] # <<>> => asked[r] # NotAsked /\ bindings[r][1].engines \subseteq observed.eligible
  /\ r \in voided => bindings[r] # <<>>
  /\ asked[r] # NotAsked /\ asked[r].via = "plan" => ContextFits(asked[r].choice)

\* A recorded descriptor set fits the alternative of its request.
DescribedFit ==
  \A set \in described : asked[set[1]] # NotAsked /\ Describes(set[1], set[2])

\* Every operation whose session ended did so once.
EndedOnce ==
  /\ \A m, n \in DOMAIN ended : ended[m] = ended[n] => m = n
  /\ \A o \in Operations :
       session[o] \notin {"none", "planned"} <=> \E n \in DOMAIN ended : ended[n] = o

\* An attempt is of a session that ended, and what is verified was completed.
AttemptFounded(row) ==
  /\ session[row.operation] \notin {"none", "planned"}
  /\ row.settlement = "verified" => session[row.operation] = "completed"

\* The attempts cited for a check are the request's, none failed, and the latest completed.
CheckEarned(r, cited) ==
  /\ \A i \in cited : attempts[i].request = r /\ Settled(i) \in {"verified", "uncertain"}
  /\ \E i \in cited : /\ \A j \in cited : Ended(j) <= Ended(i)
                      /\ session[attempts[i].operation] = "completed"

VerdictFounded(r, row) ==
  \A c \in Checks :
    /\ row.cites[c] \subseteq DOMAIN attempts
    /\ row.settlement = "verified" => CheckEarned(r, row.cites[c])

\* What a thread read holds until it is inserted.
PendingFounded(h) ==
  /\ pending[h].kind = "resolve" => asked[pending[h].request] # NotAsked
                                    /\ pending[h].row.engines \subseteq observed.eligible
  /\ pending[h].kind = "attempt" => AttemptFounded(pending[h].row)
  /\ pending[h].kind = "verify" => VerdictFounded(pending[h].request, pending[h].row)

EnvironmentInv ==
  /\ EnvironmentTypes
  /\ \A r \in Requests : BindingKept(r)
  /\ DescribedFit
  /\ DefinitionsProtected
  /\ EndedOnce
  /\ \A i \in DOMAIN attempts : AttemptFounded(attempts[i])
  /\ \A r \in Requests : \A i \in DOMAIN verdicts[r] : VerdictFounded(r, verdicts[r][i])
  /\ \A h \in EnvHands : PendingFounded(h)

\* Nothing is asked for, bound or run at first.
LEMMA EnvironmentInitially == EnvironmentInit => EnvironmentInv
<1> USE EnvironmentAssumption
<1> SUFFICES ASSUME EnvironmentInit PROVE EnvironmentInv
  OBVIOUS
<1>1. EnvironmentTypes
  <2>1. observed \in Observations /\ aged \in BOOLEAN
    BY DEF EnvironmentInit, Observations
  <2>2. asked \in [Requests -> Askings \cup {NotAsked}] /\ voided \subseteq Requests
        /\ bindings \in [Requests -> Seq(BindingRows)] /\ described \subseteq Requests \X Digests
    BY DEF EnvironmentInit
  <2>3. session \in [Operations -> SessionStates] /\ ended \in Seq(Operations)
    BY DEF EnvironmentInit, SessionStates
  <2>4. attempts \in Seq(AttemptRows) /\ verdicts \in [Requests -> Seq(VerdictRows)]
    BY DEF EnvironmentInit
  <2>5. pending \in [EnvHands -> Resolving \cup Attempting \cup Verifying \cup {Idle}]
    BY DEF EnvironmentInit
  <2> QED BY <2>1, <2>2, <2>3, <2>4, <2>5 DEF EnvironmentTypes
<1>2. \A r \in Requests : BindingKept(r)
  BY DEF EnvironmentInit, BindingKept
<1>3. DescribedFit /\ DefinitionsProtected
  BY DEF EnvironmentInit, DescribedFit, DefinitionsProtected
<1>4. EndedOnce
  BY DEF EnvironmentInit, EndedOnce
<1>5. \A h \in EnvHands : PendingFounded(h)
  BY DEF EnvironmentInit, PendingFounded, Idle
<1>6. DOMAIN attempts = {} /\ \A r \in Requests : DOMAIN verdicts[r] = {}
  BY DEF EnvironmentInit
<1> QED BY <1>1, <1>2, <1>3, <1>4, <1>5, <1>6 DEF EnvironmentInv

\* Of some numbers up to a bound one is the greatest.
LEMMA GreatestExists ==
  ASSUME NEW N \in Nat, NEW T \in SUBSET (1..N), T # {}
  PROVE  \E m \in T : \A n \in T : n <= m
<1> DEFINE Above(m) == {n \in T : n > m}
           A == {Above(m) : m \in T}
<1>1. IsFiniteSet(T)
  <2>1. IsFiniteSet(1..N)
    BY FS_Interval
  <2> QED BY <2>1, FS_Subset
<1>2. A \subseteq FiniteSubsetsOf(T) /\ A # {}
  <2>1. \A m \in T : Above(m) \in SUBSET T /\ IsFiniteSet(Above(m))
    BY <1>1, FS_Subset
  <2> QED BY <2>1 DEF FiniteSubsetsOf
<1>3. PICK x \in A : \A y \in A : <<y, x>> \notin StrictSubsetOrdering(T)
  <2> HIDE DEF A
  <2> QED BY <1>1, <1>2, FS_StrictSubsetOrderingWellFounded, WFMin
<1>4. PICK m \in T : x = Above(m)
  BY <1>3
<1>5. ASSUME NEW n \in Above(m) PROVE FALSE
  <2>1. n \in T /\ n > m /\ n \in Nat /\ m \in Nat
    OBVIOUS
  <2>2. Above(n) \subseteq Above(m) /\ Above(n) # Above(m)
    <3>1. n \in Above(m) /\ n \notin Above(n)
      BY <2>1
    <3>2. \A k \in Above(n) : k \in Above(m)
      BY <2>1
    <3> QED BY <3>1, <3>2
  <2>3. Above(n) \in A /\ Above(n) \in SUBSET T /\ Above(m) \in SUBSET T
    BY <2>1
  <2>4. <<Above(n), Above(m)>> \in StrictSubsetOrdering(T)
    <3> HIDE DEF Above
    <3> QED BY <2>2, <2>3 DEF StrictSubsetOrdering
  <2> QED BY <1>3, <1>4, <2>3, <2>4
<1>6. \A n \in T : ~(n > m)
  BY <1>5
<1> QED BY <1>6

\* An attempt has the place at which its session ended.
LEMMA EndedAt ==
  ASSUME EnvironmentInv, NEW i \in DOMAIN attempts
  PROVE  Ended(i) \in DOMAIN ended /\ ended[Ended(i)] = attempts[i].operation
<1>1. attempts[i].operation \in Operations /\ AttemptFounded(attempts[i])
  <2>1. attempts[i] \in AttemptRows
    BY DEF EnvironmentInv, EnvironmentTypes
  <2> QED BY <2>1 DEF EnvironmentInv, AttemptRows
<1>2. \E n \in DOMAIN ended : ended[n] = attempts[i].operation
  BY <1>1 DEF EnvironmentInv, EndedOnce, AttemptFounded
<1> QED BY <1>2 DEF Ended

\* Some attempt of a check ended last.
LEMMA LatestCited ==
  ASSUME EnvironmentInv, NEW cited, cited \subseteq DOMAIN attempts, cited # {}
  PROVE  \E i \in cited : \A j \in cited : Ended(j) <= Ended(i)
<1> DEFINE T == {Ended(i) : i \in cited}
<1>1. Len(ended) \in Nat /\ DOMAIN ended = 1..Len(ended)
  BY DEF EnvironmentInv, EnvironmentTypes
<1>2. T \in SUBSET (1..Len(ended)) /\ T # {}
  BY <1>1, EndedAt
<1>3. PICK m \in T : \A n \in T : n <= m
  <2> HIDE DEF T
  <2> QED BY <1>1, <1>2, GreatestExists
<1> QED BY <1>3

\* A check that holds was earned: what _check_state calls true rests on completed sessions.
LEMMA TrueIsEarned ==
  ASSUME EnvironmentInv, NEW r, NEW cited, cited \subseteq DOMAIN attempts, cited # {},
         \A i \in cited : attempts[i].request = r, CheckState(cited) = "true"
  PROVE  CheckEarned(r, cited)
<1>1. \A i \in cited : AttemptFounded(attempts[i])
  BY DEF EnvironmentInv
<1>2. CASE \A i \in cited : Settled(i) = "verified"
  BY <1>1, <1>2, LatestCited DEF CheckEarned, AttemptFounded, Settled
<1>3. CASE ~\A i \in cited : Settled(i) = "verified"
  <2>1. \E i \in {i \in cited : \A j \in cited : Ended(j) <= Ended(i)} :
          /\ Settled(i) = "verified" /\ attempts[i].operation \in Probes
          /\ \A j \in cited : Settled(j) \in {"verified", "uncertain"}
    BY <1>3 DEF CheckState
  <2> QED BY <1>1, <2>1 DEF CheckEarned, AttemptFounded, Settled
<1> QED BY <1>2, <1>3

\* What was recorded of sessions, attempts and their order stays, and so does what it proves.
LEMMA EvidenceLasts ==
  ASSUME EnvironmentInv, EndedOnce',
         \A o \in Operations : /\ session[o] \notin {"none", "planned"} => session'[o] \notin {"none", "planned"}
                               /\ session[o] = "completed" => session'[o] = "completed",
         \A n \in DOMAIN ended : n \in DOMAIN ended' /\ ended'[n] = ended[n],
         \A i \in DOMAIN attempts : i \in DOMAIN attempts' /\ attempts'[i] = attempts[i]
  PROVE  /\ \A row \in AttemptRows : AttemptFounded(row) => AttemptFounded(row)'
         /\ \A r \in Requests, row \in VerdictRows : VerdictFounded(r, row) => VerdictFounded(r, row)'
<1>1. \A row \in AttemptRows : AttemptFounded(row) => AttemptFounded(row)'
  BY DEF AttemptFounded, AttemptRows
<1>2. ASSUME NEW i \in DOMAIN attempts PROVE Ended(i)' = Ended(i)
  <2>1. Ended(i) \in DOMAIN ended' /\ ended'[Ended(i)] = attempts'[i].operation
    BY EndedAt
  <2>2. \A n \in DOMAIN ended' : ended'[n] = attempts'[i].operation => n = Ended(i)
    BY <2>1 DEF EndedOnce
  <2> QED BY <2>1, <2>2 DEF Ended
<1>3. ASSUME NEW r \in Requests, NEW cited, cited \subseteq DOMAIN attempts, CheckEarned(r, cited)
      PROVE  CheckEarned(r, cited)'
  <2>1. \A i \in cited : attempts'[i].request = r /\ Settled(i)' \in {"verified", "uncertain"}
    BY <1>3 DEF CheckEarned, Settled
  <2>2. PICK i \in cited : /\ \A j \in cited : Ended(j) <= Ended(i)
                           /\ session[attempts[i].operation] = "completed"
    BY <1>3 DEF CheckEarned
  <2>3. \A j \in cited : Ended(j)' <= Ended(i)'
    BY <1>2, <1>3, <2>2
  <2>4. session'[attempts'[i].operation] = "completed"
    <3>1. attempts[i].operation \in Operations
      <4>1. attempts[i] \in AttemptRows
        BY <1>3 DEF EnvironmentInv, EnvironmentTypes
      <4> QED BY <4>1 DEF AttemptRows
    <3> QED BY <1>3, <2>2, <3>1
  <2> QED BY <2>1, <2>3, <2>4 DEF CheckEarned
<1>4. ASSUME NEW r \in Requests, NEW row \in VerdictRows, VerdictFounded(r, row) PROVE VerdictFounded(r, row)'
  <2> SUFFICES ASSUME NEW c \in Checks
               PROVE  /\ row.cites[c] \subseteq DOMAIN attempts'
                      /\ row.settlement = "verified" => CheckEarned(r, row.cites[c])'
    BY DEF VerdictFounded
  <2>1. row.cites[c] \subseteq DOMAIN attempts
        /\ (row.settlement = "verified" => CheckEarned(r, row.cites[c]))
    BY <1>4 DEF VerdictFounded
  <2>2. PICK cited : cited = row.cites[c]
    OBVIOUS
  <2> QED BY <1>3, <2>1, <2>2
<1> QED BY <1>1, <1>4

\* Resolutions, descriptors, sessions, attempts and verifications keep the invariant.
LEMMA EnvironmentStep == EnvironmentInv /\ [EnvironmentNext]_environmentVars => EnvironmentInv'
<1> USE EnvironmentAssumption
<1> SUFFICES ASSUME EnvironmentInv, [EnvironmentNext]_environmentVars PROVE EnvironmentInv'
  OBVIOUS
<1>t. /\ observed \in Observations /\ aged \in BOOLEAN
      /\ asked \in [Requests -> Askings \cup {NotAsked}]
      /\ bindings \in [Requests -> Seq(BindingRows)] /\ voided \subseteq Requests
      /\ described \subseteq Requests \X Digests
      /\ session \in [Operations -> SessionStates] /\ ended \in Seq(Operations)
      /\ attempts \in Seq(AttemptRows)
      /\ verdicts \in [Requests -> Seq(VerdictRows)]
      /\ pending \in [EnvHands -> Resolving \cup Attempting \cup Verifying \cup {Idle}]
      /\ EnvironmentTypes
  BY DEF EnvironmentInv, EnvironmentTypes
<1>i. /\ \A r \in Requests : BindingKept(r)
      /\ DescribedFit /\ DefinitionsProtected /\ EndedOnce
      /\ \A i \in DOMAIN attempts : AttemptFounded(attempts[i])
      /\ \A r \in Requests : \A i \in DOMAIN verdicts[r] : VerdictFounded(r, verdicts[r][i])
      /\ \A h \in EnvHands : PendingFounded(h)
  BY DEF EnvironmentInv
\* What a thread holds is of its kind.
<1>p. ASSUME NEW h \in EnvHands
      PROVE  /\ pending[h].kind = "resolve" => pending[h].request \in Requests /\ pending[h].row \in BindingRows
             /\ pending[h].kind = "attempt" => pending[h].row \in AttemptRows
             /\ pending[h].kind = "verify" => pending[h].request \in Requests /\ pending[h].row \in VerdictRows
  <2>1. pending[h] \in Resolving \cup Attempting \cup Verifying \cup {Idle}
    BY <1>t
  <2> QED BY <2>1 DEF Resolving, Attempting, Verifying, Idle
<1>h. ASSUME NEW h \in EnvHands, Leaves(h)
      PROVE  /\ pending' \in [EnvHands -> Resolving \cup Attempting \cup Verifying \cup {Idle}]
             /\ \A g \in EnvHands : pending'[g] = pending[g] \/ PendingFounded(g)'
  BY <1>h, <1>t DEF Leaves, PendingFounded, Idle
\* New rows are founded; the others were, and stay so.
<1>q. ASSUME EnvironmentTypes', observed' = observed,
             \A r \in Requests : asked[r] # NotAsked => asked'[r] = asked[r],
             \A r \in Requests : BindingKept(r)', DescribedFit', DefinitionsProtected', EndedOnce',
             \A o \in Operations : /\ session[o] \notin {"none", "planned"} => session'[o] \notin {"none", "planned"}
                                   /\ session[o] = "completed" => session'[o] = "completed",
             \A n \in DOMAIN ended : n \in DOMAIN ended' /\ ended'[n] = ended[n],
             \A i \in DOMAIN attempts : i \in DOMAIN attempts' /\ attempts'[i] = attempts[i],
             \A i \in DOMAIN attempts' : i \in DOMAIN attempts \/ AttemptFounded(attempts[i])',
             \A r \in Requests : \A i \in DOMAIN verdicts'[r] :
               (i \in DOMAIN verdicts[r] /\ verdicts'[r][i] = verdicts[r][i]) \/ VerdictFounded(r, verdicts[r][i])',
             \A h \in EnvHands : pending'[h] = pending[h] \/ PendingFounded(h)'
      PROVE  EnvironmentInv'
  <2>1. /\ \A row \in AttemptRows : AttemptFounded(row) => AttemptFounded(row)'
        /\ \A r \in Requests, row \in VerdictRows : VerdictFounded(r, row) => VerdictFounded(r, row)'
    BY <1>q, EvidenceLasts
  <2>2. ASSUME NEW i \in DOMAIN attempts' PROVE AttemptFounded(attempts[i])'
    <3>1. CASE i \in DOMAIN attempts
      <4>1. PICK row \in AttemptRows : row = attempts[i] /\ row = attempts'[i]
        BY <1>q, <1>t, <3>1
      <4>2. AttemptFounded(row)'
        BY <2>1, <1>i, <3>1, <4>1
      <4> QED BY <4>1, <4>2 DEF AttemptFounded
    <3>2. CASE i \notin DOMAIN attempts
      BY <1>q, <3>2 DEF AttemptFounded
    <3> QED BY <3>1, <3>2
  <2>3. ASSUME NEW r \in Requests, NEW i \in DOMAIN verdicts'[r] PROVE VerdictFounded(r, verdicts[r][i])'
    <3>1. CASE i \in DOMAIN verdicts[r] /\ verdicts'[r][i] = verdicts[r][i]
      <4>1. PICK row \in VerdictRows : row = verdicts[r][i] /\ row = verdicts'[r][i]
        BY <1>t, <3>1
      <4>2. VerdictFounded(r, row)'
        BY <2>1, <1>i, <3>1, <4>1
      <4> QED BY <4>1, <4>2 DEF VerdictFounded
    <3>2. CASE ~(i \in DOMAIN verdicts[r] /\ verdicts'[r][i] = verdicts[r][i])
      BY <1>q, <3>2 DEF VerdictFounded
    <3> QED BY <3>1, <3>2
  <2>4. ASSUME NEW h \in EnvHands PROVE PendingFounded(h)'
    <3> SUFFICES ASSUME pending'[h] = pending[h] PROVE PendingFounded(h)'
      BY <1>q
    <3>1. ASSUME pending[h].kind = "resolve"
          PROVE  asked'[pending[h].request] # NotAsked /\ pending[h].row.engines \subseteq observed'.eligible
      BY <1>q, <1>p, <1>i, <3>1 DEF PendingFounded
    <3>2. ASSUME pending[h].kind = "attempt" PROVE AttemptFounded(pending[h].row)'
      <4>1. PICK row \in AttemptRows : row = pending[h].row /\ row = pending'[h].row
        BY <1>p, <3>2
      <4>2. AttemptFounded(row)'
        BY <2>1, <1>i, <3>2, <4>1 DEF PendingFounded
      <4> QED BY <4>1, <4>2 DEF AttemptFounded
    <3>3. ASSUME pending[h].kind = "verify" PROVE VerdictFounded(pending[h].request, pending[h].row)'
      <4>1. PICK r \in Requests, row \in VerdictRows :
              r = pending[h].request /\ row = pending[h].row /\ r = pending'[h].request /\ row = pending'[h].row
        BY <1>p, <3>3
      <4>2. VerdictFounded(r, row)'
        BY <2>1, <1>i, <3>3, <4>1 DEF PendingFounded
      <4> QED BY <4>1, <4>2 DEF VerdictFounded, CheckEarned
    <3> QED BY <3>1, <3>2, <3>3 DEF PendingFounded
  <2> QED BY <1>q, <2>2, <2>3, <2>4 DEF EnvironmentInv
\* A step that is about what is bound and described.
<1>r. ASSUME UNCHANGED <<observed, session, ended, attempts, verdicts>>, EnvironmentTypes',
             \A r \in Requests : asked[r] # NotAsked => asked'[r] = asked[r],
             \A r \in Requests : BindingKept(r)', DescribedFit', DefinitionsProtected',
             \A h \in EnvHands : pending'[h] = pending[h] \/ PendingFounded(h)'
      PROVE  EnvironmentInv'
  <2>1. EndedOnce'
    BY <1>r, <1>i DEF EndedOnce
  <2> QED BY <1>r, <2>1, <1>q
\* A step that is about sessions, attempts and verdicts.
<1>s. ASSUME UNCHANGED <<observed, aged, asked, bindings, voided, described, changes>>
      PROVE  /\ \A r \in Requests : asked[r] # NotAsked => asked'[r] = asked[r]
             /\ \A r \in Requests : BindingKept(r)'
             /\ DescribedFit' /\ DefinitionsProtected'
  <2>1. \A r \in Requests : BindingKept(r)'
    BY <1>s, <1>i DEF BindingKept, ContextFits, Allowed
  <2>2. DescribedFit' /\ DefinitionsProtected'
    BY <1>s, <1>i DEF DescribedFit, Describes, DefinitionsProtected
  <2> QED BY <1>s, <2>1, <2>2
<1>1. CASE Age
  <2>1. aged' = TRUE /\ UNCHANGED <<observed, asked, bindings, voided, described, changes, session, ended,
                                    attempts, verdicts, pending>>
    BY <1>1 DEF Age
  <2>2. EnvironmentTypes'
    BY <2>1, <1>t DEF EnvironmentTypes
  <2>3. (\A r \in Requests : BindingKept(r)') /\ DescribedFit' /\ DefinitionsProtected'
    BY <2>1, <1>i DEF BindingKept, ContextFits, Allowed, DescribedFit, Describes, DefinitionsProtected
  <2> QED BY <2>1, <2>2, <2>3, <1>r
<1>2. ASSUME NEW r \in Requests, NEW a \in Alternatives, NEW via \in {"plan", "owner"}, Ask(r, a, via)
      PROVE  EnvironmentInv'
  <2> DEFINE ask == [via |-> via, choice |-> a]
  <2>1. /\ asked[r] = NotAsked /\ (via = "plan" => ContextFits(a)) /\ asked' = [asked EXCEPT ![r] = ask]
        /\ UNCHANGED <<observed, aged, bindings, voided, described, changes, session, ended, attempts,
                       verdicts, pending>>
    BY <1>2 DEF Ask
  <2>2. ask \in Askings /\ ask.via = via /\ ask.choice = a /\ ask # NotAsked
    BY DEF Askings, NotAsked
  <2> HIDE DEF ask
  <2>3. /\ asked' \in [Requests -> Askings \cup {NotAsked}] /\ asked'[r] = ask
        /\ \A q \in Requests : q # r => asked'[q] = asked[q]
    BY <2>1, <2>2, <1>t
  <2>4. EnvironmentTypes'
    BY <2>1, <2>3, <1>t DEF EnvironmentTypes
  <2>5. ASSUME NEW q \in Requests PROVE BindingKept(q)'
    <3>1. CASE q = r
      <4>1. bindings[r] = <<>>
        BY <2>1, <1>i DEF BindingKept
      <4>2. BindingKept(r)
        BY <1>i
      <4>3. via = "plan" => ContextFits(a)'
        BY <2>1 DEF ContextFits, Allowed
      <4> QED BY <2>1, <2>2, <2>3, <3>1, <4>1, <4>2, <4>3 DEF BindingKept, ContextFits, Allowed
    <3>2. CASE q # r
      BY <2>1, <2>3, <3>2, <1>i DEF BindingKept, ContextFits, Allowed
    <3> QED BY <3>1, <3>2
  <2>6. DescribedFit' /\ DefinitionsProtected'
    <3>1. ASSUME NEW set \in described' PROVE asked'[set[1]] # NotAsked /\ Describes(set[1], set[2])'
      <4>1. set[1] \in Requests /\ asked[set[1]] # NotAsked /\ Describes(set[1], set[2])
        BY <2>1, <1>t, <1>i DEF DescribedFit
      <4>2. asked'[set[1]] = asked[set[1]]
        BY <2>1, <2>3, <4>1
      <4> QED BY <2>1, <4>1, <4>2 DEF Describes
    <3> QED BY <2>1, <3>1, <1>i DEF DescribedFit, DefinitionsProtected
  <2> QED BY <2>1, <2>3, <2>4, <2>5, <2>6, <1>r
\* The engines a request is bound to were observed.
<1>b. ASSUME NEW a \in Alternatives PROVE Resolved(a) \in BindingRows /\ Resolved(a).engines \subseteq observed.eligible
  <2>1. Satisfying(a) \subseteq observed.eligible /\ observed.eligible \subseteq Engines
    BY <1>t DEF Satisfying, Observations
  <2>2. \E state \in BindingStates, engines \in {{}, Satisfying(a)} : Resolved(a) = Row(state, engines)
    BY DEF Resolved, BindingStates
  <2>3. ASSUME NEW state \in BindingStates, NEW engines \in SUBSET Engines
        PROVE  Row(state, engines) \in BindingRows /\ Row(state, engines).engines = engines
    BY DEF Row, BindingRows
  <2> QED BY <2>1, <2>2, <2>3
<1>3. ASSUME NEW h \in EnvHands, NEW r \in Requests, CheckResolve(h, r) PROVE EnvironmentInv'
  <2>1. asked[r] # NotAsked /\ Takes(h, [kind |-> "resolve", request |-> r, row |-> Resolved(asked[r].choice)])
        /\ UNCHANGED <<observed, aged, asked, bindings, voided, described, changes, session, ended,
                       attempts, verdicts>>
    BY <1>3 DEF CheckResolve
  <2>2. PICK row \in BindingRows : row = Resolved(asked[r].choice) /\ row.engines \subseteq observed.eligible
    <3>1. asked[r].choice \in Alternatives
      BY <2>1, <1>t DEF Askings
    <3> QED BY <3>1, <1>b
  <2>3. pending' = [pending EXCEPT ![h] = [kind |-> "resolve", request |-> r, row |-> row]]
    BY <2>1, <2>2 DEF Takes
  <2>4. [kind |-> "resolve", request |-> r, row |-> row] \in Resolving
    BY DEF Resolving
  <2>5. EnvironmentTypes'
    BY <2>1, <2>3, <2>4, <1>t DEF EnvironmentTypes
  <2>6. ASSUME NEW g \in EnvHands PROVE pending'[g] = pending[g] \/ PendingFounded(g)'
    BY <2>1, <2>2, <2>3, <1>t DEF PendingFounded
  <2> QED BY <2>1, <2>5, <2>6, <1>s, <1>r
<1>4. ASSUME NEW h \in EnvHands, WriteBinding(h) PROVE EnvironmentInv'
  <2>1. PICK r \in Requests, row \in BindingRows :
          /\ r = pending[h].request /\ row = pending[h].row
          /\ asked[r] # NotAsked /\ row.engines \subseteq observed.eligible
    BY <1>4, <1>p, <1>i DEF WriteBinding, PendingFounded
  <2>2. /\ bindings' = IF bindings[r] = <<>> THEN [bindings EXCEPT ![r] = <<row>>] ELSE bindings
        /\ Leaves(h)
        /\ UNCHANGED <<observed, aged, asked, voided, described, changes, session, ended, attempts, verdicts>>
    BY <1>4, <2>1 DEF WriteBinding
  <2>3. <<row>> \in Seq(BindingRows) /\ Len(<<row>>) = 1 /\ <<row>>[1] = row
    OBVIOUS
  <2>4. /\ bindings' \in [Requests -> Seq(BindingRows)]
        /\ \A q \in Requests : bindings'[q] = bindings[q] \/ (q = r /\ bindings'[q] = <<row>>)
    BY <2>2, <2>3, <1>t
  <2>5. EnvironmentTypes'
    BY <2>2, <2>4, <1>t, <1>h DEF EnvironmentTypes
  <2>6. ASSUME NEW q \in Requests PROVE BindingKept(q)'
    <3>1. BindingKept(q)
      BY <1>i
    <3>2. (asked[q] # NotAsked /\ asked[q].via = "plan" => ContextFits(asked[q].choice))'
      BY <2>2, <3>1 DEF BindingKept, ContextFits, Allowed
    <3> QED BY <2>1, <2>2, <2>3, <2>4, <3>1, <3>2 DEF BindingKept
  <2>7. DescribedFit' /\ DefinitionsProtected'
    BY <2>2, <1>i DEF DescribedFit, Describes, DefinitionsProtected
  <2> QED BY <2>2, <2>5, <2>6, <2>7, <1>h, <1>r
<1>5. ASSUME NEW r \in Requests, Invalidate(r) PROVE EnvironmentInv'
  <2>1. /\ bindings[r] # <<>> /\ voided' = voided \cup {r}
        /\ UNCHANGED <<observed, aged, asked, bindings, described, changes, session, ended, attempts,
                       verdicts, pending>>
    BY <1>5 DEF Invalidate, Bound
  <2>2. EnvironmentTypes'
    BY <2>1, <1>t DEF EnvironmentTypes
  <2>3. \A q \in Requests : BindingKept(q)'
    BY <2>1, <1>i DEF BindingKept, ContextFits, Allowed
  <2>4. DescribedFit' /\ DefinitionsProtected'
    BY <2>1, <1>i DEF DescribedFit, Describes, DefinitionsProtected
  <2> QED BY <2>1, <2>2, <2>3, <2>4, <1>r
<1>6. ASSUME NEW r \in Requests, NEW digest \in Digests, ValidateDescriptors(r, digest) \/ PlanChange(r, digest)
      PROVE  EnvironmentInv'
  <2>1. UNCHANGED <<observed, aged, asked, bindings, voided, session, ended, attempts, verdicts, pending>>
    BY <1>6 DEF ValidateDescriptors, PlanChange
  <2>2. CASE ValidateDescriptors(r, digest)
    <3>1. /\ bindings[r] # <<>> /\ Describes(r, digest) /\ described' = described \cup {<<r, digest>>}
          /\ changes' = changes
      BY <2>2 DEF ValidateDescriptors, Compatible, Bound
    <3>2. asked[r] # NotAsked
      BY <3>1, <1>i DEF BindingKept
    <3>3. EnvironmentTypes'
      BY <2>1, <3>1, <1>t DEF EnvironmentTypes
    <3>4. DescribedFit' /\ DefinitionsProtected'
      BY <2>1, <3>1, <3>2, <1>i DEF DescribedFit, Describes, DefinitionsProtected
    <3>5. \A q \in Requests : BindingKept(q)'
      BY <2>1, <1>i DEF BindingKept, ContextFits, Allowed
    <3> QED BY <2>1, <3>3, <3>4, <3>5, <1>r
  <2>3. CASE PlanChange(r, digest)
    <3>1. /\ <<r, digest>> \in described /\ observed.file # digest /\ described' = described
          /\ changes' = changes \cup {[content |-> digest, overwrites |-> observed.file # NoFile]}
      BY <2>3 DEF PlanChange
    <3>2. Describes(r, digest)
      BY <3>1, <1>i DEF DescribedFit
    <3>3. observed.file = NoFile
      BY <3>1, <3>2 DEF Describes
    <3>4. DefinitionsProtected'
      <4>1. PICK new : new = [content |-> digest, overwrites |-> observed.file # NoFile]
        OBVIOUS
      <4>2. ~new.overwrites /\ changes' = changes \cup {new}
        BY <3>1, <3>3, <4>1
      <4> QED BY <4>2, <1>i DEF DefinitionsProtected
    <3>5. DescribedFit' /\ \A q \in Requests : BindingKept(q)'
      BY <2>1, <3>1, <1>i DEF DescribedFit, Describes, BindingKept, ContextFits, Allowed
    <3>6. EnvironmentTypes'
      BY <2>1, <3>1, <1>t DEF EnvironmentTypes
    <3> QED BY <2>1, <3>4, <3>5, <3>6, <1>r
  <2> QED BY <1>6, <2>2, <2>3
\* A step that only takes or leaves the desk of a thread.
<1>k. ASSUME NEW h \in EnvHands, NEW row \in Attempting \cup Verifying,
             UNCHANGED <<observed, aged, asked, bindings, voided, described, changes, session, ended,
                         attempts, verdicts>>,
             pending' = [pending EXCEPT ![h] = row],
             row.kind = "attempt" => AttemptFounded(row.row), row.kind = "verify" => VerdictFounded(row.request, row.row)
      PROVE  EnvironmentInv'
  <2>1. EnvironmentTypes'
    BY <1>k, <1>t DEF EnvironmentTypes
  <2>2. /\ \A r \in AttemptRows : AttemptFounded(r) => AttemptFounded(r)'
        /\ \A q \in Requests, r \in VerdictRows : VerdictFounded(q, r) => VerdictFounded(q, r)'
        /\ EndedOnce'
    <3>1. EndedOnce'
      BY <1>k, <1>i DEF EndedOnce
    <3> QED BY <1>k, <3>1, EvidenceLasts
  <2>3. ASSUME NEW g \in EnvHands PROVE pending'[g] = pending[g] \/ PendingFounded(g)'
    <3>1. CASE g # h
      BY <1>k, <1>t, <3>1
    <3>2. CASE g = h
      <4>1. pending'[g] = row
        BY <1>k, <1>t, <3>2
      <4>2. CASE row \in Attempting
        <5>1. row.kind = "attempt" /\ row.row \in AttemptRows
          BY <4>2 DEF Attempting
        <5>2. AttemptFounded(row.row)'
          BY <1>k, <2>2, <5>1
        <5> QED BY <4>1, <5>1, <5>2 DEF PendingFounded
      <4>3. CASE row \in Verifying
        <5>1. row.kind = "verify" /\ row.request \in Requests /\ row.row \in VerdictRows
          BY <4>3 DEF Verifying
        <5>2. VerdictFounded(row.request, row.row)'
          BY <1>k, <2>2, <5>1
        <5> QED BY <4>1, <5>1, <5>2 DEF PendingFounded
      <4> QED BY <4>2, <4>3
    <3> QED BY <3>1, <3>2
  <2> QED BY <1>k, <2>1, <2>2, <2>3, <1>s, <1>r
<1>7. ASSUME NEW r \in Requests, NEW o \in Operations, PlanOperation(r, o) PROVE EnvironmentInv'
  <2>1. /\ session[o] = "none" /\ session' = [session EXCEPT ![o] = "planned"]
        /\ UNCHANGED <<observed, aged, asked, bindings, voided, described, changes, ended, attempts,
                       verdicts, pending>>
    BY <1>7 DEF PlanOperation
  <2>2. /\ session' \in [Operations -> SessionStates] /\ session'[o] = "planned"
        /\ \A p \in Operations : p # o => session'[p] = session[p]
    BY <2>1, <1>t DEF SessionStates
  <2>3. EnvironmentTypes'
    BY <2>1, <2>2, <1>t DEF EnvironmentTypes
  <2>4. EndedOnce'
    BY <2>1, <2>2, <1>i DEF EndedOnce
  <2> QED BY <2>1, <2>2, <2>3, <2>4, <1>s, <1>q
<1>8. ASSUME NEW o \in Operations, NEW outcome \in SessionStates, EndSession(o, outcome) PROVE EnvironmentInv'
  <2>1. /\ session' = [session EXCEPT ![o] = outcome]
        /\ UNCHANGED <<observed, aged, asked, bindings, voided, described, changes, attempts, verdicts,
                       pending>>
        /\ outcome \notin {"none", "planned"} /\ session[o] \in {"planned", "uncertain"}
        /\ session[o] = "planned" => ended' = Append(ended, o)
        /\ session[o] = "uncertain" => ended' = ended
    BY <1>8 DEF EndSession
  <2>2. /\ session' \in [Operations -> SessionStates] /\ session'[o] = outcome
        /\ \A p \in Operations : p # o => session'[p] = session[p]
    BY <2>1, <1>t
  <2>3. CASE session[o] = "planned"
    <3>1. /\ ended' \in Seq(Operations) /\ Len(ended) \in Nat /\ DOMAIN ended = 1..Len(ended)
          /\ DOMAIN ended' = 1..(Len(ended) + 1) /\ ended'[Len(ended) + 1] = o
          /\ \A n \in 1..Len(ended) : ended'[n] = ended[n]
      <4>1. ended' = Append(ended, o) /\ ended \in Seq(Operations) /\ o \in Operations
        BY <2>1, <2>3, <1>t
      <4>2. ended' \in Seq(Operations) /\ Len(ended) \in Nat /\ DOMAIN ended = 1..Len(ended)
        BY <4>1
      <4>3. DOMAIN ended' = 1..(Len(ended) + 1) /\ ended'[Len(ended) + 1] = o
        BY <4>1
      <4>4. \A n \in 1..Len(ended) : ended'[n] = ended[n]
        BY <4>1
      <4> QED BY <4>2, <4>3, <4>4
    <3>2. /\ \A n \in DOMAIN ended : n \in DOMAIN ended' /\ ended'[n] = ended[n] /\ ended[n] # o
          /\ \A n \in DOMAIN ended' : n \in DOMAIN ended \/ n = Len(ended) + 1
      BY <2>3, <3>1, <1>i DEF EndedOnce
    <3>3. Len(ended) + 1 \in DOMAIN ended' /\ Len(ended) + 1 \notin DOMAIN ended
      BY <3>1
    <3>4. EndedOnce'
      <4>1. ASSUME NEW m \in DOMAIN ended', NEW n \in DOMAIN ended', ended'[m] = ended'[n] PROVE m = n
        BY <3>1, <3>2, <4>1, <1>i DEF EndedOnce
      <4>2. ASSUME NEW p \in Operations
            PROVE  session'[p] \notin {"none", "planned"} <=> \E n \in DOMAIN ended' : ended'[n] = p
        <5>1. CASE p = o
          BY <2>1, <2>2, <3>1, <3>3, <5>1
        <5>2. CASE p # o
          BY <2>2, <3>1, <3>2, <5>2, <1>i DEF EndedOnce
        <5> QED BY <5>1, <5>2
      <4> QED BY <4>1, <4>2 DEF EndedOnce
    <3>5. EnvironmentTypes'
      BY <2>1, <2>2, <3>1, <1>t DEF EnvironmentTypes
    <3> QED BY <2>1, <2>2, <2>3, <3>2, <3>4, <3>5, <1>s, <1>q
  <2>4. CASE session[o] = "uncertain"
    <3>1. EndedOnce'
      BY <2>1, <2>2, <2>4, <1>i DEF EndedOnce
    <3>2. EnvironmentTypes'
      BY <2>1, <2>2, <2>4, <1>t DEF EnvironmentTypes
    <3> QED BY <2>1, <2>2, <2>4, <3>1, <3>2, <1>s, <1>q
  <2> QED BY <2>1, <2>3, <2>4
<1>9. ASSUME NEW h \in EnvHands, NEW r \in Requests, NEW o \in Operations, CheckAttempt(h, r, o)
      PROVE  EnvironmentInv'
  <2> DEFINE new == [request |-> r, operation |-> o, settlement |-> SettlementOf(o)]
             row == [kind |-> "attempt", row |-> new]
  <2>1. /\ session[o] \notin {"none", "planned"} /\ pending' = [pending EXCEPT ![h] = row]
        /\ UNCHANGED <<observed, aged, asked, bindings, voided, described, changes, session, ended,
                       attempts, verdicts>>
    BY <1>9 DEF CheckAttempt, Takes
  <2>2. SettlementOf(o) \in Settlements /\ (SettlementOf(o) = "verified" => session[o] = "completed")
    BY <2>1, <1>t DEF SettlementOf, Settlements, SessionStates
  <2>3. new \in AttemptRows /\ new.operation = o /\ new.settlement = SettlementOf(o)
    BY <2>2 DEF AttemptRows
  <2>4. AttemptFounded(new)
    BY <2>1, <2>2, <2>3 DEF AttemptFounded
  <2> HIDE DEF new
  <2>5. row \in Attempting /\ row.kind = "attempt" /\ row.row = new
    BY <2>3 DEF Attempting
  <2> HIDE DEF row
  <2> QED BY <2>1, <2>4, <2>5, <1>k
<1>10. ASSUME NEW h \in EnvHands, WriteAttempt(h) PROVE EnvironmentInv'
  <2>1. PICK row \in AttemptRows : row = pending[h].row /\ AttemptFounded(row)
    BY <1>10, <1>p, <1>i DEF WriteAttempt, PendingFounded
  <2>2. /\ attempts' = Append(attempts, row) /\ Leaves(h)
        /\ UNCHANGED <<observed, aged, asked, bindings, voided, described, changes, session, ended, verdicts>>
    BY <1>10, <2>1 DEF WriteAttempt
  <2>3. /\ attempts' \in Seq(AttemptRows) /\ Len(attempts) \in Nat /\ DOMAIN attempts = 1..Len(attempts)
        /\ DOMAIN attempts' = 1..(Len(attempts) + 1) /\ attempts'[Len(attempts) + 1] = row
        /\ \A i \in 1..Len(attempts) : attempts'[i] = attempts[i]
    BY <2>2, <1>t
  <2>4. EnvironmentTypes'
    BY <2>2, <2>3, <1>t, <1>h DEF EnvironmentTypes
  <2>5. EndedOnce'
    BY <2>2, <1>i DEF EndedOnce
  <2>6. \A i \in DOMAIN attempts : i \in DOMAIN attempts' /\ attempts'[i] = attempts[i]
    BY <2>3
  <2>7. ASSUME NEW i \in DOMAIN attempts' PROVE i \in DOMAIN attempts \/ AttemptFounded(attempts[i])'
    <3>1. i \in DOMAIN attempts \/ attempts'[i] = row
      BY <2>3
    <3> QED BY <2>1, <2>2, <3>1 DEF AttemptFounded
  <2> QED BY <2>2, <2>4, <2>5, <2>6, <2>7, <1>h, <1>s, <1>q
<1>11. ASSUME NEW h \in EnvHands, NEW r \in Requests, NEW cites \in [Checks -> SUBSET (DOMAIN attempts)],
              CheckVerify(h, r, cites)
       PROVE  EnvironmentInv'
  <2> DEFINE new == [cites |-> cites, settlement |-> VerdictOf(cites)]
             row == [kind |-> "verify", request |-> r, row |-> new]
             all == UNION {cites[c] : c \in DOMAIN cites}
  <2>1. /\ {} \notin {cites[c] : c \in Checks} /\ (\A i \in all : attempts[i].request = r)
        /\ pending' = [pending EXCEPT ![h] = row]
        /\ UNCHANGED <<observed, aged, asked, bindings, voided, described, changes, session, ended,
                       attempts, verdicts>>
    BY <1>11 DEF CheckVerify, Takes
  <2>2. VerdictOf(cites) \in Settlements \ {"cancelled"}
        /\ (VerdictOf(cites) = "verified" => \A c \in DOMAIN cites : CheckState(cites[c]) = "true")
    BY DEF VerdictOf, Settlements
  <2>3. \A c \in Checks : cites[c] \subseteq DOMAIN attempts /\ cites[c] # {}
                          /\ \A i \in cites[c] : attempts[i].request = r
    BY <2>1
  <2>4. new \in VerdictRows /\ new.cites = cites /\ new.settlement = VerdictOf(cites)
    <3>1. DOMAIN attempts \subseteq Nat
      BY <1>t
    <3> QED BY <2>2, <3>1 DEF VerdictRows
  <2>5. VerdictFounded(r, new)
    <3> SUFFICES ASSUME NEW c \in Checks
                 PROVE  /\ cites[c] \subseteq DOMAIN attempts
                        /\ VerdictOf(cites) = "verified" => CheckEarned(r, cites[c])
      BY <2>4 DEF VerdictFounded
    <3>1. VerdictOf(cites) = "verified" => CheckState(cites[c]) = "true"
      BY <2>2
    <3> QED BY <2>3, <3>1, TrueIsEarned
  <2> HIDE DEF new
  <2>6. row \in Verifying /\ row.kind = "verify" /\ row.request = r /\ row.row = new
    BY <2>4 DEF Verifying
  <2> HIDE DEF row
  <2> QED BY <2>1, <2>5, <2>6, <1>k
<1>12. ASSUME NEW h \in EnvHands, WriteVerify(h) PROVE EnvironmentInv'
  <2>1. PICK r \in Requests, row \in VerdictRows :
          r = pending[h].request /\ row = pending[h].row /\ VerdictFounded(r, row)
    BY <1>12, <1>p, <1>i DEF WriteVerify, PendingFounded
  <2>2. /\ verdicts' = [verdicts EXCEPT ![r] = Append(@, row)] /\ Leaves(h)
        /\ UNCHANGED <<observed, aged, asked, bindings, voided, described, changes, session, ended, attempts>>
    BY <1>12, <2>1 DEF WriteVerify
  <2>3. /\ verdicts[r] \in Seq(VerdictRows) /\ Append(verdicts[r], row) \in Seq(VerdictRows)
        /\ DOMAIN Append(verdicts[r], row) = 1..(Len(verdicts[r]) + 1) /\ Len(verdicts[r]) \in Nat
        /\ DOMAIN verdicts[r] = 1..Len(verdicts[r])
        /\ Append(verdicts[r], row)[Len(verdicts[r]) + 1] = row
        /\ \A i \in 1..Len(verdicts[r]) : Append(verdicts[r], row)[i] = verdicts[r][i]
    BY <1>t
  <2>4. /\ verdicts' \in [Requests -> Seq(VerdictRows)] /\ verdicts'[r] = Append(verdicts[r], row)
        /\ \A q \in Requests : q # r => verdicts'[q] = verdicts[q]
    BY <2>2, <2>3, <1>t
  <2>5. EnvironmentTypes'
    BY <2>2, <2>4, <1>t, <1>h DEF EnvironmentTypes
  <2>6. EndedOnce'
    BY <2>2, <1>i DEF EndedOnce
  <2>7. VerdictFounded(r, row)'
    BY <2>1, <2>2, <2>6, EvidenceLasts
  <2>8. ASSUME NEW q \in Requests, NEW i \in DOMAIN verdicts'[q]
        PROVE  (i \in DOMAIN verdicts[q] /\ verdicts'[q][i] = verdicts[q][i]) \/ VerdictFounded(q, verdicts[q][i])'
    <3>1. CASE q # r
      BY <2>4, <3>1
    <3>2. CASE q = r
      <4>1. (i \in DOMAIN verdicts[q] /\ verdicts'[q][i] = verdicts[q][i]) \/ verdicts'[q][i] = row
        BY <2>3, <2>4, <3>2
      <4> QED BY <2>7, <3>2, <4>1 DEF VerdictFounded
    <3> QED BY <3>1, <3>2
  <2> QED BY <2>2, <2>5, <2>6, <2>8, <1>h, <1>s, <1>q
<1>13. CASE UNCHANGED environmentVars
  <2>1. UNCHANGED <<observed, aged, asked, bindings, voided, described, changes, session, ended,
                    attempts, verdicts, pending>>
    BY <1>13 DEF environmentVars
  <2>2. EnvironmentTypes'
    BY <2>1, <1>t DEF EnvironmentTypes
  <2> QED BY <2>1, <2>2, <1>s, <1>r
<1>14. CASE ResolveNext
  BY <1>14, <1>1, <1>2, <1>3, <1>4, <1>5, <1>6 DEF ResolveNext
<1>15. CASE EvidenceNext
  BY <1>15, <1>5, <1>7, <1>8, <1>9, <1>10, <1>11, <1>12 DEF EvidenceNext
<1> QED BY <1>13, <1>14, <1>15 DEF EnvironmentNext

\* What the plan validator accepts, the resolver binds: they read the same observation in
\* different terms.
LEMMA FittingResolves ==
  ASSUME NEW a \in Alternatives, ContextFits(a), ~aged, a.outcome # "unresolved",
         ~(a.outcome = "reuse" /\ a.semantics # {} /\ a.eligible = {})
  PROVE  Resolved(a).state = "compatible"
<1>1. /\ a.outcome \in Outcomes
      /\ a.outcome \in {"generate", "propose"} => a.formats # {}
      /\ a.required \subseteq a.eligible
  BY DEF Alternatives
<1>2. /\ a.outcome = "reuse" => Allowed(a.formats)
      /\ a.outcome # "reuse" => a.eligible # {}
      /\ \A e \in a.eligible : e \in observed.eligible /\ a.semantics \subseteq Supports[e]
  BY DEF ContextFits
<1>3. ASSUME a.eligible # {} PROVE Satisfying(a) # {}
  <2>1. CASE a.required = {}
    BY <1>2, <1>3, <2>1 DEF Satisfying
  <2>2. CASE a.required # {}
    BY <1>1, <1>2, <2>2 DEF Satisfying
  <2> QED BY <2>1, <2>2
<1>4. a.required \cup a.semantics # {} /\ a.outcome = "reuse" => a.eligible # {}
  BY <1>1
<1>5. \A engines : Row("compatible", engines).state = "compatible"
  BY DEF Row
<1>6. CASE a.outcome = "reuse"
  BY <1>2, <1>3, <1>4, <1>5, <1>6 DEF Resolved
<1>7. CASE a.outcome # "reuse"
  BY <1>1, <1>2, <1>3, <1>5, <1>7 DEF Resolved, Outcomes
<1> QED BY <1>6, <1>7

\* Whatever threads read and write apart, and whatever ages, ends or is invalidated: a context
\* is bound once and as its plan was accepted, no definition of the project is overwritten, and
\* a context is ready only on completed operations of its own binding.
THEOREM EnvironmentStaysGoverned == EnvironmentSpec => []EnvironmentGoverned
<1>1. EnvironmentInv => EnvironmentGoverned
  <2> SUFFICES ASSUME EnvironmentInv PROVE EnvironmentGoverned
    OBVIOUS
  <2>1. /\ EnvironmentTypes /\ DefinitionsProtected
        /\ \A r \in Requests : BindingKept(r)
        /\ \A i \in DOMAIN attempts : AttemptFounded(attempts[i])
        /\ \A r \in Requests : \A i \in DOMAIN verdicts[r] : VerdictFounded(r, verdicts[r][i])
    BY DEF EnvironmentInv
  <2>2. OneBinding
    BY <2>1 DEF BindingKept, OneBinding
  <2>3. EnvironmentTypeOK
    <3>1. observed.eligible \subseteq Engines /\ observed.file \in Digests \cup {NoFile}
      BY <2>1 DEF EnvironmentTypes, Observations
    <3>2. ASSUME NEW r \in Requests, NEW i \in DOMAIN bindings[r]
          PROVE  /\ bindings[r][i].state \in BindingStates /\ bindings[r][i].engines \subseteq observed.eligible
                 /\ asked[r] # NotAsked
      <4>1. bindings[r] \in Seq(BindingRows)
        BY <2>1 DEF EnvironmentTypes
      <4>2. i = 1 /\ bindings[r] # <<>>
        BY <2>1, <4>1 DEF BindingKept
      <4>3. bindings[r][i] \in BindingRows
        BY <4>1
      <4> QED BY <2>1, <4>2, <4>3 DEF BindingKept, BindingRows
    <3>3. \A r \in voided : bindings[r] # <<>>
      BY <2>1 DEF EnvironmentTypes, BindingKept
    <3>4. \A i \in DOMAIN attempts : /\ attempts[i].settlement \in Settlements
                                     /\ session[attempts[i].operation] \notin {"none", "planned"}
      <4>1. \A i \in DOMAIN attempts : attempts[i] \in AttemptRows
        BY <2>1 DEF EnvironmentTypes
      <4> QED BY <2>1, <4>1 DEF AttemptFounded, AttemptRows
    <3>5. ASSUME NEW r \in Requests, NEW i \in DOMAIN verdicts[r]
          PROVE  verdicts[r][i].settlement \in Settlements \ {"cancelled"}
      <4>1. verdicts[r] \in Seq(VerdictRows)
        BY <2>1 DEF EnvironmentTypes
      <4>2. verdicts[r][i] \in VerdictRows
        BY <4>1
      <4> QED BY <4>2 DEF VerdictRows
    <3>6. \A o \in Operations : session[o] \in SessionStates
      BY <2>1 DEF EnvironmentTypes
    <3> QED BY <3>1, <3>2, <3>3, <3>4, <3>5, <3>6 DEF EnvironmentTypeOK
  <2>4. AcceptedResolves
    <3> SUFFICES ASSUME NEW r \in Requests, asked[r].via = "plan", ~aged, asked[r].choice.outcome # "unresolved",
                        ~(/\ asked[r].choice.outcome = "reuse" /\ asked[r].choice.semantics # {}
                          /\ asked[r].choice.eligible = {})
                 PROVE  Resolved(asked[r].choice).state = "compatible"
      BY DEF AcceptedResolves
    <3>1. asked[r] # NotAsked
      BY DEF NotAsked
    <3>2. asked[r].choice \in Alternatives
      BY <2>1, <3>1 DEF EnvironmentTypes, Askings
    <3>3. ContextFits(asked[r].choice)
      BY <2>1, <3>1 DEF BindingKept
    <3> QED BY <3>2, <3>3, FittingResolves
  <2>5. ReadyIsEarned
    <3> SUFFICES ASSUME NEW r \in Requests, Ready(r), NEW c \in Checks
                 PROVE  LET cites == verdicts[r][Len(verdicts[r])].cites
                        IN /\ \A i \in cites[c] : attempts[i].request = r /\ Settled(i) \in {"verified", "uncertain"}
                           /\ \E i \in cites[c] : /\ \A j \in cites[c] : Ended(j) <= Ended(i)
                                                  /\ session[attempts[i].operation] = "completed"
      BY DEF ReadyIsEarned
    <3>1. verdicts[r] \in Seq(VerdictRows) /\ verdicts[r] # <<>>
          /\ verdicts[r][Len(verdicts[r])].settlement = "verified"
      BY <2>1 DEF EnvironmentTypes, Ready
    <3>2. Len(verdicts[r]) \in DOMAIN verdicts[r]
      BY <3>1
    <3>3. CheckEarned(r, verdicts[r][Len(verdicts[r])].cites[c])
      BY <2>1, <3>1, <3>2 DEF VerdictFounded
    <3> QED BY <3>3 DEF CheckEarned
  <2> QED BY <2>1, <2>2, <2>3, <2>4, <2>5 DEF EnvironmentGoverned
<1> QED BY <1>1, EnvironmentInitially, EnvironmentStep, PTL DEF EnvironmentSpec

-----------------------------------------------------------------------------
(* Knowledge: operations, promotions and queries. *)

Contents == Mutations \cup {Before, Nothing}
CorpusRows == [state : CorpusStates, snapshot : Contents, revision : Nat]
Steps(o) == {StepsOf(o)[i] : i \in DOMAIN StepsOf(o)}
AllDone(o) == Steps(o) \subseteq done[o]

\* What is published was brought about.
Founds(x) == x \in Mutations => AllDone(x)

WorkPhases ==
  {"none", "requested", "claimed", "calling", "sent", "answered", "built", "referenced", "published",
   "ready", "cancelling"}

KnowledgeTypes ==
  /\ mutation \in [Mutations -> [state : MutationStates, revision : Nat]]
  /\ corpus \in [Corpora -> CorpusRows]
  /\ DOMAIN working = Mutations
  /\ sent \in [Mutations -> [Provides -> Nat]]
  /\ done \in [Mutations -> SUBSET Provides]
  /\ current \in [Corpora -> [reference : Contents, file : Contents]]
  /\ indexer \in [Corpora -> Mutations \cup {Nothing}]

PromotionAgrees ==
  /\ promoted \in [state : {"absent", "proposed", "approved", "rejected", "revoked"},
                   proposer : Advisors \cup {Nothing}, decider : Approvers \cup {Nothing}]
  /\ promoted.state \in {"approved", "rejected", "revoked"} =>
       promoted.decider \in Approvers \ {promoted.proposer}

\* What is published of a corpus, and what its last indexing operation brought.
CorpusAgrees(c) ==
  /\ Founds(corpus[c].snapshot) /\ Founds(current[c].reference) /\ Founds(current[c].file)
  /\ corpus[c].state = "ready" => corpus[c].snapshot # Nothing
  /\ indexer[c] # Nothing => HasCorpus(indexer[c]) /\ CorpusOf[indexer[c]] = c
  /\ corpus[c].state = "ready" /\ indexer[c] # Nothing /\ MutationKind[indexer[c]] \in {"ingest", "refresh"} =>
       /\ "cognify" \in done[indexer[c]]
       /\ MutationKind[indexer[c]] = "ingest" =>
            corpus[c].snapshot = indexer[c] /\ "add" \in done[indexer[c]]

\* An operation that was not begun dispatched nothing; how it ended is what its provider did.
MutationAgrees(o) ==
  /\ \A s \in Provides : sent[o][s] <= 1
  /\ mutation[o].state \in {"absent", "queued"} => done[o] = {} /\ \A s \in Provides : sent[o][s] = 0
  /\ mutation[o].state = "succeeded" => AllDone(o)
  /\ mutation[o].state = "cancelled" => ~AllDone(o)

\* The record of an operation is where the command on it is.
PhaseAgrees(o) ==
  /\ working[o].phase \in WorkPhases /\ "phase" \in DOMAIN working[o]
  /\ working[o].phase = "none" => working[o] = Resting
  /\ working[o].phase = "requested" => mutation[o].state \in {"absent", "queued", "running"}
  /\ working[o].phase \in {"claimed", "calling", "sent", "answered"} => mutation[o].state = "running"
  /\ working[o].phase \in {"built", "referenced", "published", "ready"} =>
       mutation[o].state \in {"running", "uncertain"}
  /\ working[o].phase \in {"built", "referenced", "published"} => MutationKind[o] = "graph"
  /\ working[o].phase = "answered" => MutationKind[o] \in {"ingest", "refresh"}
  /\ working[o].phase = "cancelling" => mutation[o].state = "cancel_requested"

\* A command has dispatched the steps up to its own, and each before it took effect.
StepAgrees(o) ==
  /\ working[o].phase = "claimed" => \A s \in Provides : sent[o][s] = 0
  /\ working[o].phase \in {"calling", "sent"} =>
       /\ "next" \in DOMAIN working[o] /\ working[o].next \in 1..Len(StepsOf(o))
       /\ \A j \in DOMAIN StepsOf(o) : j < working[o].next => StepsOf(o)[j] \in done[o]
       /\ \A j \in DOMAIN StepsOf(o) : j > working[o].next => sent[o][StepsOf(o)[j]] = 0
  /\ working[o].phase = "calling" => sent[o][StepsOf(o)[working[o].next]] = 0
  /\ working[o].phase \in {"answered", "built", "referenced", "published", "ready"} => AllDone(o)

\* The row of the corpus a command read is not ahead of the corpus; while it is the row of
\* the corpus, no other operation began to index it.
ImageAgrees(o) ==
  HasCorpus(o) /\ working[o].phase \notin {"none", "cancelling"} =>
    /\ "at" \in DOMAIN working[o] /\ working[o].at \in CorpusRows /\ Founds(working[o].at.snapshot)
    /\ working[o].at.revision <= corpus[CorpusOf[o]].revision
    /\ MutationKind[o] = "refresh" => working[o].at.snapshot # Nothing
    /\ /\ MutationKind[o] \in {"ingest", "refresh"} /\ working[o].phase \in {"calling", "sent", "answered"}
       /\ working[o].at.revision = corpus[CorpusOf[o]].revision
       => indexer[CorpusOf[o]] = o

KnowledgeInv ==
  /\ KnowledgeTypes /\ PromotionAgrees
  /\ \A c \in Corpora : CorpusAgrees(c)
  /\ \A o \in Mutations : MutationAgrees(o) /\ PhaseAgrees(o) /\ StepAgrees(o) /\ ImageAgrees(o)

\* What has taken effect is not taken back, and a corpus is written under a new revision.
Grows == \A p \in Mutations : done[p] \subseteq done'[p]
CorporaAdvance ==
  \A c \in Corpora :
    /\ corpus[c].revision <= corpus'[c].revision
    /\ corpus[c].revision = corpus'[c].revision => indexer'[c] = indexer[c]

\* The steps of an operation are distinct calls, one or two.
LEMMA StepFacts ==
  ASSUME NEW o \in Mutations
  PROVE  /\ Len(StepsOf(o)) \in 1..2 /\ DOMAIN StepsOf(o) = 1..Len(StepsOf(o))
         /\ \A i \in DOMAIN StepsOf(o) : StepsOf(o)[i] \in Provides
         /\ \A i, j \in DOMAIN StepsOf(o) : i # j => StepsOf(o)[i] # StepsOf(o)[j]
         /\ MutationKind[o] = "ingest" => Steps(o) = {"add", "cognify"}
         /\ MutationKind[o] = "refresh" => Steps(o) = {"cognify"}
         /\ MutationKind[o] = "graph" => Steps(o) = {"build"}
         /\ MutationKind[o] = "capture" => Steps(o) = {"write"}
<1>1. CASE MutationKind[o] = "ingest"
  <2>1. StepsOf(o) = <<"add", "cognify">>
    BY <1>1 DEF StepsOf
  <2>2. Len(StepsOf(o)) = 2 /\ DOMAIN StepsOf(o) = 1..2 /\ StepsOf(o)[1] = "add" /\ StepsOf(o)[2] = "cognify"
    BY <2>1
  <2> QED BY <1>1, <2>2 DEF Steps, Provides
<1>2. CASE MutationKind[o] \in {"refresh", "graph", "capture"}
  <2>1. PICK s \in Provides : /\ StepsOf(o) = << s >>
                              /\ MutationKind[o] = "refresh" => s = "cognify"
                              /\ MutationKind[o] = "graph" => s = "build"
                              /\ MutationKind[o] = "capture" => s = "write"
    BY <1>2 DEF StepsOf, Provides
  <2>2. Len(StepsOf(o)) = 1 /\ DOMAIN StepsOf(o) = 1..1 /\ StepsOf(o)[1] = s
    BY <2>1
  <2>3. Steps(o) = {s}
    BY <2>2 DEF Steps
  <2> QED BY <1>2, <2>1, <2>2, <2>3
<1> QED BY <1>1, <1>2, KnowledgeAssumption

\* A command that moves on keeps what it holds.
LEMMA CommandGoes ==
  ASSUME DOMAIN working = Mutations, NEW o \in Mutations, "phase" \in DOMAIN working[o],
         NEW phase, working' = Goes(o, phase)
  PROVE  /\ DOMAIN working' = Mutations /\ \A p \in Mutations \ {o} : working'[p] = working[p]
         /\ working'[o].phase = phase /\ "phase" \in DOMAIN working'[o]
         /\ "at" \in DOMAIN working[o] => "at" \in DOMAIN working'[o] /\ working'[o].at = working[o].at
         /\ "next" \in DOMAIN working[o] => "next" \in DOMAIN working'[o] /\ working'[o].next = working[o].next
<1>1. working'[o] = [working[o] EXCEPT !.phase = phase]
  BY DEF Goes
<1>2. DOMAIN working' = Mutations /\ \A p \in Mutations \ {o} : working'[p] = working[p]
  BY DEF Goes
<1>3. DOMAIN working'[o] = DOMAIN working[o] /\ working'[o].phase = phase
  BY <1>1
<1>4. "at" \in DOMAIN working[o] => working'[o].at = working[o].at
  BY <1>1
<1>5. "next" \in DOMAIN working[o] => working'[o].next = working[o].next
  BY <1>1
<1> QED BY <1>2, <1>3, <1>4, <1>5

\* A command that ends leaves nothing to agree with.
LEMMA CommandRests ==
  ASSUME DOMAIN working = Mutations, NEW o \in Mutations, working' = Rests(o)
  PROVE  /\ DOMAIN working' = Mutations /\ \A p \in Mutations \ {o} : working'[p] = working[p]
         /\ PhaseAgrees(o)' /\ StepAgrees(o)' /\ ImageAgrees(o)'
<1>1. DOMAIN working' = Mutations /\ (\A p \in Mutations \ {o} : working'[p] = working[p]) /\ working'[o] = Resting
  BY DEF Rests
<1>2. working'[o].phase = "none" /\ "phase" \in DOMAIN working'[o]
  BY <1>1 DEF Resting
<1> QED BY <1>1, <1>2 DEF PhaseAgrees, StepAgrees, ImageAgrees, WorkPhases

\* A row changes its state and counts.
LEMMA RowMoves ==
  ASSUME KnowledgeTypes, NEW o \in Mutations, NEW state \in MutationStates, mutation' = MRow(state, o)
  PROVE  /\ mutation' \in [Mutations -> [state : MutationStates, revision : Nat]]
         /\ mutation'[o].state = state /\ \A p \in Mutations \ {o} : mutation'[p] = mutation[p]
<1>1. mutation \in [Mutations -> [state : MutationStates, revision : Nat]]
  BY DEF KnowledgeTypes
<1>2. mutation[o].revision + 1 \in Nat
  BY <1>1
<1>3. PICK row \in [state : MutationStates, revision : Nat] : row = [state |-> state, revision |-> mutation[o].revision + 1]
  BY <1>2
<1>4. mutation' = [mutation EXCEPT ![o] = row]
  BY <1>3 DEF MRow
<1>5. row.state = state
  BY <1>3
<1> QED BY <1>1, <1>4, <1>5

\* What one command does agrees with every other operation.
LEMMA OthersAgree ==
  ASSUME KnowledgeInv, NEW p \in Mutations, Grows, CorporaAdvance, KnowledgeTypes',
         mutation'[p] = mutation[p], working'[p] = working[p], sent'[p] = sent[p], done'[p] = done[p]
  PROVE  MutationAgrees(p)' /\ PhaseAgrees(p)' /\ StepAgrees(p)' /\ ImageAgrees(p)'
<1>1. MutationAgrees(p) /\ PhaseAgrees(p) /\ StepAgrees(p) /\ ImageAgrees(p)
  BY DEF KnowledgeInv
<1>2. AllDone(p)' <=> AllDone(p)
  BY DEF AllDone
<1>3. MutationAgrees(p)'
  BY <1>1, <1>2 DEF MutationAgrees
<1>4. PhaseAgrees(p)'
  BY <1>1 DEF PhaseAgrees
<1>5. StepAgrees(p)'
  BY <1>1, <1>2 DEF StepAgrees
<1>6. ASSUME NEW x, Founds(x) PROVE Founds(x)'
  BY <1>6 DEF Founds, AllDone, Grows
<1>7. ImageAgrees(p)'
  <2> SUFFICES ASSUME HasCorpus(p), working[p].phase \notin {"none", "cancelling"}
               PROVE  ImageAgrees(p)'
    BY DEF ImageAgrees
  <2>1. CorpusOf[p] \in Corpora
    BY KnowledgeAssumption DEF HasCorpus
  <2> DEFINE c == CorpusOf[p]
  <2>2. corpus[c].revision \in Nat /\ corpus'[c].revision \in Nat
    BY <2>1 DEF KnowledgeInv, KnowledgeTypes, CorpusRows
  <2>3. /\ corpus[c].revision <= corpus'[c].revision
        /\ corpus[c].revision = corpus'[c].revision => indexer'[c] = indexer[c]
    BY <2>1 DEF CorporaAdvance
  <2>4. working[p].at \in CorpusRows /\ "at" \in DOMAIN working[p] /\ Founds(working[p].at.snapshot)
        /\ working[p].at.revision <= corpus[c].revision
        /\ (MutationKind[p] = "refresh" => working[p].at.snapshot # Nothing)
    BY <1>1 DEF ImageAgrees
  <2>5. working[p].at.revision \in Nat
    BY <2>4 DEF CorpusRows
  <2>6. Founds(working[p].at.snapshot)'
    <3>1. PICK x : x = working[p].at.snapshot
      OBVIOUS
    <3>2. Founds(x)'
      BY <1>6, <2>4, <3>1
    <3> QED BY <3>1, <3>2 DEF Founds
  <2>7. ASSUME MutationKind[p] \in {"ingest", "refresh"}, working[p].phase \in {"calling", "sent", "answered"},
               working[p].at.revision = corpus'[c].revision
        PROVE  indexer'[c] = p
    <3>1. corpus[c].revision = corpus'[c].revision
      BY <2>2, <2>3, <2>4, <2>5, <2>7
    <3> QED BY <1>1, <2>3, <2>7, <3>1 DEF ImageAgrees
  <2>8. working[p].at.revision <= corpus'[c].revision
    BY <2>2, <2>3, <2>4, <2>5
  <2> QED BY <2>4, <2>6, <2>7, <2>8 DEF ImageAgrees
<1> QED BY <1>3, <1>4, <1>5, <1>7

\* What was published stays founded.
LEMMA CorpusStays ==
  ASSUME KnowledgeInv, NEW c \in Corpora, Grows,
         corpus'[c] = corpus[c], current'[c] = current[c], indexer'[c] = indexer[c]
  PROVE  CorpusAgrees(c)'
<1>1. CorpusAgrees(c) /\ indexer[c] \in Mutations \cup {Nothing}
  BY DEF KnowledgeInv, KnowledgeTypes
<1>2. indexer[c] # Nothing => done[indexer[c]] \subseteq done'[indexer[c]]
  BY <1>1 DEF Grows
<1>3. ASSUME NEW x, Founds(x) PROVE Founds(x)'
  BY <1>3 DEF Founds, AllDone, Grows
<1>4. PICK x, y, z : x = corpus[c].snapshot /\ y = current[c].reference /\ z = current[c].file
  OBVIOUS
<1>5. Founds(x)' /\ Founds(y)' /\ Founds(z)'
  BY <1>1, <1>3, <1>4 DEF CorpusAgrees
<1>6. x = corpus'[c].snapshot /\ y = current'[c].reference /\ z = current'[c].file
  BY <1>4
<1>7. Founds(corpus[c].snapshot)' /\ Founds(current[c].reference)' /\ Founds(current[c].file)'
  BY <1>5, <1>6 DEF Founds
<1> QED BY <1>1, <1>2, <1>7 DEF CorpusAgrees

\* A step about one operation keeps the invariant if what it leaves of that operation and of
\* the corpora agrees.
LEMMA OneOperation ==
  ASSUME KnowledgeInv, NEW o \in Mutations, Grows, CorporaAdvance, KnowledgeTypes', promoted' = promoted,
         \A p \in Mutations \ {o} : /\ mutation'[p] = mutation[p] /\ working'[p] = working[p]
                                    /\ sent'[p] = sent[p] /\ done'[p] = done[p],
         \A c \in Corpora : CorpusAgrees(c)',
         MutationAgrees(o)', PhaseAgrees(o)', StepAgrees(o)', ImageAgrees(o)'
  PROVE  KnowledgeInv'
<1>1. PromotionAgrees'
  BY DEF KnowledgeInv, PromotionAgrees
<1>2. ASSUME NEW p \in Mutations
      PROVE  MutationAgrees(p)' /\ PhaseAgrees(p)' /\ StepAgrees(p)' /\ ImageAgrees(p)'
  <2>1. CASE p = o
    BY <2>1
  <2>2. CASE p # o
    BY <2>2, OthersAgree
  <2> QED BY <2>1, <2>2
<1> QED BY <1>1, <1>2 DEF KnowledgeInv

\* The same when the providers and the corpora stay as they are.
LEMMA OneRecord ==
  ASSUME KnowledgeInv, NEW o \in Mutations, UNCHANGED <<corpus, sent, done, current, indexer, promoted>>,
         mutation' \in [Mutations -> [state : MutationStates, revision : Nat]], DOMAIN working' = Mutations,
         \A p \in Mutations \ {o} : mutation'[p] = mutation[p] /\ working'[p] = working[p],
         MutationAgrees(o)', PhaseAgrees(o)', StepAgrees(o)', ImageAgrees(o)'
  PROVE  KnowledgeInv'
<1>1. KnowledgeTypes'
  BY DEF KnowledgeInv, KnowledgeTypes
<1>2. Grows /\ CorporaAdvance
  <2>1. \A c \in Corpora : corpus[c].revision \in Nat
    BY DEF KnowledgeInv, KnowledgeTypes, CorpusRows
  <2> QED BY <2>1 DEF Grows, CorporaAdvance
<1>3. \A c \in Corpora : CorpusAgrees(c)'
  BY <1>2, CorpusStays
<1> QED BY <1>1, <1>2, <1>3, OneOperation

\* The image of the corpus serves a command until it writes the corpus.
LEMMA ImageStays ==
  ASSUME KnowledgeInv, NEW o \in Mutations, Grows, UNCHANGED <<corpus, indexer>>,
         working[o].phase \notin {"none", "cancelling"},
         "at" \in DOMAIN working[o] => "at" \in DOMAIN working'[o] /\ working'[o].at = working[o].at,
         working'[o].phase \in {"calling", "sent", "answered"} => working[o].phase \in {"calling", "sent", "answered"}
  PROVE  ImageAgrees(o)'
<1> SUFFICES ASSUME HasCorpus(o) PROVE ImageAgrees(o)'
  BY DEF ImageAgrees
<1>1. ImageAgrees(o)
  BY DEF KnowledgeInv
<1>2. "at" \in DOMAIN working'[o] /\ working'[o].at = working[o].at
  BY <1>1 DEF ImageAgrees
<1>3. ASSUME NEW x, Founds(x) PROVE Founds(x)'
  BY <1>3 DEF Founds, AllDone, Grows
<1>4. PICK row : row = working[o].at
  OBVIOUS
<1>5. row.snapshot = working'[o].at.snapshot /\ Founds(row.snapshot)'
  <2>1. PICK x : x = row.snapshot
    OBVIOUS
  <2>2. Founds(x)
    BY <1>1, <1>4, <2>1 DEF ImageAgrees
  <2>3. Founds(x)'
    BY <1>3, <2>2
  <2> QED BY <1>2, <1>4, <2>1, <2>3
<1>6. Founds(working[o].at.snapshot)'
  BY <1>5 DEF Founds
<1> QED BY <1>1, <1>2, <1>6 DEF ImageAgrees

\* A command that begins read the corpus as it is.
LEMMA RequestAgrees == ASSUME KnowledgeInv, NEW o \in Mutations, Request(o) PROVE KnowledgeInv'
<1> USE KnowledgeAssumption
<1>t. KnowledgeTypes /\ MutationAgrees(o) /\ \A c \in Corpora : CorpusAgrees(c)
  BY DEF KnowledgeInv
<1>1. /\ mutation[o].state \in {"absent", "queued", "running"}
      /\ MutationKind[o] = "refresh" => corpus[CorpusOf[o]].snapshot # Nothing
      /\ UNCHANGED <<mutation, corpus, sent, done, current, indexer, promoted>>
      /\ working' = [working EXCEPT ![o] =
           IF HasCorpus(o) THEN [phase |-> "requested", at |-> corpus[CorpusOf[o]]]
           ELSE [phase |-> "requested"]]
  BY DEF Request
<1>2. DOMAIN working' = Mutations /\ \A p \in Mutations \ {o} : working'[p] = working[p]
  BY <1>t, <1>1 DEF KnowledgeTypes
<1>3. working'[o] = IF HasCorpus(o) THEN [phase |-> "requested", at |-> corpus[CorpusOf[o]]]
                    ELSE [phase |-> "requested"]
  BY <1>t, <1>1 DEF KnowledgeTypes
<1>4. working'[o].phase = "requested" /\ "phase" \in DOMAIN working'[o]
  BY <1>3
<1>5. MutationAgrees(o)'
  BY <1>t, <1>1 DEF MutationAgrees, AllDone
<1>6. PhaseAgrees(o)' /\ StepAgrees(o)'
  BY <1>1, <1>4 DEF PhaseAgrees, StepAgrees, WorkPhases
<1>7. ImageAgrees(o)'
  <2> SUFFICES ASSUME HasCorpus(o) PROVE ImageAgrees(o)'
    BY DEF ImageAgrees
  <2>1. PICK c \in Corpora : c = CorpusOf[o]
    BY DEF HasCorpus
  <2>2. working'[o].at = corpus[c] /\ "at" \in DOMAIN working'[o]
    BY <1>3, <2>1
  <2>3. corpus[c] \in CorpusRows /\ corpus[c].revision \in Nat
    BY <1>t DEF KnowledgeTypes, CorpusRows
  <2>4. Founds(corpus[c].snapshot)
    BY <1>t DEF CorpusAgrees
  <2>5. Founds(working[o].at.snapshot)'
    BY <1>1, <2>2, <2>4 DEF Founds, AllDone
  <2>6. working'[o].at.revision <= corpus'[CorpusOf[o]].revision /\ working'[o].at \in CorpusRows
    BY <1>1, <2>1, <2>2, <2>3
  <2> QED BY <1>1, <1>4, <2>1, <2>2, <2>5, <2>6 DEF ImageAgrees
<1>8. mutation' \in [Mutations -> [state : MutationStates, revision : Nat]] /\ \A p \in Mutations : mutation'[p] = mutation[p]
  BY <1>t, <1>1 DEF KnowledgeTypes
<1> QED BY <1>1, <1>2, <1>5, <1>6, <1>7, <1>8, OneRecord

\* An operation is claimed once: whoever finds it running gives it up.
LEMMA ClaimAgrees == ASSUME KnowledgeInv, NEW o \in Mutations, Claim(o) PROVE KnowledgeInv'
<1>t. KnowledgeTypes /\ MutationAgrees(o) /\ PhaseAgrees(o) /\ StepAgrees(o) /\ ImageAgrees(o)
  BY DEF KnowledgeInv
<1>1. working[o].phase = "requested" /\ UNCHANGED <<corpus, sent, done, current, indexer, promoted>>
  BY DEF Claim
<1>2. mutation[o].state \in {"absent", "queued", "running"} /\ "phase" \in DOMAIN working[o] /\ DOMAIN working = Mutations
  BY <1>t, <1>1 DEF PhaseAgrees, KnowledgeTypes
<1>3. Grows
  BY <1>1 DEF Grows
<1>4. AllDone(o)' <=> AllDone(o)
  BY <1>1 DEF AllDone
<1>5. CASE mutation[o].state = "absent"
  <2>1. mutation' = MRow("queued", o) /\ working' = working
    BY <1>1, <1>5 DEF Claim
  <2>2. /\ mutation' \in [Mutations -> [state : MutationStates, revision : Nat]]
        /\ mutation'[o].state = "queued" /\ \A p \in Mutations \ {o} : mutation'[p] = mutation[p]
    BY <1>t, <2>1, RowMoves DEF MutationStates
  <2>3. MutationAgrees(o)' /\ PhaseAgrees(o)' /\ StepAgrees(o)'
    BY <1>t, <1>1, <1>4, <1>5, <2>1, <2>2 DEF MutationAgrees, PhaseAgrees, StepAgrees
  <2>4. ImageAgrees(o)'
    BY <1>1, <1>3, <2>1, ImageStays
  <2> QED BY <1>1, <1>2, <2>1, <2>2, <2>3, <2>4, OneRecord
<1>6. CASE mutation[o].state = "queued"
  <2>1. mutation' = MRow("running", o) /\ working' = Goes(o, "claimed")
    BY <1>1, <1>6 DEF Claim
  <2>2. /\ mutation' \in [Mutations -> [state : MutationStates, revision : Nat]]
        /\ mutation'[o].state = "running" /\ \A p \in Mutations \ {o} : mutation'[p] = mutation[p]
    BY <1>t, <2>1, RowMoves DEF MutationStates
  <2>3. /\ DOMAIN working' = Mutations /\ \A p \in Mutations \ {o} : working'[p] = working[p]
        /\ working'[o].phase = "claimed" /\ "phase" \in DOMAIN working'[o]
        /\ "at" \in DOMAIN working[o] => "at" \in DOMAIN working'[o] /\ working'[o].at = working[o].at
    BY <1>2, <2>1, CommandGoes
  <2>4. MutationAgrees(o)' /\ PhaseAgrees(o)' /\ StepAgrees(o)'
    BY <1>t, <1>1, <1>6, <2>2, <2>3 DEF MutationAgrees, PhaseAgrees, StepAgrees, WorkPhases
  <2>5. ImageAgrees(o)'
    BY <1>1, <1>3, <2>3, ImageStays
  <2> QED BY <1>1, <2>2, <2>3, <2>4, <2>5, OneRecord
<1>7. CASE mutation[o].state = "running"
  <2>1. mutation' = MRow("uncertain", o) /\ working' = Rests(o)
    BY <1>1, <1>7 DEF Claim
  <2>2. /\ mutation' \in [Mutations -> [state : MutationStates, revision : Nat]]
        /\ mutation'[o].state = "uncertain" /\ \A p \in Mutations \ {o} : mutation'[p] = mutation[p]
    BY <1>t, <2>1, RowMoves DEF MutationStates
  <2>3. MutationAgrees(o)'
    BY <1>t, <1>1, <2>2 DEF MutationAgrees
  <2> QED BY <1>1, <1>2, <2>1, <2>2, <2>3, CommandRests, OneRecord
<1> QED BY <1>2, <1>5, <1>6, <1>7

\* An answer is only heard of a step that took effect.
LEMMA AnswerAgrees == ASSUME KnowledgeInv, NEW o \in Mutations, Answer(o) PROVE KnowledgeInv'
<1>t. KnowledgeTypes /\ MutationAgrees(o) /\ PhaseAgrees(o) /\ StepAgrees(o) /\ ImageAgrees(o)
  BY DEF KnowledgeInv
<1>1. /\ working[o].phase = "sent" /\ StepsOf(o)[working[o].next] \in done[o]
      /\ UNCHANGED <<mutation, corpus, sent, done, current, indexer, promoted>>
  BY DEF Answer
<1>2. "phase" \in DOMAIN working[o] /\ DOMAIN working = Mutations /\ mutation[o].state = "running"
  BY <1>t, <1>1 DEF PhaseAgrees, KnowledgeTypes
<1>3. Grows /\ (AllDone(o)' <=> AllDone(o))
  BY <1>1 DEF Grows, AllDone
<1>4. PICK n \in 1..Len(StepsOf(o)) :
        /\ n = working[o].next /\ "next" \in DOMAIN working[o] /\ StepsOf(o)[n] \in done[o]
        /\ \A j \in DOMAIN StepsOf(o) : j < n => StepsOf(o)[j] \in done[o]
        /\ \A j \in DOMAIN StepsOf(o) : j > n => sent[o][StepsOf(o)[j]] = 0
  BY <1>t, <1>1 DEF StepAgrees
<1>5. PICK l \in 1..2 : l = Len(StepsOf(o)) /\ DOMAIN StepsOf(o) = 1..l
  BY StepFacts
<1>6. mutation' \in [Mutations -> [state : MutationStates, revision : Nat]] /\ \A p \in Mutations : mutation'[p] = mutation[p]
  BY <1>t, <1>1 DEF KnowledgeTypes
<1>7. MutationAgrees(o)'
  BY <1>t, <1>1, <1>3 DEF MutationAgrees
<1>8. CASE n < l
  <2>1. working' = [working EXCEPT ![o].phase = "calling", ![o].next = @ + 1]
    BY <1>4, <1>5, <1>8 DEF Answer
  <2>2. working' = [working EXCEPT ![o] = [[working[o] EXCEPT !.phase = "calling"] EXCEPT !.next = working[o].next + 1]]
    BY <1>2, <1>4, <2>1
  <2>3. working'[o] = [[working[o] EXCEPT !.phase = "calling"] EXCEPT !.next = n + 1]
    BY <1>2, <1>4, <2>2
  <2>4. /\ DOMAIN working' = Mutations /\ \A p \in Mutations \ {o} : working'[p] = working[p]
        /\ working'[o].phase = "calling" /\ "phase" \in DOMAIN working'[o]
        /\ working'[o].next = n + 1 /\ "next" \in DOMAIN working'[o]
    BY <1>2, <1>4, <2>2, <2>3
  <2>5. "at" \in DOMAIN working[o] => "at" \in DOMAIN working'[o] /\ working'[o].at = working[o].at
    BY <2>3
  <2>6. PhaseAgrees(o)'
    BY <1>1, <1>2, <2>4 DEF PhaseAgrees, WorkPhases
  <2>7. StepAgrees(o)'
    <3>1. n + 1 \in 1..l /\ n + 1 > n
      BY <1>5, <1>8
    <3>2. \A j \in DOMAIN StepsOf(o) : j < n + 1 => j < n \/ j = n
      BY <1>5
    <3>3. \A j \in DOMAIN StepsOf(o) : j > n + 1 => j > n
      BY <1>5
    <3>4. \A j \in DOMAIN StepsOf(o) : j < n + 1 => StepsOf(o)[j] \in done[o]
      BY <1>4, <3>2
    <3>5. \A j \in DOMAIN StepsOf(o) : j > n + 1 => sent[o][StepsOf(o)[j]] = 0
      BY <1>4, <3>3
    <3>6. sent[o][StepsOf(o)[n + 1]] = 0
      BY <1>4, <1>5, <3>1
    <3> QED BY <1>1, <1>5, <2>4, <3>1, <3>4, <3>5, <3>6 DEF StepAgrees
  <2>8. ImageAgrees(o)'
    BY <1>1, <1>3, <2>4, <2>5, ImageStays
  <2> QED BY <1>1, <1>6, <1>7, <2>4, <2>6, <2>7, <2>8, OneRecord
<1>9. CASE ~(n < l)
  <2>1. PICK phase \in {"built", "ready", "answered"} :
          /\ working' = Goes(o, phase) /\ (phase = "built" => MutationKind[o] = "graph")
          /\ (phase = "answered" => MutationKind[o] \in {"ingest", "refresh"})
    <3>1. working' = CASE MutationKind[o] = "graph" -> Goes(o, "built")
                       [] MutationKind[o] = "capture" -> Goes(o, "ready")
                       [] OTHER -> Goes(o, "answered")
      BY <1>4, <1>5, <1>9 DEF Answer
    <3>2. MutationKind[o] \in {"ingest", "refresh", "graph", "capture"}
      BY KnowledgeAssumption
    <3> QED BY <3>1, <3>2
  <2>2. /\ DOMAIN working' = Mutations /\ \A p \in Mutations \ {o} : working'[p] = working[p]
        /\ working'[o].phase = phase /\ "phase" \in DOMAIN working'[o]
        /\ "at" \in DOMAIN working[o] => "at" \in DOMAIN working'[o] /\ working'[o].at = working[o].at
    BY <1>2, <2>1, CommandGoes
  <2>3. AllDone(o)
    <3>1. \A j \in DOMAIN StepsOf(o) : j < n \/ j = n
      BY <1>4, <1>5, <1>9
    <3> QED BY <1>4, <3>1 DEF AllDone, Steps
  <2>4. PhaseAgrees(o)' /\ StepAgrees(o)'
    BY <1>1, <1>2, <1>3, <2>1, <2>2, <2>3 DEF PhaseAgrees, StepAgrees, WorkPhases
  <2>5. ImageAgrees(o)'
    BY <1>1, <1>3, <2>2, ImageStays
  <2> QED BY <1>1, <1>6, <1>7, <2>2, <2>4, <2>5, OneRecord
<1> QED BY <1>8, <1>9

\* A command that ends under a new state of its record, which what took effect bears out.
LEMMA EndsAgree ==
  ASSUME KnowledgeInv, NEW o \in Mutations, NEW state \in MutationStates \ {"absent", "queued"},
         mutation' = MRow(state, o) \/ (mutation' = mutation /\ state = mutation[o].state), working' = Rests(o),
         state = "succeeded" => AllDone(o), state = "cancelled" => ~AllDone(o),
         UNCHANGED <<corpus, sent, done, current, indexer, promoted>>
  PROVE  KnowledgeInv'
<1>t. KnowledgeTypes /\ MutationAgrees(o) /\ DOMAIN working = Mutations
  BY DEF KnowledgeInv, KnowledgeTypes
<1>1. AllDone(o)' <=> AllDone(o)
  BY DEF AllDone
<1>2. /\ mutation' \in [Mutations -> [state : MutationStates, revision : Nat]]
      /\ mutation'[o].state = state /\ \A p \in Mutations \ {o} : mutation'[p] = mutation[p]
  <2>1. CASE mutation' = MRow(state, o)
    BY <1>t, <2>1, RowMoves
  <2>2. CASE mutation' = mutation /\ state = mutation[o].state
    BY <1>t, <2>2 DEF KnowledgeTypes
  <2> QED BY <2>1, <2>2
<1>3. MutationAgrees(o)'
  BY <1>t, <1>1, <1>2 DEF MutationAgrees
<1>4. /\ DOMAIN working' = Mutations /\ \A p \in Mutations \ {o} : working'[p] = working[p]
      /\ PhaseAgrees(o)' /\ StepAgrees(o)' /\ ImageAgrees(o)'
  BY <1>t, CommandRests
<1> QED BY <1>2, <1>3, <1>4, OneRecord

\* Success is recorded of what took effect.
LEMMA SucceedAgrees == ASSUME KnowledgeInv, NEW o \in Mutations, Succeed(o) PROVE KnowledgeInv'
<1>1. working[o].phase = "ready" /\ mutation' = MRow("succeeded", o) /\ working' = Rests(o)
      /\ UNCHANGED <<corpus, sent, done, current, indexer, promoted>>
  BY DEF Succeed
<1>2. AllDone(o)
  BY <1>1 DEF KnowledgeInv, StepAgrees
<1>3. "succeeded" \in MutationStates \ {"absent", "queued"}
  BY DEF MutationStates
<1> QED BY <1>1, <1>2, <1>3, EndsAgree

\* A failure makes a running operation uncertain.
LEMMA FailAgrees == ASSUME KnowledgeInv, NEW o \in Mutations, Fail(o) PROVE KnowledgeInv'
<1>1. /\ working[o].phase \in {"calling", "sent", "answered", "built", "referenced", "published", "ready"}
      /\ mutation' = (IF mutation[o].state = "running" THEN MRow("uncertain", o) ELSE mutation)
      /\ working' = Rests(o) /\ UNCHANGED <<corpus, sent, done, current, indexer, promoted>>
  BY DEF Fail
<1>2. mutation[o].state \in {"running", "uncertain"}
  BY <1>1 DEF KnowledgeInv, PhaseAgrees
<1>3. "uncertain" \in MutationStates \ {"absent", "queued"}
  BY DEF MutationStates
<1>4. mutation' = MRow("uncertain", o) \/ (mutation' = mutation /\ mutation[o].state = "uncertain")
  BY <1>1, <1>2
<1> QED BY <1>1, <1>3, <1>4, EndsAgree

\* A cancellation is settled where the provider can tell.
LEMMA SettleCancelAgrees == ASSUME KnowledgeInv, NEW o \in Mutations, SettleCancel(o) PROVE KnowledgeInv'
<1>1. /\ working[o].phase = "cancelling" /\ working' = Rests(o)
      /\ UNCHANGED <<corpus, sent, done, current, indexer, promoted>>
      /\ \/ MutationKind[o] = "graph" /\ "build" \notin done[o] /\ mutation' = MRow("cancelled", o)
         \/ mutation' = MRow("uncertain", o)
         \/ mutation' = mutation
  BY DEF SettleCancel
<1>2. mutation[o].state = "cancel_requested"
  BY <1>1 DEF KnowledgeInv, PhaseAgrees
<1>3. {"cancelled", "uncertain", "cancel_requested"} \subseteq MutationStates \ {"absent", "queued"}
  BY DEF MutationStates
<1>4. CASE MutationKind[o] = "graph" /\ "build" \notin done[o] /\ mutation' = MRow("cancelled", o)
  <2>1. ~AllDone(o)
    BY <1>4, StepFacts DEF AllDone
  <2> QED BY <1>1, <1>3, <1>4, <2>1, EndsAgree
<1>5. CASE mutation' = MRow("uncertain", o)
  BY <1>1, <1>3, <1>5, EndsAgree
<1>6. CASE mutation' = mutation
  BY <1>1, <1>2, <1>3, <1>6, EndsAgree
<1> QED BY <1>1, <1>4, <1>5, <1>6

\* An operation that was not begun is cancelled at once; one that runs is asked about.
LEMMA CancelAgrees == ASSUME KnowledgeInv, NEW o \in Mutations, Cancel(o) PROVE KnowledgeInv'
<1>t. KnowledgeTypes /\ MutationAgrees(o) /\ PhaseAgrees(o) /\ StepAgrees(o) /\ ImageAgrees(o)
      /\ DOMAIN working = Mutations
  BY DEF KnowledgeInv, KnowledgeTypes
<1>1. working[o] = Resting /\ UNCHANGED <<corpus, sent, done, current, indexer, promoted>>
  BY DEF Cancel
<1>2. AllDone(o)' <=> AllDone(o)
  BY <1>1 DEF AllDone
<1>3. CASE mutation[o].state = "queued" /\ mutation' = MRow("cancelled", o) /\ working' = working
  <2>1. ~AllDone(o)
    <3>1. done[o] = {}
      BY <1>t, <1>3 DEF MutationAgrees
    <3>2. Steps(o) # {}
      BY StepFacts, KnowledgeAssumption
    <3> QED BY <3>1, <3>2 DEF AllDone
  <2>2. "cancelled" \in MutationStates
    BY DEF MutationStates
  <2>3. /\ mutation' \in [Mutations -> [state : MutationStates, revision : Nat]]
        /\ mutation'[o].state = "cancelled" /\ \A p \in Mutations \ {o} : mutation'[p] = mutation[p]
    BY <1>t, <1>3, <2>2, RowMoves
  <2>4. working'[o].phase = "none" /\ "phase" \in DOMAIN working'[o]
    BY <1>1, <1>3 DEF Resting
  <2>5. MutationAgrees(o)' /\ PhaseAgrees(o)' /\ StepAgrees(o)' /\ ImageAgrees(o)'
    BY <1>t, <1>1, <1>2, <1>3, <2>1, <2>3, <2>4 DEF MutationAgrees, PhaseAgrees, StepAgrees, ImageAgrees, WorkPhases
  <2> QED BY <1>t, <1>1, <1>3, <2>3, <2>5, OneRecord
<1>4. CASE /\ mutation[o].state = "running" /\ mutation' = MRow("cancel_requested", o)
           /\ working' = [working EXCEPT ![o] = [phase |-> "cancelling"]]
  <2>1. /\ mutation' \in [Mutations -> [state : MutationStates, revision : Nat]]
        /\ mutation'[o].state = "cancel_requested" /\ \A p \in Mutations \ {o} : mutation'[p] = mutation[p]
    BY <1>t, <1>4, RowMoves DEF MutationStates
  <2>2. DOMAIN working' = Mutations /\ \A p \in Mutations \ {o} : working'[p] = working[p]
    BY <1>t, <1>4
  <2>3. working'[o].phase = "cancelling" /\ "phase" \in DOMAIN working'[o]
    BY <1>t, <1>4
  <2>4. MutationAgrees(o)' /\ PhaseAgrees(o)' /\ StepAgrees(o)' /\ ImageAgrees(o)'
    BY <1>t, <1>1, <1>2, <2>1, <2>3 DEF MutationAgrees, PhaseAgrees, StepAgrees, ImageAgrees, WorkPhases
  <2> QED BY <1>1, <2>1, <2>2, <2>4, OneRecord
<1> QED BY <1>3, <1>4 DEF Cancel

\* Reconciliation finds a memory by its marker and a graph by its job.
LEMMA ReconcileAgrees == ASSUME KnowledgeInv, NEW o \in Mutations, Reconcile(o) PROVE KnowledgeInv'
<1>t. KnowledgeTypes /\ MutationAgrees(o) /\ DOMAIN working = Mutations /\ \A c \in Corpora : CorpusAgrees(c)
  BY DEF KnowledgeInv, KnowledgeTypes
<1>1. /\ working[o] = Resting /\ mutation[o].state = "uncertain"
      /\ UNCHANGED <<corpus, sent, done, current, indexer, promoted>>
  BY DEF Reconcile
<1>2. AllDone(o)' <=> AllDone(o)
  BY <1>1 DEF AllDone
<1>3. CASE MutationKind[o] = "capture" /\ "write" \in done[o] /\ mutation' = MRow("succeeded", o) /\ working' = working
  <2>1. AllDone(o)
    BY <1>3, StepFacts DEF AllDone
  <2>2. "succeeded" \in MutationStates
    BY DEF MutationStates
  <2>3. /\ mutation' \in [Mutations -> [state : MutationStates, revision : Nat]]
        /\ mutation'[o].state = "succeeded" /\ \A p \in Mutations \ {o} : mutation'[p] = mutation[p]
    BY <1>t, <1>3, <2>2, RowMoves
  <2>4. working'[o].phase = "none" /\ "phase" \in DOMAIN working'[o]
    BY <1>1, <1>3 DEF Resting
  <2>5. MutationAgrees(o)' /\ PhaseAgrees(o)' /\ StepAgrees(o)' /\ ImageAgrees(o)'
    BY <1>t, <1>1, <1>2, <1>3, <2>1, <2>3, <2>4 DEF MutationAgrees, PhaseAgrees, StepAgrees, ImageAgrees, WorkPhases
  <2> QED BY <1>t, <1>1, <1>3, <2>3, <2>5, OneRecord
<1>4. CASE /\ MutationKind[o] = "graph" /\ "build" \in done[o] /\ mutation' = mutation
           /\ working' = [working EXCEPT ![o] = [phase |-> "built", at |-> corpus[CorpusOf[o]]]]
  <2>1. AllDone(o)
    BY <1>4, StepFacts DEF AllDone
  <2>2. PICK c \in Corpora : c = CorpusOf[o]
    BY <1>4, KnowledgeAssumption
  <2>3. DOMAIN working' = Mutations /\ (\A p \in Mutations \ {o} : working'[p] = working[p])
        /\ working'[o] = [phase |-> "built", at |-> corpus[c]]
    BY <1>t, <1>4, <2>2
  <2>4. working'[o].phase = "built" /\ "phase" \in DOMAIN working'[o] /\ "at" \in DOMAIN working'[o]
        /\ working'[o].at = corpus[c]
    BY <2>3
  <2>5. MutationAgrees(o)' /\ PhaseAgrees(o)' /\ StepAgrees(o)'
    BY <1>t, <1>1, <1>2, <1>4, <2>1, <2>4 DEF MutationAgrees, PhaseAgrees, StepAgrees, WorkPhases
  <2>6. corpus[c] \in CorpusRows /\ corpus[c].revision \in Nat
    BY <1>t DEF KnowledgeTypes, CorpusRows
  <2>7. Founds(corpus[c].snapshot)
    BY <1>t DEF CorpusAgrees
  <2>8. Founds(working[o].at.snapshot)'
    BY <1>1, <2>4, <2>7 DEF Founds, AllDone
  <2>9. ImageAgrees(o)'
    BY <1>1, <1>4, <2>2, <2>4, <2>6, <2>8 DEF ImageAgrees
  <2>10. mutation' \in [Mutations -> [state : MutationStates, revision : Nat]] /\ \A p \in Mutations : mutation'[p] = mutation[p]
    BY <1>t, <1>4 DEF KnowledgeTypes
  <2> QED BY <1>1, <2>3, <2>5, <2>9, <2>10, OneRecord
<1> QED BY <1>3, <1>4 DEF Reconcile

\* The daemon dies: every command is gone, the records and the providers stay.
LEMMA DeathAgrees == ASSUME KnowledgeInv, DaemonDies PROVE KnowledgeInv'
<1>t. KnowledgeTypes /\ PromotionAgrees /\ (\A c \in Corpora : CorpusAgrees(c)) /\ \A o \in Mutations : MutationAgrees(o)
  BY DEF KnowledgeInv
<1>1. UNCHANGED <<mutation, corpus, sent, done, current, indexer, promoted>> /\ working' = [o \in Mutations |-> Resting]
  BY DEF DaemonDies
<1>2. KnowledgeTypes' /\ PromotionAgrees'
  BY <1>t, <1>1 DEF KnowledgeTypes, PromotionAgrees
<1>3. Grows
  BY <1>1 DEF Grows
<1>4. \A c \in Corpora : CorpusAgrees(c)'
  BY <1>1, <1>3, CorpusStays
<1>5. ASSUME NEW o \in Mutations PROVE MutationAgrees(o)' /\ PhaseAgrees(o)' /\ StepAgrees(o)' /\ ImageAgrees(o)'
  <2>1. MutationAgrees(o)'
    BY <1>t, <1>1 DEF MutationAgrees, AllDone
  <2>2. working'[o] = Resting /\ working'[o].phase = "none" /\ "phase" \in DOMAIN working'[o]
    BY <1>1 DEF Resting
  <2> QED BY <2>1, <2>2 DEF PhaseAgrees, StepAgrees, ImageAgrees, WorkPhases
<1> QED BY <1>2, <1>4, <1>5 DEF KnowledgeInv

\* A promotion is decided by somebody else than its proposer.
LEMMA PromotionKeeps == ASSUME KnowledgeInv, PromoteNext PROVE KnowledgeInv'
<1>t. KnowledgeTypes /\ PromotionAgrees /\ (\A c \in Corpora : CorpusAgrees(c))
      /\ \A o \in Mutations : MutationAgrees(o) /\ PhaseAgrees(o) /\ StepAgrees(o) /\ ImageAgrees(o)
  BY DEF KnowledgeInv
<1>1. UNCHANGED <<mutation, corpus, working, sent, done, current, indexer>>
  BY DEF PromoteNext, Propose, Decide
<1>2. PromotionAgrees'
  <2>1. CASE \E a \in Advisors : Propose(a)
    BY <2>1 DEF Propose, PromotionAgrees
  <2>2. CASE \E a \in Advisors \cup Approvers : \E d \in {"approved", "rejected", "revoked"} : Decide(a, d)
    <3>1. PICK a \in Approvers, d \in {"approved", "rejected", "revoked"} :
            a # promoted.proposer /\ promoted' = [promoted EXCEPT !.state = d, !.decider = a]
      BY <2>2 DEF Decide
    <3>2. promoted' \in [state : {"absent", "proposed", "approved", "rejected", "revoked"},
                         proposer : Advisors \cup {Nothing}, decider : Approvers \cup {Nothing}]
      BY <1>t, <3>1 DEF PromotionAgrees
    <3>3. promoted'.decider = a /\ promoted'.proposer = promoted.proposer
      BY <1>t, <3>1 DEF PromotionAgrees
    <3> QED BY <3>1, <3>2, <3>3 DEF PromotionAgrees
  <2> QED BY <2>1, <2>2 DEF PromoteNext
<1>3. KnowledgeTypes'
  BY <1>t, <1>1 DEF KnowledgeTypes
<1>4. Grows
  BY <1>1 DEF Grows
<1>5. \A c \in Corpora : CorpusAgrees(c)'
  BY <1>1, <1>4, CorpusStays
<1>6. CorporaAdvance
  <2>1. \A c \in Corpora : corpus[c].revision \in Nat
    BY <1>t DEF KnowledgeTypes, CorpusRows
  <2> QED BY <1>1, <2>1 DEF CorporaAdvance
<1>7. \A o \in Mutations : MutationAgrees(o)' /\ PhaseAgrees(o)' /\ StepAgrees(o)' /\ ImageAgrees(o)'
  BY <1>1, <1>3, <1>4, <1>6, OthersAgree
<1> QED BY <1>2, <1>3, <1>5, <1>7 DEF KnowledgeInv

\* A step is dispatched once: its tally was zero, and whatever came of it, the command waits.
LEMMA DispatchAgrees ==
  ASSUME KnowledgeInv, NEW o \in Mutations, NEW takesEffect \in BOOLEAN, Dispatch(o, takesEffect)
  PROVE  KnowledgeInv'
<1>t. KnowledgeTypes /\ MutationAgrees(o) /\ PhaseAgrees(o) /\ StepAgrees(o) /\ ImageAgrees(o)
      /\ \A c \in Corpora : CorpusAgrees(c)
  BY DEF KnowledgeInv
<1>1. working[o].phase = "calling"
  BY DEF Dispatch
<1>2. PICK n \in DOMAIN StepsOf(o) :
        /\ n = working[o].next /\ "next" \in DOMAIN working[o] /\ n \in 1..Len(StepsOf(o))
        /\ \A j \in DOMAIN StepsOf(o) : j < n => StepsOf(o)[j] \in done[o]
        /\ \A j \in DOMAIN StepsOf(o) : j > n => sent[o][StepsOf(o)[j]] = 0
        /\ sent[o][StepsOf(o)[n]] = 0
  BY <1>t, <1>1, StepFacts DEF StepAgrees
<1>3. PICK s \in Provides : s = StepsOf(o)[n]
  BY StepFacts
<1>4. /\ sent' = [sent EXCEPT ![o][s] = @ + 1]
      /\ done' = (IF takesEffect THEN [done EXCEPT ![o] = @ \cup {s}] ELSE done)
      /\ working' = Goes(o, "sent") /\ UNCHANGED <<mutation, corpus, current, indexer, promoted>>
  BY <1>2, <1>3 DEF Dispatch
<1>5. /\ sent' \in [Mutations -> [Provides -> Nat]] /\ (\A p \in Mutations \ {o} : sent'[p] = sent[p])
      /\ sent'[o][s] = 1 /\ \A u \in Provides \ {s} : sent'[o][u] = sent[o][u]
  <2>1. sent \in [Mutations -> [Provides -> Nat]]
    BY <1>t DEF KnowledgeTypes
  <2>2. sent[o][s] + 1 = 1 /\ sent[o][s] + 1 \in Nat
    BY <1>2, <1>3
  <2> QED BY <1>4, <2>1, <2>2
<1>6. /\ done' \in [Mutations -> SUBSET Provides] /\ (\A p \in Mutations \ {o} : done'[p] = done[p])
      /\ \A p \in Mutations : done[p] \subseteq done'[p]
  BY <1>t, <1>4 DEF KnowledgeTypes
<1>7. DOMAIN working = Mutations /\ "phase" \in DOMAIN working[o] /\ mutation[o].state = "running"
  BY <1>t, <1>1 DEF KnowledgeTypes, PhaseAgrees
<1>8. /\ DOMAIN working' = Mutations /\ \A p \in Mutations \ {o} : working'[p] = working[p]
      /\ working'[o].phase = "sent" /\ "phase" \in DOMAIN working'[o]
      /\ "at" \in DOMAIN working[o] => "at" \in DOMAIN working'[o] /\ working'[o].at = working[o].at
      /\ "next" \in DOMAIN working'[o] /\ working'[o].next = n
  BY <1>2, <1>4, <1>7, CommandGoes
<1>9. Grows
  BY <1>6 DEF Grows
<1>10. KnowledgeTypes'
  BY <1>t, <1>4, <1>5, <1>6, <1>8 DEF KnowledgeTypes
<1>11. CorporaAdvance
  <2>1. \A c \in Corpora : corpus[c].revision \in Nat
    BY <1>t DEF KnowledgeTypes, CorpusRows
  <2> QED BY <1>4, <2>1 DEF CorporaAdvance
<1>12. \A c \in Corpora : CorpusAgrees(c)'
  BY <1>4, <1>9, CorpusStays
<1>13. MutationAgrees(o)'
  <2>1. \A u \in Provides : sent'[o][u] <= 1
    BY <1>t, <1>5 DEF MutationAgrees
  <2> QED BY <1>4, <1>7, <2>1 DEF MutationAgrees
<1>14. PhaseAgrees(o)'
  BY <1>4, <1>7, <1>8 DEF PhaseAgrees, WorkPhases
<1>15. StepAgrees(o)'
  <2>1. \A j \in DOMAIN StepsOf(o) : j < n => StepsOf(o)[j] \in done'[o]
    BY <1>2, <1>6
  <2>2. ASSUME NEW j \in DOMAIN StepsOf(o), j > n PROVE sent'[o][StepsOf(o)[j]] = 0
    <3>1. j # n
      BY <1>2, <2>2
    <3>2. StepsOf(o)[j] \in Provides \ {s}
      BY <1>3, <3>1, StepFacts
    <3> QED BY <1>2, <1>5, <2>2, <3>2
  <2> QED BY <1>2, <1>8, <2>1, <2>2 DEF StepAgrees
<1>16. ImageAgrees(o)'
  BY <1>1, <1>4, <1>8, <1>9, ImageStays
<1>17. \A p \in Mutations \ {o} : /\ mutation'[p] = mutation[p] /\ working'[p] = working[p]
                                  /\ sent'[p] = sent[p] /\ done'[p] = done[p]
  BY <1>4, <1>5, <1>6, <1>8
<1> QED BY <1>4, <1>9, <1>10, <1>11, <1>12, <1>13, <1>14, <1>15, <1>16, <1>17, OneOperation

\* Indexing begins on the row that was read, or the command is refused.
LEMMA MarkIndexingAgrees == ASSUME KnowledgeInv, NEW o \in Mutations, MarkIndexing(o) PROVE KnowledgeInv'
<1>t. KnowledgeTypes /\ MutationAgrees(o) /\ PhaseAgrees(o) /\ StepAgrees(o) /\ ImageAgrees(o)
      /\ (\A c \in Corpora : CorpusAgrees(c)) /\ DOMAIN working = Mutations
  BY DEF KnowledgeInv, KnowledgeTypes
<1>1. working[o].phase = "claimed" /\ UNCHANGED <<mutation, sent, done, current, promoted>>
  BY DEF MarkIndexing
<1>2. mutation[o].state = "running" /\ \A s \in Provides : sent[o][s] = 0
  BY <1>t, <1>1 DEF PhaseAgrees, StepAgrees
<1>3. Grows /\ (AllDone(o)' <=> AllDone(o))
  BY <1>1 DEF Grows, AllDone
<1>4. MutationAgrees(o)'
  BY <1>t, <1>1, <1>3 DEF MutationAgrees
<1>5. mutation' \in [Mutations -> [state : MutationStates, revision : Nat]]
  BY <1>t, <1>1 DEF KnowledgeTypes
<1>6. 1 \in 1..Len(StepsOf(o)) /\ StepsOf(o)[1] \in Provides /\ 1 \in DOMAIN StepsOf(o)
      /\ \A j \in DOMAIN StepsOf(o) : ~(j < 1) /\ StepsOf(o)[j] \in Provides
  BY StepFacts
<1>7. ASSUME "next" \in DOMAIN working'[o], "phase" \in DOMAIN working'[o],
             working'[o].next = 1, working'[o].phase = "calling"
      PROVE  PhaseAgrees(o)' /\ StepAgrees(o)'
  <2>1. PhaseAgrees(o)'
    BY <1>1, <1>2, <1>7 DEF PhaseAgrees, WorkPhases
  <2>2. StepAgrees(o)'
    BY <1>1, <1>2, <1>6, <1>7 DEF StepAgrees
  <2> QED BY <2>1, <2>2
<1>8. CASE ~HasCorpus(o)
  <2>1. working' = [working EXCEPT ![o] = [phase |-> "calling", next |-> 1]] /\ UNCHANGED <<corpus, indexer>>
    BY <1>8 DEF MarkIndexing
  <2>2. DOMAIN working' = Mutations /\ (\A p \in Mutations \ {o} : working'[p] = working[p])
        /\ working'[o] = [phase |-> "calling", next |-> 1]
    BY <1>t, <2>1
  <2>3. "next" \in DOMAIN working'[o] /\ "phase" \in DOMAIN working'[o] /\ working'[o].next = 1 /\ working'[o].phase = "calling"
    BY <2>2
  <2>4. ImageAgrees(o)'
    BY <1>8 DEF ImageAgrees
  <2>5. PhaseAgrees(o)' /\ StepAgrees(o)'
    BY <1>7, <2>3
  <2> QED BY <1>1, <1>4, <1>5, <2>1, <2>2, <2>4, <2>5, OneRecord
<1>9. CASE HasCorpus(o)
  <2>1. PICK c \in Corpora : c = CorpusOf[o]
    BY <1>9, KnowledgeAssumption DEF HasCorpus
  <2>2. PICK at \in CorpusRows : /\ at = working[o].at /\ Founds(at.snapshot) /\ at.revision <= corpus[c].revision
                                 /\ MutationKind[o] = "refresh" => at.snapshot # Nothing
    BY <1>t, <1>1, <1>9, <2>1 DEF ImageAgrees
  <2>3. at.revision \in Nat /\ corpus[c].revision \in Nat /\ corpus \in [Corpora -> CorpusRows]
    BY <1>t DEF KnowledgeTypes, CorpusRows
  <2>4. CASE corpus[c].revision # at.revision
    <3>1. working' = Rests(o) /\ UNCHANGED <<corpus, indexer>>
      BY <1>9, <2>1, <2>2, <2>4 DEF MarkIndexing
    <3>2. /\ DOMAIN working' = Mutations /\ \A p \in Mutations \ {o} : working'[p] = working[p]
          /\ PhaseAgrees(o)' /\ StepAgrees(o)' /\ ImageAgrees(o)'
      BY <1>t, <3>1, CommandRests
    <3> QED BY <1>1, <1>4, <1>5, <3>1, <3>2, OneRecord
  <2>5. CASE corpus[c].revision = at.revision
    <3>1. PICK row \in CorpusRows : /\ row = [at EXCEPT !.state = "indexing", !.revision = @ + 1]
                                    /\ row.state = "indexing" /\ row.snapshot = at.snapshot
                                    /\ row.revision = at.revision + 1
      <4>1. at \in [state : CorpusStates, snapshot : Contents, revision : Nat]
        BY DEF CorpusRows
      <4>2. PICK r \in Nat : r = at.revision + 1
        BY <2>3
      <4>3. PICK half : half = [at EXCEPT !.state = "indexing"]
        OBVIOUS
      <4>4. /\ half \in [state : CorpusStates, snapshot : Contents, revision : Nat]
            /\ half.state = "indexing" /\ half.snapshot = at.snapshot /\ half.revision = at.revision
        BY <4>1, <4>3 DEF CorpusStates
      <4>5. PICK row : row = [half EXCEPT !.revision = r]
        OBVIOUS
      <4>6. /\ row \in [state : CorpusStates, snapshot : Contents, revision : Nat]
            /\ row.state = "indexing" /\ row.snapshot = at.snapshot /\ row.revision = r
        BY <4>4, <4>5
      <4>7. row = [at EXCEPT !.state = "indexing", !.revision = @ + 1]
        BY <4>2, <4>3, <4>4, <4>5
      <4> QED BY <4>2, <4>6, <4>7 DEF CorpusRows
    <3>2. /\ corpus' = [corpus EXCEPT ![c] = row] /\ indexer' = [indexer EXCEPT ![c] = o]
          /\ working' = [working EXCEPT ![o] = [phase |-> "calling", at |-> row, next |-> 1]]
      BY <1>9, <2>1, <2>2, <2>5, <3>1 DEF MarkIndexing
    <3>3. /\ DOMAIN working' = Mutations /\ \A p \in Mutations \ {o} : working'[p] = working[p]
          /\ working'[o] = [phase |-> "calling", at |-> row, next |-> 1]
      BY <1>t, <3>2
    <3>4. /\ "next" \in DOMAIN working'[o] /\ "phase" \in DOMAIN working'[o] /\ "at" \in DOMAIN working'[o]
          /\ working'[o].next = 1 /\ working'[o].phase = "calling" /\ working'[o].at = row
      BY <3>3
    <3>5. /\ corpus' \in [Corpora -> CorpusRows] /\ corpus'[c] = row /\ indexer'[c] = o
          /\ indexer' \in [Corpora -> Mutations \cup {Nothing}]
          /\ \A d \in Corpora \ {c} : corpus'[d] = corpus[d] /\ indexer'[d] = indexer[d]
      BY <1>t, <2>3, <3>2 DEF KnowledgeTypes
    <3>6. KnowledgeTypes'
      BY <1>t, <1>1, <3>3, <3>5 DEF KnowledgeTypes
    <3>7. CorporaAdvance
      <4>1. ASSUME NEW d \in Corpora
            PROVE  /\ corpus[d].revision <= corpus'[d].revision
                   /\ corpus[d].revision = corpus'[d].revision => indexer'[d] = indexer[d]
        <5>1. CASE d = c
          BY <5>1, <2>3, <2>5, <3>1, <3>5
        <5>2. CASE d # c
          <6>1. corpus[d].revision \in Nat
            BY <1>t DEF KnowledgeTypes, CorpusRows
          <6> QED BY <5>2, <6>1, <3>5
        <5> QED BY <5>1, <5>2
      <4> QED BY <4>1 DEF CorporaAdvance
    <3>8. PICK x : x = row.snapshot /\ Founds(x)
      BY <2>2, <3>1
    <3>9. Founds(x)'
      BY <3>8, <1>3 DEF Founds, AllDone, Grows
    <3>10. ASSUME NEW d \in Corpora PROVE CorpusAgrees(d)'
      <4>1. CASE d = c
        <5>1. Founds(corpus[c].snapshot)'
          BY <3>5, <3>8, <3>9 DEF Founds
        <5>2. PICK y, z : y = current[c].reference /\ z = current[c].file /\ Founds(y) /\ Founds(z)
          BY <1>t DEF CorpusAgrees
        <5>3. Founds(y)' /\ Founds(z)' /\ y = current'[c].reference /\ z = current'[c].file
          BY <1>1, <5>2 DEF Founds, AllDone
        <5>4. Founds(current[c].reference)' /\ Founds(current[c].file)'
          BY <5>3 DEF Founds
        <5> QED BY <1>9, <2>1, <3>1, <3>5, <4>1, <5>1, <5>4 DEF CorpusAgrees
      <4>2. CASE d # c
        BY <1>1, <1>3, <3>5, <4>2, CorpusStays
      <4> QED BY <4>1, <4>2
    <3>11. ImageAgrees(o)'
      <4>1. Founds(working[o].at.snapshot)'
        BY <3>4, <3>8, <3>9 DEF Founds
      <4>2. row.revision \in Nat /\ row.revision <= row.revision
        BY <3>1, <2>3
      <4> QED BY <2>1, <2>2, <3>1, <3>4, <3>5, <4>1, <4>2 DEF ImageAgrees
    <3>12. PhaseAgrees(o)' /\ StepAgrees(o)'
      BY <1>7, <3>4
    <3> QED BY <1>1, <1>3, <1>4, <3>3, <3>6, <3>7, <3>10, <3>11, <3>12, OneOperation
  <2> QED BY <2>4, <2>5
<1> QED BY <1>8, <1>9

\* A corpus that is put is ready under its next revision.
LEMMA CorpusPut ==
  ASSUME KnowledgeInv, NEW c \in Corpora, NEW x \in Contents, UNCHANGED <<done, current, indexer>>,
         corpus' = [corpus EXCEPT ![c] = [state |-> "ready", snapshot |-> x, revision |-> @.revision + 1]]
  PROVE  /\ corpus' \in [Corpora -> CorpusRows] /\ corpus'[c].state = "ready" /\ corpus'[c].snapshot = x
         /\ CorporaAdvance /\ Grows
         /\ \A d \in Corpora \ {c} : CorpusAgrees(d)'
<1>1. corpus \in [Corpora -> CorpusRows] /\ corpus[c].revision \in Nat
  BY DEF KnowledgeInv, KnowledgeTypes, CorpusRows
<1>2. PICK r \in Nat : r = corpus[c].revision + 1
  BY <1>1
<1>3. PICK row \in CorpusRows : row = [state |-> "ready", snapshot |-> x, revision |-> r]
  BY DEF CorpusRows, CorpusStates
<1>4. corpus' = [corpus EXCEPT ![c] = row]
  BY <1>2, <1>3
<1>5. corpus' \in [Corpora -> CorpusRows] /\ corpus'[c] = row /\ \A d \in Corpora \ {c} : corpus'[d] = corpus[d]
  BY <1>1, <1>4
<1>6. Grows
  BY DEF Grows
<1>7. CorporaAdvance
  <2>1. ASSUME NEW d \in Corpora
        PROVE  /\ corpus[d].revision <= corpus'[d].revision
               /\ corpus[d].revision = corpus'[d].revision => indexer'[d] = indexer[d]
    <3>1. CASE d = c
      BY <3>1, <1>1, <1>2, <1>3, <1>5
    <3>2. CASE d # c
      <4>1. corpus[d].revision \in Nat
        BY <1>1 DEF CorpusRows
      <4> QED BY <3>2, <4>1, <1>5
    <3> QED BY <3>1, <3>2
  <2> QED BY <2>1 DEF CorporaAdvance
<1>8. \A d \in Corpora \ {c} : CorpusAgrees(d)'
  BY <1>5, <1>6, CorpusStays
<1> QED BY <1>3, <1>5, <1>6, <1>7, <1>8

\* A semantic corpus is put by the operation that began to index it last.
LEMMA PublishAgrees == ASSUME KnowledgeInv, NEW o \in Mutations, Publish(o) PROVE KnowledgeInv'
<1>t. KnowledgeTypes /\ MutationAgrees(o) /\ PhaseAgrees(o) /\ StepAgrees(o) /\ ImageAgrees(o)
      /\ (\A d \in Corpora : CorpusAgrees(d)) /\ DOMAIN working = Mutations
  BY DEF KnowledgeInv, KnowledgeTypes
<1>1. /\ working[o].phase = "answered" /\ corpus[CorpusOf[o]].revision = working[o].at.revision
      /\ corpus' = [corpus EXCEPT ![CorpusOf[o]] =
                      [state |-> "ready", snapshot |-> Content(o), revision |-> @.revision + 1]]
      /\ working' = Goes(o, "ready") /\ UNCHANGED <<mutation, sent, done, current, indexer, promoted>>
  BY DEF Publish
<1>2. /\ MutationKind[o] \in {"ingest", "refresh"} /\ mutation[o].state = "running"
      /\ "phase" \in DOMAIN working[o] /\ AllDone(o) /\ HasCorpus(o)
  BY <1>t, <1>1 DEF PhaseAgrees, StepAgrees, HasCorpus
<1>3. PICK c \in Corpora : c = CorpusOf[o]
  BY <1>2, KnowledgeAssumption
<1>4. /\ indexer[c] = o /\ working[o].at \in CorpusRows /\ Founds(working[o].at.snapshot)
      /\ MutationKind[o] = "refresh" => working[o].at.snapshot # Nothing
  BY <1>t, <1>1, <1>2, <1>3 DEF ImageAgrees
<1>5. PICK x \in Contents : /\ x = Content(o) /\ Founds(x) /\ x # Nothing
                            /\ MutationKind[o] = "ingest" => x = o
  <2>1. working[o].at.snapshot \in Contents
    BY <1>4 DEF CorpusRows
  <2>2. CASE MutationKind[o] = "refresh"
    BY <1>4, <2>1, <2>2 DEF Content
  <2>3. CASE MutationKind[o] = "ingest"
    BY <1>2, <2>3, KnowledgeAssumption DEF Content, Contents, Founds
  <2> QED BY <1>2, <2>2, <2>3
<1>6. corpus' = [corpus EXCEPT ![c] = [state |-> "ready", snapshot |-> x, revision |-> @.revision + 1]]
  BY <1>1, <1>3, <1>5
<1>7. /\ corpus' \in [Corpora -> CorpusRows] /\ corpus'[c].state = "ready" /\ corpus'[c].snapshot = x
      /\ CorporaAdvance /\ Grows
      /\ \A d \in Corpora \ {c} : CorpusAgrees(d)'
  BY <1>1, <1>6, CorpusPut
<1>8. /\ DOMAIN working' = Mutations /\ \A p \in Mutations \ {o} : working'[p] = working[p]
      /\ working'[o].phase = "ready" /\ "phase" \in DOMAIN working'[o]
      /\ "at" \in DOMAIN working[o] => "at" \in DOMAIN working'[o] /\ working'[o].at = working[o].at
  BY <1>t, <1>1, <1>2, CommandGoes
<1>9. KnowledgeTypes'
  BY <1>t, <1>1, <1>7, <1>8 DEF KnowledgeTypes
<1>10. AllDone(o)' /\ MutationAgrees(o)' /\ PhaseAgrees(o)' /\ StepAgrees(o)'
  BY <1>t, <1>1, <1>2, <1>8 DEF AllDone, MutationAgrees, PhaseAgrees, StepAgrees, WorkPhases
<1>11. ASSUME NEW y, Founds(y) PROVE Founds(y)'
  BY <1>1, <1>11 DEF Founds, AllDone
<1>12. ImageAgrees(o)'
  <2>1. PICK y : y = working[o].at.snapshot /\ Founds(y)
    BY <1>4
  <2>2. "at" \in DOMAIN working'[o] /\ working'[o].at = working[o].at
    BY <1>t, <1>1, <1>2, <1>8 DEF ImageAgrees
  <2>3. Founds(working[o].at.snapshot)'
    BY <1>11, <2>1, <2>2 DEF Founds
  <2>4. working'[o].at.revision <= corpus'[c].revision
    <3>1. corpus[c].revision <= corpus'[c].revision
      BY <1>7 DEF CorporaAdvance
    <3> QED BY <1>1, <1>3, <2>2, <3>1
  <2> QED BY <1>3, <1>4, <1>8, <2>2, <2>3, <2>4 DEF ImageAgrees
<1>13. CorpusAgrees(c)'
  <2>1. Founds(corpus[c].snapshot)'
    BY <1>5, <1>7, <1>11 DEF Founds
  <2>2. PICK y, z : y = current[c].reference /\ z = current[c].file /\ Founds(y) /\ Founds(z)
    BY <1>t DEF CorpusAgrees
  <2>3. Founds(current[c].reference)' /\ Founds(current[c].file)'
    BY <1>1, <1>11, <2>2 DEF Founds
  <2>4. "cognify" \in done[o] /\ (MutationKind[o] = "ingest" => "add" \in done[o])
    BY <1>2, StepFacts DEF AllDone
  <2>5. indexer'[c] = o /\ done' = done
    BY <1>1, <1>4
  <2> QED BY <1>2, <1>3, <1>5, <1>7, <2>1, <2>3, <2>4, <2>5 DEF CorpusAgrees
<1>14. \A d \in Corpora : CorpusAgrees(d)'
  BY <1>7, <1>13
<1> QED BY <1>1, <1>7, <1>8, <1>9, <1>10, <1>12, <1>14, OneOperation

\* A graph is published where no semantic operation indexes, after its job completed.
LEMMA PublishGraphAgrees == ASSUME KnowledgeInv, NEW o \in Mutations, PublishGraph(o) PROVE KnowledgeInv'
<1>t. KnowledgeTypes /\ MutationAgrees(o) /\ PhaseAgrees(o) /\ StepAgrees(o) /\ ImageAgrees(o)
      /\ (\A d \in Corpora : CorpusAgrees(d)) /\ DOMAIN working = Mutations
  BY DEF KnowledgeInv, KnowledgeTypes
<1>1. working[o].phase \in {"built", "referenced", "published"} /\ UNCHANGED <<mutation, sent, done, indexer, promoted>>
  BY DEF PublishGraph
<1>2. /\ MutationKind[o] = "graph" /\ mutation[o].state \in {"running", "uncertain"}
      /\ "phase" \in DOMAIN working[o] /\ AllDone(o)
  BY <1>t, <1>1 DEF PhaseAgrees, StepAgrees
<1>3. PICK c \in Corpora : c = CorpusOf[o]
  BY <1>2, KnowledgeAssumption
<1>4. PICK phase \in {"referenced", "published", "ready"} : working' = Goes(o, phase)
  BY DEF PublishGraph
<1>5. /\ DOMAIN working' = Mutations /\ \A p \in Mutations \ {o} : working'[p] = working[p]
      /\ working'[o].phase = phase /\ "phase" \in DOMAIN working'[o]
      /\ "at" \in DOMAIN working[o] => "at" \in DOMAIN working'[o] /\ working'[o].at = working[o].at
  BY <1>t, <1>2, <1>4, CommandGoes
<1>6. MutationAgrees(o)' /\ PhaseAgrees(o)' /\ StepAgrees(o)'
  BY <1>t, <1>1, <1>2, <1>5 DEF AllDone, MutationAgrees, PhaseAgrees, StepAgrees, WorkPhases
<1>7. ASSUME NEW y, Founds(y) PROVE Founds(y)'
  BY <1>1, <1>7 DEF Founds, AllDone
<1>8. Founds(o) /\ o \in Contents
  BY <1>2 DEF Founds, Contents
<1>9. CASE /\ corpus' = corpus
           /\ \/ current' = [current EXCEPT ![c].reference = o]
              \/ current' = [current EXCEPT ![c].file = o]
              \/ current' = current
  <2>1. Grows
    BY <1>1 DEF Grows
  <2>2. CorporaAdvance
    <3>1. \A d \in Corpora : corpus[d].revision \in Nat
      BY <1>t DEF KnowledgeTypes, CorpusRows
    <3> QED BY <1>1, <1>9, <3>1 DEF CorporaAdvance
  <2>3. /\ current' \in [Corpora -> [reference : Contents, file : Contents]]
        /\ current'[c].reference \in {current[c].reference, o} /\ current'[c].file \in {current[c].file, o}
        /\ \A d \in Corpora \ {c} : current'[d] = current[d]
    <3>1. current \in [Corpora -> [reference : Contents, file : Contents]]
      BY <1>t DEF KnowledgeTypes
    <3> QED BY <1>8, <1>9, <3>1
  <2>4. KnowledgeTypes'
    BY <1>t, <1>1, <1>5, <1>9, <2>3 DEF KnowledgeTypes
  <2>5. CorpusAgrees(c)'
    <3>1. PICK x, y, z : /\ x = corpus[c].snapshot /\ y = current'[c].reference /\ z = current'[c].file
                         /\ Founds(x) /\ Founds(y) /\ Founds(z)
      BY <1>t, <1>8, <2>3 DEF CorpusAgrees
    <3>2. Founds(corpus[c].snapshot)' /\ Founds(current[c].reference)' /\ Founds(current[c].file)'
      BY <1>7, <1>9, <3>1 DEF Founds
    <3> QED BY <1>t, <1>1, <1>9, <3>2 DEF CorpusAgrees
  <2>6. \A d \in Corpora : CorpusAgrees(d)'
    BY <1>1, <1>9, <2>1, <2>3, <2>5, CorpusStays
  <2>7. ImageAgrees(o)'
    BY <1>1, <1>5, <1>9, <2>1, ImageStays
  <2> QED BY <1>1, <1>5, <1>6, <2>1, <2>2, <2>4, <2>6, <2>7, OneOperation
<1>10. CASE /\ current' = current
            /\ corpus' = [corpus EXCEPT ![c] = [state |-> "ready", snapshot |-> o, revision |-> @.revision + 1]]
  <2>1. /\ corpus' \in [Corpora -> CorpusRows] /\ corpus'[c].state = "ready" /\ corpus'[c].snapshot = o
        /\ CorporaAdvance /\ Grows
        /\ \A d \in Corpora \ {c} : CorpusAgrees(d)'
    BY <1>1, <1>8, <1>10, CorpusPut
  <2>2. KnowledgeTypes'
    BY <1>t, <1>1, <1>5, <1>10, <2>1 DEF KnowledgeTypes
  <2>3. CorpusAgrees(c)'
    <3>1. PICK y, z : y = current[c].reference /\ z = current[c].file /\ Founds(y) /\ Founds(z)
      BY <1>t DEF CorpusAgrees
    <3>2. Founds(corpus[c].snapshot)' /\ Founds(current[c].reference)' /\ Founds(current[c].file)'
      BY <1>7, <1>8, <1>10, <2>1, <3>1 DEF Founds
    <3>3. indexer[c] # Nothing => indexer[c] \in Mutations /\ MutationKind[indexer[c]] \notin {"ingest", "refresh"}
      <4> SUFFICES ASSUME indexer[c] # Nothing
                   PROVE  indexer[c] \in Mutations /\ MutationKind[indexer[c]] \notin {"ingest", "refresh"}
        OBVIOUS
      <4>1. PICK p \in Mutations : p = indexer[c]
        BY <1>t DEF KnowledgeTypes
      <4>2. CorpusOf[p] = CorpusOf[o]
        BY <1>t, <1>3, <4>1 DEF CorpusAgrees
      <4>3. MutationKind[p] \notin {"ingest", "refresh"}
        BY <1>2, <4>2, KnowledgeAssumption
      <4> QED BY <4>1, <4>3
    <3>4. o # Nothing
      BY KnowledgeAssumption
    <3> QED BY <1>t, <1>1, <2>1, <3>2, <3>3, <3>4 DEF CorpusAgrees
  <2>4. \A d \in Corpora : CorpusAgrees(d)'
    BY <2>1, <2>3
  <2>5. ImageAgrees(o)'
    <3>1. HasCorpus(o) /\ phase \notin {"none", "cancelling"} /\ working[o].phase \notin {"none", "cancelling"}
      BY <1>1, <1>2 DEF HasCorpus
    <3>2. "at" \in DOMAIN working'[o] /\ working'[o].at = working[o].at /\ working[o].at \in CorpusRows
      BY <1>t, <1>5, <3>1 DEF ImageAgrees
    <3>3. PICK y : y = working[o].at.snapshot /\ Founds(y)
      BY <1>t, <3>1 DEF ImageAgrees
    <3>4. Founds(working[o].at.snapshot)'
      BY <1>7, <3>2, <3>3 DEF Founds
    <3>5. working'[o].at.revision <= corpus'[c].revision
      <4>1. corpus[c].revision <= corpus'[c].revision /\ working[o].at.revision <= corpus[c].revision
        BY <1>t, <1>3, <2>1, <3>1 DEF CorporaAdvance, ImageAgrees
      <4>2. {corpus[c].revision, corpus'[c].revision, working[o].at.revision} \subseteq Nat
        BY <1>t, <2>1, <3>2 DEF KnowledgeTypes, CorpusRows
      <4> QED BY <3>2, <4>1, <4>2
    <3> QED BY <1>2, <1>3, <3>2, <3>4, <3>5 DEF ImageAgrees
  <2> QED BY <1>1, <1>5, <1>6, <2>1, <2>2, <2>4, <2>5, OneOperation
<1> QED BY <1>3, <1>9, <1>10 DEF PublishGraph

\* Whatever a command, the daemon's death or an advisor does next keeps the invariant.
LEMMA MutationStep == KnowledgeInv /\ (MutateNext \/ PromoteNext) => KnowledgeInv'
BY RequestAgrees, ClaimAgrees, MarkIndexingAgrees, AnswerAgrees, PublishAgrees, PublishGraphAgrees,
   SucceedAgrees, FailAgrees, CancelAgrees, SettleCancelAgrees, ReconcileAgrees, DispatchAgrees,
   DeathAgrees, PromotionKeeps DEF MutateNext

\* Nothing was asked for, and what was ingested before is ready.
LEMMA KnowledgeInitially == KnowledgeInit => KnowledgeInv
<1> USE KnowledgeAssumption
<1> SUFFICES ASSUME KnowledgeInit PROVE KnowledgeInv
  OBVIOUS
<1>1. KnowledgeTypes
  <2>1. mutation \in [Mutations -> [state : MutationStates, revision : Nat]]
    BY DEF KnowledgeInit, MutationStates
  <2>2. corpus \in [Corpora -> CorpusRows]
    <3>1. [state |-> "ready", snapshot |-> Before, revision |-> 1] \in CorpusRows
      BY DEF CorpusRows, CorpusStates, Contents
    <3>2. [state |-> "empty", snapshot |-> Nothing, revision |-> 1] \in CorpusRows
      BY DEF CorpusRows, CorpusStates, Contents
    <3> QED BY <3>1, <3>2 DEF KnowledgeInit
  <2>3. current \in [Corpora -> [reference : Contents, file : Contents]]
    BY DEF KnowledgeInit, Contents
  <2> QED BY <2>1, <2>2, <2>3 DEF KnowledgeInit, KnowledgeTypes
<1>2. PromotionAgrees
  BY DEF KnowledgeInit, PromotionAgrees
<1>3. ASSUME NEW c \in Corpora PROVE CorpusAgrees(c)
  <2>1. corpus[c] \in {[state |-> "ready", snapshot |-> Before, revision |-> 1],
                       [state |-> "empty", snapshot |-> Nothing, revision |-> 1]}
    BY DEF KnowledgeInit
  <2>2. corpus[c].snapshot \in {Before, Nothing} /\ (corpus[c].state = "ready" => corpus[c].snapshot = Before)
    BY <2>1
  <2>3. Before # Nothing
    BY DEF Before, Nothing
  <2> QED BY <2>2, <2>3 DEF KnowledgeInit, CorpusAgrees, Founds
<1>4. ASSUME NEW o \in Mutations PROVE MutationAgrees(o) /\ PhaseAgrees(o) /\ StepAgrees(o) /\ ImageAgrees(o)
  <2>1. mutation[o].state = "absent" /\ done[o] = {} /\ \A s \in Provides : sent[o][s] = 0
    BY DEF KnowledgeInit
  <2>2. working[o] = Resting /\ working[o].phase = "none" /\ "phase" \in DOMAIN working[o]
    BY DEF KnowledgeInit, Resting
  <2> QED BY <2>1, <2>2 DEF MutationAgrees, PhaseAgrees, StepAgrees, ImageAgrees, WorkPhases
<1> QED BY <1>1, <1>2, <1>3, <1>4 DEF KnowledgeInv

-----------------------------------------------------------------------------
Tallies == [fresh : Nat, stale : Nat, unavailable : BOOLEAN, limited : BOOLEAN]

\* What a thread has gathered: its own sources within the bound, those of the fallback again.
AskingAgrees(t) ==
  asking[t] # Waiting =>
    /\ DOMAIN asking[t] = {"phase", "left", "all", "part", "literal"}
    /\ asking[t].phase \in {"classed", "searched", "literal", "settling", "returned"}
    /\ asking[t].all \in Tallies /\ asking[t].part \in 0..MaxResults /\ asking[t].literal \in BOOLEAN
    /\ asking[t].phase \in {"classed", "searched"} => ~asking[t].literal
    /\ asking[t].phase = "literal" => asking[t].literal
    /\ asking[t].literal => asking[t].all.limited /\ Size(asking[t].all) <= MaxResults + asking[t].part
    /\ ~asking[t].literal => Size(asking[t].all) = asking[t].part
    /\ asking[t].phase = "returned" => query.by = t

\* The bundle of the record is the one its thread returned.
BundleAgrees ==
  /\ query \in [state : QueryStates, required : BOOLEAN, by : Callers \cup {NobodyYet}]
  /\ query.by # NobodyYet <=> query.state \in {"completed", "degraded"}
  /\ query.by # NobodyYet =>
       /\ asking[query.by].phase = "returned"
       /\ query.required => asking[query.by].all.fresh > 0
       /\ query.state = "completed" => ~Degraded(asking[query.by].all)

AnsweringInv == DOMAIN asking = Callers /\ BundleAgrees /\ \A t \in Callers : AskingAgrees(t)

\* Whatever another thread does, a query is settled once.
LEMMA QueryInitially == QueryInit => AnsweringInv
BY DEF QueryInit, AnsweringInv, BundleAgrees, AskingAgrees, QueryStates, NobodyYet, Waiting

\* A thread that stops, or that is lost before it returned, leaves the record alone or fails it.
LEMMA ThreadStops ==
  ASSUME AnsweringInv, NEW t \in Callers, asking[t].phase # "returned",
         asking' = [asking EXCEPT ![t] = Waiting],
         query' = query \/ (query.state = "running" /\ query' = [query EXCEPT !.state = "failed"])
  PROVE  AnsweringInv'
<1>t. DOMAIN asking = Callers /\ BundleAgrees /\ \A u \in Callers : AskingAgrees(u)
  BY DEF AnsweringInv
<1>1. DOMAIN asking' = Callers /\ asking'[t] = Waiting /\ \A u \in Callers \ {t} : asking'[u] = asking[u]
  BY <1>t
<1>2. /\ query' \in [state : QueryStates, required : BOOLEAN, by : Callers \cup {NobodyYet}]
      /\ query'.by = query.by /\ query'.required = query.required
      /\ query'.state = query.state \/ (query.state = "running" /\ query'.state = "failed")
  BY <1>t DEF BundleAgrees, QueryStates
<1>3. query.by # NobodyYet => query.by \in Callers \ {t} /\ query'.state = query.state
  BY <1>t, <1>2 DEF BundleAgrees
<1>4. query'.by # NobodyYet <=> query'.state \in {"completed", "degraded"}
  BY <1>t, <1>2 DEF BundleAgrees
<1>5. BundleAgrees'
  BY <1>t, <1>1, <1>2, <1>3, <1>4 DEF BundleAgrees
<1>6. ASSUME NEW u \in Callers PROVE AskingAgrees(u)'
  <2>1. CASE u = t
    BY <1>1, <2>1 DEF AskingAgrees
  <2>2. CASE u # t
    BY <1>t, <1>1, <1>2, <2>2 DEF AskingAgrees
  <2> QED BY <2>1, <2>2
<1> QED BY <1>1, <1>5, <1>6 DEF AnsweringInv

\* A thread that goes on gathering, while no record names it, agrees with the others.
LEMMA ThreadGoes ==
  ASSUME AnsweringInv, NEW t \in Callers, asking[t].phase # "returned", AskingAgrees(t)',
         DOMAIN asking' = Callers, \A u \in Callers \ {t} : asking'[u] = asking[u],
         query' = query
  PROVE  AnsweringInv'
<1>t. BundleAgrees /\ \A u \in Callers : AskingAgrees(u)
  BY DEF AnsweringInv
<1>1. query.by # NobodyYet => query.by \in Callers \ {t}
  BY <1>t DEF BundleAgrees
<1>2. BundleAgrees'
  BY <1>t, <1>1 DEF BundleAgrees
<1>3. ASSUME NEW u \in Callers \ {t} PROVE AskingAgrees(u)'
  BY <1>t DEF AskingAgrees
<1> QED BY <1>2, <1>3 DEF AnsweringInv

\* Starting, asking, stopping, falling back and settling keep what the bundle says.
LEMMA QueryStep == AnsweringInv /\ QueryNext => AnsweringInv'
<1> USE QueryAssumption
<1> SUFFICES ASSUME AnsweringInv, NEW t \in Callers,
                    StartQuery(t) \/ AskSource(t) \/ StopAsking(t) \/ FallBack(t) \/ Deny(t) \/ SettleQuery(t)
                      \/ LoseThread(t)
             PROVE  AnsweringInv'
  BY DEF QueryNext
<1>t. DOMAIN asking = Callers /\ BundleAgrees /\ \A u \in Callers : AskingAgrees(u)
  BY DEF AnsweringInv
<1>w. asking[t].phase # "none" => asking[t] # Waiting
  BY DEF Waiting
<1>1. CASE StartQuery(t)
  <2>1. /\ asking[t] = Waiting /\ query.state \in {"absent", "running"}
        /\ query' = [query EXCEPT !.state = "running"]
        /\ asking' = [asking EXCEPT ![t] =
             [phase |-> "classed", left |-> Classed, all |-> Empty, part |-> 0, literal |-> FALSE]]
    BY <1>1 DEF StartQuery
  <2>2. /\ query' \in [state : QueryStates, required : BOOLEAN, by : Callers \cup {NobodyYet}]
        /\ query'.state = "running" /\ query'.by = query.by /\ query.by = NobodyYet
    BY <1>t, <2>1 DEF BundleAgrees, QueryStates
  <2>3. /\ DOMAIN asking' = Callers /\ \A u \in Callers \ {t} : asking'[u] = asking[u]
        /\ asking'[t] = [phase |-> "classed", left |-> Classed, all |-> Empty, part |-> 0, literal |-> FALSE]
    BY <1>t, <2>1
  <2>4. BundleAgrees'
    BY <2>2 DEF BundleAgrees
  <2>5. AskingAgrees(t)'
    <3>1. Empty \in Tallies /\ Size(Empty) = 0
      BY DEF Empty, Tallies, Size
    <3>2. /\ DOMAIN asking'[t] = {"phase", "left", "all", "part", "literal"} /\ asking'[t].phase = "classed"
          /\ asking'[t].all = Empty /\ asking'[t].part = 0 /\ asking'[t].literal = FALSE
      BY <2>3
    <3>3. Size(asking'[t].all) = asking'[t].part /\ asking'[t].part \in 0..MaxResults /\ asking'[t].all \in Tallies
      BY <3>1, <3>2
    <3>4. asking'[t].literal \in BOOLEAN /\ ~asking'[t].literal
      BY <3>2
    <3> HIDE DEF Tallies
    <3> QED BY <3>2, <3>3, <3>4 DEF AskingAgrees
  <2>6. ASSUME NEW u \in Callers \ {t} PROVE AskingAgrees(u)'
    BY <1>t, <2>2, <2>3 DEF AskingAgrees
  <2> QED BY <2>3, <2>4, <2>5, <2>6 DEF AnsweringInv
<1>2. CASE AskSource(t)
  <2>1. /\ asking[t].phase \in {"classed", "literal"} /\ asking[t].part < MaxResults /\ query' = query
    BY <1>2 DEF AskSource
  <2>2. PICK r \in Replies : /\ Size(r) <= MaxResults - asking[t].part
                             /\ asking' = [asking EXCEPT ![t].left = Tail(@), ![t].all = Add(@, r),
                                                         ![t].part = @ + Size(r)]
    BY <1>2 DEF AskSource
  <2>3. /\ r.fresh \in Nat /\ r.stale \in Nat /\ r.unavailable \in BOOLEAN /\ r.limited \in BOOLEAN
        /\ Size(r) = r.fresh + r.stale
    BY DEF Replies, Gathered, Size
  <2>4. /\ DOMAIN asking[t] = {"phase", "left", "all", "part", "literal"} /\ asking[t].all \in Tallies
        /\ asking[t].part \in 0..MaxResults /\ asking[t].literal \in BOOLEAN
        /\ (asking[t].phase = "classed" => ~asking[t].literal) /\ (asking[t].phase = "literal" => asking[t].literal)
        /\ (asking[t].literal => asking[t].all.limited /\ Size(asking[t].all) <= MaxResults + asking[t].part)
        /\ (~asking[t].literal => Size(asking[t].all) = asking[t].part)
    BY <1>t, <1>w, <2>1 DEF AskingAgrees
  <2>5. PICK a \in Tallies : a = asking[t].all
    BY <2>4
  <2>6. PICK b \in Tallies : /\ b = Add(a, r) /\ Size(b) = Size(a) + Size(r)
                             /\ (a.limited => b.limited)
    <3>1. /\ a.fresh \in Nat /\ a.stale \in Nat /\ a.unavailable \in BOOLEAN /\ a.limited \in BOOLEAN
      BY DEF Tallies
    <3>2. a.fresh + r.fresh \in Nat /\ a.stale + r.stale \in Nat
      BY <2>3, <3>1
    <3>3. (a.unavailable \/ r.unavailable) \in BOOLEAN /\ (a.limited \/ r.limited) \in BOOLEAN
      BY <2>3, <3>1
    <3>4. Add(a, r) \in Tallies
      BY <3>2, <3>3 DEF Add, Tallies
    <3>5. /\ Add(a, r).fresh = a.fresh + r.fresh /\ Add(a, r).stale = a.stale + r.stale
          /\ Add(a, r).limited = (a.limited \/ r.limited)
      BY DEF Add
    <3>6. Size(Add(a, r)) = Size(a) + Size(r)
      BY <2>3, <3>1, <3>5 DEF Size
    <3> QED BY <3>1, <3>4, <3>5, <3>6
  <2>7. PICK n \in 0..MaxResults : n = asking[t].part + Size(r)
    BY <2>1, <2>2, <2>3, <2>4
  <2>8. PICK v : v = [[[asking[t] EXCEPT !.left = Tail(@)] EXCEPT !.all = b] EXCEPT !.part = n]
    OBVIOUS
  <2>9. asking' = [asking EXCEPT ![t] = v]
    BY <1>t, <2>2, <2>4, <2>5, <2>6, <2>7, <2>8
  <2>10. /\ DOMAIN v = {"phase", "left", "all", "part", "literal"} /\ v.phase = asking[t].phase
         /\ v.all = b /\ v.part = n /\ v.literal = asking[t].literal
    BY <2>4, <2>8
  <2>11. DOMAIN asking' = Callers /\ asking'[t] = v /\ \A u \in Callers \ {t} : asking'[u] = asking[u]
    BY <1>t, <2>9
  <2>12. AskingAgrees(t)'
    <3>1. Size(a) \in Nat /\ Size(r) \in Nat
      BY <2>3 DEF Tallies, Size
    <3>2. v.literal => b.limited /\ Size(b) <= MaxResults + n
      BY <2>4, <2>5, <2>6, <2>7, <2>10, <3>1
    <3>3. ~v.literal => Size(b) = n
      BY <2>4, <2>5, <2>6, <2>7, <2>10, <3>1
    <3> QED BY <2>1, <2>4, <2>10, <2>11, <3>2, <3>3 DEF AskingAgrees
  <2> QED BY <2>1, <2>11, <2>12, ThreadGoes
<1>3. CASE StopAsking(t)
  <2>1. asking[t].phase \in {"classed", "literal"} /\ query' = query
    BY <1>3 DEF StopAsking
  <2>2. PICK limits \in BOOLEAN :
          asking' = [asking EXCEPT ![t].left = <<>>, ![t].all.limited = @ \/ limits,
                       ![t].phase = IF @ = "classed" THEN "searched" ELSE "settling"]
    BY <1>3 DEF StopAsking
  <2>3. /\ DOMAIN asking[t] = {"phase", "left", "all", "part", "literal"} /\ asking[t].all \in Tallies
        /\ asking[t].part \in 0..MaxResults /\ asking[t].literal \in BOOLEAN
        /\ (asking[t].phase = "classed" => ~asking[t].literal) /\ (asking[t].phase = "literal" => asking[t].literal)
        /\ (asking[t].literal => asking[t].all.limited /\ Size(asking[t].all) <= MaxResults + asking[t].part)
        /\ (~asking[t].literal => Size(asking[t].all) = asking[t].part)
    BY <1>t, <1>w, <2>1 DEF AskingAgrees
  <2>4. PICK a \in Tallies : a = asking[t].all
    BY <2>3
  <2>5. PICK b \in Tallies : /\ b = [a EXCEPT !.limited = a.limited \/ limits] /\ Size(b) = Size(a)
                             /\ (a.limited => b.limited)
    <3>1. a.limited \in BOOLEAN /\ (a.limited \/ limits) \in BOOLEAN
      BY DEF Tallies
    <3>2. PICK l \in BOOLEAN : l = (a.limited \/ limits)
      BY <3>1
    <3>3. PICK b : b = [a EXCEPT !.limited = l]
      OBVIOUS
    <3>4. b \in Tallies /\ b.fresh = a.fresh /\ b.stale = a.stale /\ b.limited = l
      BY <3>3 DEF Tallies
    <3>5. Size(b) = Size(a)
      BY <3>4 DEF Size
    <3>6. b = [a EXCEPT !.limited = a.limited \/ limits]
      BY <3>2, <3>3
    <3>7. a.limited => b.limited
      BY <3>2, <3>4
    <3> QED BY <3>4, <3>5, <3>6, <3>7
  <2>6. PICK p \in {"searched", "settling"} : p = IF asking[t].phase = "classed" THEN "searched" ELSE "settling"
    OBVIOUS
  <2>7. PICK v : v = [[[asking[t] EXCEPT !.left = <<>>] EXCEPT !.all = b] EXCEPT !.phase = p]
    OBVIOUS
  <2>8. asking' = [asking EXCEPT ![t] = v]
    BY <1>t, <2>2, <2>3, <2>4, <2>5, <2>6, <2>7
  <2>9. /\ DOMAIN v = {"phase", "left", "all", "part", "literal"} /\ v.phase = p
        /\ v.all = b /\ v.part = asking[t].part /\ v.literal = asking[t].literal
    BY <2>3, <2>7
  <2>10. DOMAIN asking' = Callers /\ asking'[t] = v /\ \A u \in Callers \ {t} : asking'[u] = asking[u]
    BY <1>t, <2>8
  <2>11. AskingAgrees(t)'
    <3>1. v.literal => b.limited /\ Size(b) <= MaxResults + v.part
      BY <2>3, <2>4, <2>5, <2>9
    <3>2. ~v.literal => Size(b) = v.part
      BY <2>3, <2>4, <2>5, <2>9
    <3>3. p = "searched" => ~v.literal
      BY <2>1, <2>3, <2>6, <2>9
    <3> QED BY <2>3, <2>9, <2>10, <3>1, <3>2, <3>3 DEF AskingAgrees
  <2> QED BY <2>1, <2>10, <2>11, ThreadGoes
<1>4. CASE FallBack(t)
  <2>1. asking[t].phase = "searched" /\ query' = query
    BY <1>4 DEF FallBack
  <2>2. /\ DOMAIN asking[t] = {"phase", "left", "all", "part", "literal"} /\ asking[t].all \in Tallies
        /\ asking[t].part \in 0..MaxResults /\ ~asking[t].literal /\ Size(asking[t].all) = asking[t].part
        /\ asking[t].literal \in BOOLEAN
    BY <1>t, <1>w, <2>1 DEF AskingAgrees
  <2>3. CASE asking' = [asking EXCEPT ![t].phase = "settling"]
    <3>1. asking' = [asking EXCEPT ![t] = [asking[t] EXCEPT !.phase = "settling"]]
      BY <2>3
    <3>2. /\ DOMAIN asking' = Callers /\ \A u \in Callers \ {t} : asking'[u] = asking[u]
          /\ asking'[t] = [asking[t] EXCEPT !.phase = "settling"]
      BY <1>t, <3>1
    <3>3. /\ DOMAIN asking'[t] = {"phase", "left", "all", "part", "literal"} /\ asking'[t].phase = "settling"
          /\ asking'[t].all = asking[t].all /\ asking'[t].part = asking[t].part /\ asking'[t].literal = asking[t].literal
      BY <2>2, <3>2
    <3>4. AskingAgrees(t)'
      BY <2>2, <3>3 DEF AskingAgrees
    <3> QED BY <2>1, <3>2, <3>4, ThreadGoes
  <2>4. CASE asking' = [asking EXCEPT ![t].phase = "literal", ![t].left = Literal, ![t].part = 0,
                                      ![t].literal = TRUE, ![t].all.limited = TRUE]
    <3>1. PICK a \in Tallies : a = asking[t].all
      BY <2>2
    <3>2. PICK b \in Tallies : b = [a EXCEPT !.limited = TRUE] /\ Size(b) = Size(a) /\ b.limited
      <4>1. PICK b : b = [a EXCEPT !.limited = TRUE]
        OBVIOUS
      <4>2. b \in Tallies /\ b.fresh = a.fresh /\ b.stale = a.stale /\ b.limited = TRUE
        BY <4>1 DEF Tallies
      <4> QED BY <4>1, <4>2 DEF Size
    <3>3. PICK v : v = [[[[[asking[t] EXCEPT !.phase = "literal"] EXCEPT !.left = Literal] EXCEPT !.part = 0]
                           EXCEPT !.literal = TRUE] EXCEPT !.all = b]
      OBVIOUS
    <3>4. asking' = [asking EXCEPT ![t] = v]
      BY <1>t, <2>2, <2>4, <3>1, <3>2, <3>3
    <3>5. /\ DOMAIN v = {"phase", "left", "all", "part", "literal"} /\ v.phase = "literal"
          /\ v.all = b /\ v.part = 0 /\ v.literal = TRUE
      BY <2>2, <3>3
    <3>6. DOMAIN asking' = Callers /\ asking'[t] = v /\ \A u \in Callers \ {t} : asking'[u] = asking[u]
      BY <1>t, <3>4
    <3>7. Size(b) <= MaxResults + 0 /\ 0 \in 0..MaxResults
      BY <2>2, <3>1, <3>2
    <3>8. AskingAgrees(t)'
      BY <3>2, <3>5, <3>6, <3>7 DEF AskingAgrees
    <3> QED BY <2>1, <3>6, <3>8, ThreadGoes
  <2> QED BY <1>4, <2>3, <2>4 DEF FallBack
<1>5. CASE Deny(t) \/ LoseThread(t)
  <2>1. /\ asking[t].phase # "returned" /\ asking' = [asking EXCEPT ![t] = Waiting]
        /\ query' = query \/ (query.state = "running" /\ query' = [query EXCEPT !.state = "failed"])
    BY <1>5 DEF Deny, LoseThread
  <2> QED BY <2>1, ThreadStops
<1>6. CASE SettleQuery(t)
  <2>1. asking[t].phase = "settling"
    BY <1>6 DEF SettleQuery
  <2>2. CASE ~(query.state = "running") \/ (query.required /\ asking[t].all.fresh = 0)
    <3>1. /\ asking' = [asking EXCEPT ![t] = Waiting]
          /\ query' = query \/ (query.state = "running" /\ query' = [query EXCEPT !.state = "failed"])
      BY <1>6, <2>2 DEF SettleQuery
    <3> QED BY <2>1, <3>1, ThreadStops
  <2>3. CASE query.state = "running" /\ ~(query.required /\ asking[t].all.fresh = 0)
    <3>1. PICK s \in {"completed", "degraded"} :
            /\ s = IF Degraded(asking[t].all) THEN "degraded" ELSE "completed"
            /\ query' = [query EXCEPT !.by = t, !.state = s]
            /\ asking' = [asking EXCEPT ![t].phase = "returned"]
      BY <1>6, <2>3 DEF SettleQuery
    <3>2. /\ query' \in [state : QueryStates, required : BOOLEAN, by : Callers \cup {NobodyYet}]
          /\ query'.state = s /\ query'.by = t /\ query'.required = query.required /\ query.by = NobodyYet
      BY <1>t, <2>3, <3>1 DEF BundleAgrees, QueryStates
    <3>3. asking' = [asking EXCEPT ![t] = [asking[t] EXCEPT !.phase = "returned"]]
      BY <3>1
    <3>4. /\ DOMAIN asking' = Callers /\ \A u \in Callers \ {t} : asking'[u] = asking[u]
          /\ asking'[t] = [asking[t] EXCEPT !.phase = "returned"]
      BY <1>t, <3>3
    <3>5. AskingAgrees(t) /\ asking[t] # Waiting
      BY <1>t, <1>w, <2>1
    <3>6. /\ DOMAIN asking'[t] = {"phase", "left", "all", "part", "literal"} /\ asking'[t].phase = "returned"
          /\ asking'[t].all = asking[t].all /\ asking'[t].part = asking[t].part /\ asking'[t].literal = asking[t].literal
      BY <3>4, <3>5 DEF AskingAgrees
    <3>7. AskingAgrees(t)'
      BY <3>2, <3>5, <3>6 DEF AskingAgrees
    <3>8. \A u \in Callers \ {t} : asking[u].phase # "returned"
      BY <1>t, <3>2, QueryAssumption, <1>w DEF AskingAgrees, Waiting
    <3>9. ASSUME NEW u \in Callers \ {t} PROVE AskingAgrees(u)'
      BY <1>t, <3>2, <3>4, <3>8 DEF AskingAgrees
    <3>10. BundleAgrees'
      <4>1. query.required => asking[t].all.fresh > 0
        BY <2>3, <3>5 DEF AskingAgrees, Tallies
      <4>2. s = "completed" => ~Degraded(asking[t].all)
        BY <3>1
      <4> QED BY <3>2, <3>6, <4>1, <4>2 DEF BundleAgrees, Degraded
    <3> QED BY <3>4, <3>7, <3>9, <3>10 DEF AnsweringInv
  <2> QED BY <2>2, <2>3
<1> QED BY <1>1, <1>2, <1>3, <1>4, <1>5, <1>6

-----------------------------------------------------------------------------
\* Operations, promotions and queries, in any order.
KnowledgeNext ==
  \/ (MutateNext \/ PromoteNext) /\ UNCHANGED queryVars
  \/ QueryNext /\ UNCHANGED knowledgeVars
KnowledgeSpec ==
  (KnowledgeInit /\ QueryInit) /\ [][KnowledgeNext]_<<knowledgeVars, queryVars>>

\* What the knowledge service reports of its providers happened, once: no step is dispatched
\* twice, a success took effect, a cancelled graph is published nowhere, a ready corpus holds
\* what indexed it last, and a bundle that was returned is the one the record names.
THEOREM KnowledgeAlwaysAccounted == KnowledgeSpec => []KnowledgeAccounted
<1>1. KnowledgeInit /\ QueryInit => KnowledgeInv /\ AnsweringInv
  BY KnowledgeInitially, QueryInitially
<1>2. KnowledgeInv /\ AnsweringInv /\ [KnowledgeNext]_<<knowledgeVars, queryVars>> => KnowledgeInv' /\ AnsweringInv'
  <2> SUFFICES ASSUME KnowledgeInv, AnsweringInv, [KnowledgeNext]_<<knowledgeVars, queryVars>>
               PROVE  KnowledgeInv' /\ AnsweringInv'
    OBVIOUS
  <2>1. ASSUME UNCHANGED knowledgeVars PROVE KnowledgeInv'
    BY <2>1 DEF knowledgeVars, KnowledgeInv, KnowledgeTypes, PromotionAgrees, CorpusAgrees, MutationAgrees,
       PhaseAgrees, StepAgrees, ImageAgrees, Founds, AllDone
  <2>2. ASSUME UNCHANGED queryVars PROVE AnsweringInv'
    BY <2>2 DEF queryVars, AnsweringInv, BundleAgrees, AskingAgrees
  <2> QED BY <2>1, <2>2, MutationStep, QueryStep DEF KnowledgeNext
<1>3. KnowledgeInv /\ AnsweringInv => KnowledgeAccounted
  <2> SUFFICES ASSUME KnowledgeInv, AnsweringInv PROVE KnowledgeAccounted
    OBVIOUS
  <2>t. /\ KnowledgeTypes /\ PromotionAgrees /\ \A c \in Corpora : CorpusAgrees(c)
        /\ \A o \in Mutations : MutationAgrees(o) /\ PhaseAgrees(o)
        /\ BundleAgrees /\ \A t \in Callers : AskingAgrees(t)
    BY DEF KnowledgeInv, AnsweringInv
  <2>1. KnowledgeTypeOK
    <3>1. \A c \in Corpora : corpus[c].state \in CorpusStates /\ (corpus[c].state = "ready" => corpus[c].snapshot # Nothing)
      BY <2>t DEF KnowledgeTypes, CorpusRows, CorpusAgrees
    <3>2. \A o \in Mutations : working[o] # Resting => mutation[o].state \notin {"succeeded", "cancelled"}
      BY <2>t DEF PhaseAgrees, WorkPhases
    <3>3. promoted.proposer \in Advisors \cup {Nothing}
      BY <2>t DEF PromotionAgrees
    <3> QED BY <2>t, <3>1, <3>2, <3>3 DEF KnowledgeTypeOK, KnowledgeTypes, PromotionAgrees
  <2>2. DispatchedOnce /\ SucceededHappened
    BY <2>t DEF DispatchedOnce, SucceededHappened, MutationAgrees, AllDone, Steps
  <2>3. CancelledUnpublished
    <3> SUFFICES ASSUME NEW o \in Mutations, mutation[o].state = "cancelled", NEW c \in Corpora,
                        o \in {corpus[c].snapshot, current[c].reference, current[c].file}
                 PROVE  FALSE
      BY DEF CancelledUnpublished
    <3>1. Founds(o)
      BY <2>t DEF CorpusAgrees
    <3> QED BY <2>t, <3>1 DEF Founds, MutationAgrees
  <2>4. ReadyFollowsIndexer
    BY <2>t DEF ReadyFollowsIndexer, CorpusAgrees
  <2>5. QueryTypeOK
    <3>1. ASSUME NEW t \in Callers, asking[t] # Waiting
          PROVE  asking[t].all.fresh + asking[t].all.stale <= 2 * MaxResults
      <4>1. /\ asking[t].part \in 0..MaxResults /\ asking[t].literal \in BOOLEAN /\ Size(asking[t].all) \in Nat
            /\ (asking[t].literal => Size(asking[t].all) <= MaxResults + asking[t].part)
            /\ (~asking[t].literal => Size(asking[t].all) = asking[t].part)
        BY <2>t, <3>1 DEF AskingAgrees, Tallies, Size
      <4>2. Size(asking[t].all) <= MaxResults + asking[t].part
        BY <4>1, QueryAssumption
      <4>3. Size(asking[t].all) <= 2 * MaxResults
        BY <4>1, <4>2, QueryAssumption
      <4> QED BY <4>3 DEF Size
    <3> QED BY <2>t, <3>1 DEF QueryTypeOK, BundleAgrees
  <2>6. ReturnedIsDurable
    BY <2>t, QueryAssumption DEF ReturnedIsDurable, AskingAgrees, BundleAgrees, Waiting
  <2>7. CompletedIsWhole
    <3> SUFFICES ASSUME query.by # NobodyYet
                 PROVE  /\ query.required => asking[query.by].all.fresh > 0
                        /\ query.state = "completed" => /\ asking[query.by].all.stale = 0
                                                        /\ ~asking[query.by].literal
                                                        /\ ~asking[query.by].all.unavailable
      BY DEF CompletedIsWhole
    <3>1. PICK t \in Callers : t = query.by /\ asking[t].phase = "returned"
      BY <2>t DEF BundleAgrees
    <3>2. AskingAgrees(t) /\ asking[t] # Waiting
      BY <2>t, <3>1 DEF Waiting
    <3>3. query.state = "completed" => /\ ~asking[t].all.unavailable /\ ~asking[t].all.limited
                                       /\ ~(asking[t].all.stale > 0)
      BY <2>t, <3>1 DEF BundleAgrees, Degraded
    <3>4. asking[t].all.stale \in Nat
      BY <3>2 DEF AskingAgrees, Tallies
    <3> QED BY <2>t, <3>1, <3>2, <3>3, <3>4 DEF AskingAgrees, BundleAgrees
  <2> QED BY <2>1, <2>2, <2>3, <2>4, <2>5, <2>6, <2>7 DEF KnowledgeAccounted
<1> QED BY <1>1, <1>2, <1>3, PTL DEF KnowledgeSpec

-----------------------------------------------------------------------------
(* A crawl. *)

\* A set of numbers has a least one.
LEMMA LeastNumber ==
  ASSUME NEW T, T \subseteq Nat, T # {}
  PROVE  \E n \in T : \A m \in T : n <= m
<1> DEFINE Below(n) == 0..n
           F == {Below(n) : n \in T}
<1>1. F \subseteq FiniteSubsetsOf(Nat) /\ F # {}
  <2>1. \A n \in T : Below(n) \in SUBSET Nat /\ IsFiniteSet(Below(n))
    BY FS_Interval
  <2> QED
    BY <2>1 DEF FiniteSubsetsOf
<1>2. PICK x \in F : \A y \in F : <<y, x>> \notin StrictSubsetOrdering(Nat)
  <2>1. IsWellFoundedOn(StrictSubsetOrdering(Nat), FiniteSubsetsOf(Nat))
    BY FS_StrictSubsetOrderingWellFounded
  <2> HIDE DEF F
  <2> QED
    BY <1>1, <2>1, WFMin
<1>3. PICK n \in T : x = Below(n)
  OBVIOUS
<1>4. ASSUME NEW m \in T, ~(n <= m) PROVE FALSE
  <2>1. Below(m) \subseteq Below(n) /\ Below(m) # Below(n)
    <3>1. n \in Below(n) /\ n \notin Below(m)
      BY <1>4
    <3>2. Below(m) \subseteq Below(n)
      BY <1>4
    <3> QED
      BY <3>1, <3>2
  <2>2. Below(m) \in SUBSET Nat /\ Below(n) \in SUBSET Nat
    OBVIOUS
  <2>3. <<Below(m), Below(n)>> \in StrictSubsetOrdering(Nat)
    <3> HIDE DEF Below
    <3> QED BY <2>1, <2>2 DEF StrictSubsetOrdering
  <2> QED
    BY <1>2, <1>3, <2>3
<1> QED
  BY <1>4

\* Depths are numbers.
LEMMA MaxDepthType == MaxDepth \in Nat
BY CrawlAssumption

\* One more level of the walk.
Further(S) == S \cup UNION {links[p] : p \in {q \in S : Follows(q)}}

\* A function with the levels up to n.
IsLevels(f, n) ==
  /\ DOMAIN f = 0..n /\ f = [i \in 0..n |-> f[i]]
  /\ \A i \in 0..n : f[i] = IF i = 0 THEN {Root} ELSE Further(f[i - 1])

\* There are levels up to every number.
LEMMA LevelsExist == \A n \in Nat : \E f : IsLevels(f, n)
<1> DEFINE Lacking == {n \in Nat : ~\E f : IsLevels(f, n)}
<1> SUFFICES ASSUME Lacking # {} PROVE FALSE
  OBVIOUS
<1>1. PICK n \in Lacking : \A m \in Lacking : n <= m
  BY LeastNumber
<1>2. CASE n = 0
  <2> DEFINE f == [i \in 0..0 |-> {Root}]
  <2>1. IsLevels(f, 0)
    BY DEF IsLevels
  <2> QED
    BY <1>1, <1>2, <2>1
<1>3. CASE n # 0
  <2>1. n - 1 \in Nat /\ n - 1 \notin Lacking
    BY <1>1, <1>3
  <2>2. PICK f : IsLevels(f, n - 1)
    BY <2>1
  <2> DEFINE g == [i \in 0..n |-> IF i = n THEN Further(f[n - 1]) ELSE f[i]]
  <2>3. \A i \in 0..n : g[i] = IF i = 0 THEN {Root} ELSE Further(g[i - 1])
    <3> SUFFICES ASSUME NEW i \in 0..n PROVE g[i] = IF i = 0 THEN {Root} ELSE Further(g[i - 1])
      OBVIOUS
    <3>1. CASE i = n
      <4>1. g[i - 1] = f[n - 1]
        BY <1>3, <3>1
      <4> QED
        BY <1>3, <3>1, <4>1
    <3>2. CASE i # n
      <4>1. i \in 0..(n - 1) /\ g[i] = f[i]
        BY <1>3, <3>2
      <4>2. i # 0 => g[i - 1] = f[i - 1]
        BY <1>3, <3>2
      <4> QED
        BY <2>2, <4>1, <4>2 DEF IsLevels
    <3> QED
      BY <3>1, <3>2
  <2>4. IsLevels(g, n)
    BY <2>3 DEF IsLevels
  <2> QED
    BY <1>1, <2>4
<1> QED
  BY <1>2, <1>3

\* What the recursive definition says.
LEMMA ReachSteps ==
  /\ Reach[0] = {Root}
  /\ \A n \in 1..MaxDepth : Reach[n] = Further(Reach[n - 1])
<1> DEFINE Step(f) == [n \in 0..MaxDepth |->
                         IF n = 0 THEN {Root}
                         ELSE f[n - 1] \cup UNION {links[p] : p \in {q \in f[n - 1] : Follows(q)}}]
<1>1. PICK f : IsLevels(f, MaxDepth)
  BY LevelsExist, CrawlAssumption
<1>2. f = Step(f)
  BY <1>1 DEF IsLevels, Further
<1>3. Reach = CHOOSE g : g = Step(g)
  BY DEF Reach
<1>4. Reach = Step(Reach)
  <2> HIDE DEF Step
  <2> QED
    BY <1>2, <1>3
<1>5. \A n \in 0..MaxDepth : Reach[n] = IF n = 0 THEN {Root} ELSE Further(Reach[n - 1])
  BY <1>4 DEF Further
<1>6. 0 \in 0..MaxDepth /\ \A n \in 1..MaxDepth : n \in 0..MaxDepth /\ n # 0
  BY CrawlAssumption
<1> HIDE DEF Step
<1> QED
  BY <1>5, <1>6

\* Levels grow.
LEMMA ReachGrows == \A m, n \in 0..MaxDepth : m <= n => Reach[m] \subseteq Reach[n]
<1> DEFINE Failing == {n \in 0..MaxDepth : \E m \in 0..n : ~(Reach[m] \subseteq Reach[n])}
<1> SUFFICES ASSUME Failing # {} PROVE FALSE
  BY CrawlAssumption
<1>1. PICK n \in Failing : \A m \in Failing : n <= m
  <2>1. Failing \subseteq Nat
    BY CrawlAssumption
  <2> HIDE DEF Failing
  <2> QED
    BY <2>1, LeastNumber
<1>2. PICK m \in 0..n : ~(Reach[m] \subseteq Reach[n])
  BY <1>1
<1>3. n \in 1..MaxDepth /\ m \in 0..(n - 1) /\ n - 1 \in 0..MaxDepth
  BY <1>2, CrawlAssumption
<1>4. n - 1 \notin Failing
  <2> HIDE DEF Failing
  <2> QED
    BY <1>1, <1>3
<1>5. Reach[m] \subseteq Reach[n - 1]
  BY <1>3, <1>4
<1>6. Reach[n - 1] \subseteq Reach[n]
  BY <1>3, ReachSteps DEF Further
<1> QED
  BY <1>2, <1>5, <1>6

\* A set of pages with all that its pages lead to has every level.
LEMMA ReachClosed ==
  ASSUME NEW S, Root \in S, \A p \in S : Follows(p) => links[p] \subseteq S
  PROVE  \A n \in 0..MaxDepth : Reach[n] \subseteq S
<1> DEFINE Failing == {n \in 0..MaxDepth : ~(Reach[n] \subseteq S)}
<1> SUFFICES ASSUME Failing # {} PROVE FALSE
  OBVIOUS
<1>1. PICK n \in Failing : \A m \in Failing : n <= m
  <2>1. Failing \subseteq Nat
    BY CrawlAssumption
  <2> HIDE DEF Failing
  <2> QED
    BY <2>1, LeastNumber
<1>2. n # 0
  BY <1>1, ReachSteps
<1>3. n \in 1..MaxDepth /\ n - 1 \in 0..MaxDepth /\ ~(n <= n - 1)
  BY <1>1, <1>2, CrawlAssumption
<1>4. Reach[n - 1] \subseteq S
  BY <1>1, <1>3
<1>5. Reach[n] \subseteq S
  BY <1>3, <1>4, ReachSteps DEF Further
<1> QED
  BY <1>1, <1>5

\* An order of finitely many pages has each of them once.
LEMMA OrderCovers ==
  ASSUME NEW S, IsFiniteSet(S), NEW listed \in Orders(S)
  PROVE  /\ listed \in Seq(S) /\ Len(listed) = Cardinality(S)
         /\ \A p \in S : \E i \in 1..Len(listed) : listed[i] = p
         /\ \A i, j \in 1..Len(listed) : i # j => listed[i] # listed[j]
<1>1. Cardinality(S) \in Nat
  BY FS_CardinalityType
<1>2. listed \in [1..Cardinality(S) -> S] /\ \A i, j \in 1..Cardinality(S) : i # j => listed[i] # listed[j]
  BY DEF Orders
<1>3. listed \in Seq(S) /\ Len(listed) = Cardinality(S)
  BY <1>1, <1>2
<1>4. listed \in Injection(1..Cardinality(S), S)
  BY <1>2 DEF Injection, IsInjective
<1>5. Cardinality(1..Cardinality(S)) = Cardinality(S)
  BY <1>1, FS_Interval
<1>6. listed \in Surjection(1..Cardinality(S), S)
  BY <1>4, <1>5, FS_Injection
<1> QED
  BY <1>2, <1>3, <1>6 DEF Surjection

\* Pages that were visited or are queued.
Known == visited \cup Queued

PageRow == [page : Pages, depth : 0..MaxDepth]
Result == [page : Pages, depth : 0..MaxDepth, failed : BOOLEAN]

\* Types of the queue, the results and the site.
CrawlRows ==
  /\ toVisit \in Seq(PageRow) /\ kept \in Seq(Result)
  /\ links \in Graphs /\ maxPages \in PageLimits
  /\ IsFiniteSet(visited) /\ visited \subseteq Pages /\ Len(kept) <= Cardinality(visited)

\* A page is at its distance from the root.
At(p, d) == p \in Reach[d] /\ (d > 0 => p \notin Reach[d - 1])

\* Nothing was lost so far, and no page failed.
Lossless == lost = {} /\ Errors = {}

\* The walk: what was visited is what is kept, all that it leads to is known, and pages are
\* kept and queued at their distance.
WalkInv ==
  /\ {kept[i].page : i \in DOMAIN kept} = visited /\ \A p \in visited : Follows(p)
  /\ Root \in Known /\ \A p \in visited : links[p] \subseteq Known
  /\ \A i \in DOMAIN kept : At(kept[i].page, kept[i].depth)
  /\ \A i \in DOMAIN toVisit : At(toVisit[i].page, toVisit[i].depth)

\* Depths never fall, and the queue spans two of them.
OrderInv ==
  /\ \A i, j \in DOMAIN kept : i < j => kept[i].depth <= kept[j].depth
  /\ \A i \in DOMAIN kept, j \in DOMAIN toVisit : kept[i].depth <= toVisit[j].depth
  /\ \A i, j \in DOMAIN toVisit : i < j => toVisit[i].depth <= toVisit[j].depth
  /\ \A i \in DOMAIN toVisit : toVisit[i].depth <= toVisit[1].depth + 1

\* All pages of the level in turn are known.
LevelKnown == toVisit # <<>> => Reach[toVisit[1].depth] \subseteq Known

\* The crawl is over.
Stopped == stopReason # ""

\* The inductive invariant of a crawl.
CrawlInv ==
  /\ CrawlTypeOK /\ CrawlRows /\ OrderInv
  /\ Lossless => WalkInv /\ LevelKnown /\ (Stopped => toVisit = <<>>)

\* The page in turn, what it leads to, and what of that is queued.
NextPage == toVisit[1].page
NextDepth == toVisit[1].depth
Rest == Tail(toVisit)
KnownNow == visited \cup {NextPage}
Found == IF NextPage \in excluded \cup refused \cup broken THEN {} ELSE links[NextPage]
Wanted == IF NextDepth < MaxDepth THEN Fresh(Found, Rest, KnownNow) ELSE {}

\* What a visit does to the queue and to the results.
Turn(listed, taken) ==
  /\ taken \in 0..Len(listed) /\ listed \in Seq(Wanted)
  /\ \A p \in Wanted : \E i \in 1..Len(listed) : listed[i] = p
  /\ \A i, j \in 1..Len(listed) : i # j => listed[i] # listed[j]
  /\ visited' = KnownNow /\ toVisit' \in Seq(PageRow) /\ Len(toVisit') = Len(Rest) + taken
  /\ \A j \in 1..Len(Rest) : toVisit'[j] = toVisit[j + 1]
  /\ \A i \in 1..taken : toVisit'[Len(Rest) + i].page = listed[i] /\ toVisit'[Len(Rest) + i].depth = NextDepth + 1
  /\ taken > 0 => NextDepth < MaxDepth
  /\ kept' = IF NextPage \in excluded THEN kept
             ELSE Append(kept, [page |-> NextPage, depth |-> NextDepth,
                                failed |-> NextPage \in refused \cup broken])
  /\ Cardinality(visited') + Len(toVisit') <= maxPages
  /\ lost' = lost \cup (IF NextPage \in excluded THEN {"scope_pattern"} ELSE {})
                  \cup (IF NextPage \in refused THEN {"robots"} ELSE {})
                  \cup (IF NextDepth >= MaxDepth /\ Found # {} THEN {"depth_limit"} ELSE {})
                  \cup (IF taken < Len(listed) THEN {"page_limit"} ELSE {})
  /\ stopReason' = Ends(toVisit', kept')
  /\ UNCHANGED <<links, excluded, refused, broken, maxPages>>

\* The page in turn, by type.
LEMMA InTurn ==
  ASSUME CrawlInv, toVisit # <<>>
  PROVE  /\ NextPage \in Pages /\ NextDepth \in 0..MaxDepth /\ NextPage \notin visited
         /\ Rest \in Seq(PageRow) /\ Len(Rest) = Len(toVisit) - 1 /\ Head(toVisit) = toVisit[1]
         /\ \A j \in 1..Len(Rest) : Rest[j] = toVisit[j + 1] /\ j + 1 \in DOMAIN toVisit
         /\ 1 \in DOMAIN toVisit /\ Len(toVisit) \in Nat /\ toVisit[1] \in PageRow
         /\ Queued = {NextPage} \cup {Rest[j].page : j \in DOMAIN Rest}
<1>0. toVisit \in Seq(PageRow)
  BY DEF CrawlInv, CrawlRows
<1>1. toVisit \in Seq(PageRow) /\ Len(toVisit) \in Nat /\ Len(toVisit) > 0
  BY <1>0
<1>2. /\ Rest \in Seq(PageRow) /\ Len(Rest) = Len(toVisit) - 1 /\ Head(toVisit) = toVisit[1]
      /\ \A j \in 1..Len(Rest) : Rest[j] = toVisit[j + 1] /\ j + 1 \in DOMAIN toVisit
  BY <1>1 DEF Rest
<1>3. 1 \in DOMAIN toVisit /\ toVisit[1] \in PageRow
  BY <1>1
<1>4. NextPage \in Pages /\ NextDepth \in 0..MaxDepth
  BY <1>3 DEF NextPage, NextDepth, PageRow
<1>5. NextPage \in Queued
  BY <1>3 DEF NextPage, Queued
<1>6. NextPage \notin visited
  BY <1>5 DEF CrawlInv, CrawlTypeOK
<1>7. Queued = {NextPage} \cup {Rest[j].page : j \in DOMAIN Rest}
  <2>1. ASSUME NEW i \in DOMAIN toVisit, i # 1 PROVE i - 1 \in 1..Len(Rest) /\ Rest[i - 1] = toVisit[i]
    BY <1>1, <1>2, <2>1
  <2>2. DOMAIN Rest = 1..Len(Rest)
    BY <1>2
  <2>3. \A i \in DOMAIN toVisit : toVisit[i].page \in {NextPage} \cup {Rest[j].page : j \in DOMAIN Rest}
    BY <2>1, <2>2 DEF NextPage
  <2>4. \A j \in DOMAIN Rest : Rest[j].page \in Queued
    BY <1>2, <2>2 DEF Queued
  <2> QED
    BY <1>5, <2>3, <2>4 DEF Queued
<1> QED
  BY <1>1, <1>2, <1>3, <1>4, <1>6, <1>7

\* A visit is such a turn.
LEMMA VisitTurns ==
  ASSUME CrawlInv, VisitPage
  PROVE  toVisit # <<>> /\ \E listed, taken : Turn(listed, taken)
<1>1. toVisit # <<>> /\ stopReason = ""
  BY DEF VisitPage
<1> DEFINE Added(listed, taken) == [i \in 1..taken |-> [page |-> listed[i], depth |-> NextDepth + 1]]
           Room == IF maxPages > Cardinality(KnownNow) + Len(Rest)
                   THEN maxPages - Cardinality(KnownNow) - Len(Rest) ELSE 0
           Taken(listed) == IF Len(listed) <= Room THEN Len(listed) ELSE Room
<1>2. /\ NextPage \in Pages /\ NextDepth \in 0..MaxDepth /\ NextPage \notin visited
      /\ Rest \in Seq(PageRow) /\ Len(Rest) = Len(toVisit) - 1 /\ Head(toVisit) = toVisit[1]
      /\ \A j \in 1..Len(Rest) : Rest[j] = toVisit[j + 1]
      /\ Len(toVisit) \in Nat /\ toVisit[1] \in PageRow
  BY <1>1, InTurn
<1>3. Pop(toVisit) = [next |-> toVisit[1], rest |-> Rest]
  BY <1>2 DEF Pop, Rest
<1>4. PICK listed \in Orders(Wanted) :
        /\ visited' = KnownNow
        /\ kept' = IF NextPage \in excluded THEN kept
                   ELSE Append(kept, [page |-> NextPage, depth |-> NextDepth,
                                      failed |-> NextPage \in refused \cup broken])
        /\ toVisit' = Rest \o Added(listed, Taken(listed))
        /\ lost' = lost \cup (IF NextPage \in excluded THEN {"scope_pattern"} ELSE {})
                       \cup (IF NextPage \in refused THEN {"robots"} ELSE {})
                       \cup (IF NextDepth >= MaxDepth /\ Found # {} THEN {"depth_limit"} ELSE {})
                       \cup (IF Len(listed) > Room THEN {"page_limit"} ELSE {})
        /\ stopReason' = Ends(toVisit', kept')
        /\ UNCHANGED <<links, excluded, refused, broken, maxPages>>
  <2> DEFINE page == NextPage
             depth == NextDepth
             known == visited \cup {page}
             skipped == page \in excluded \cup visited
             failed == page \in refused \cup broken
             found == IF skipped \/ failed THEN {} ELSE links[page]
             keeps == IF skipped THEN kept
                      ELSE Append(kept, [page |-> page, depth |-> depth, failed |-> failed])
  <2>0. Visit(NextPage, NextDepth, Rest)
    <3>1. Visit(Pop(toVisit).next.page, Pop(toVisit).next.depth, Pop(toVisit).rest)
      BY DEF VisitPage
    <3>2. Pop(toVisit).next.page = NextPage /\ Pop(toVisit).next.depth = NextDepth /\ Pop(toVisit).rest = Rest
      BY <1>3 DEF NextPage, NextDepth
    <3> QED
      BY <3>1, <3>2
  <2>1. /\ visited' = known /\ kept' = keeps
        /\ \E listed \in Orders(IF depth < MaxDepth THEN Fresh(found, Rest, known) ELSE {}) :
             LET new == Enqueue(listed, depth, Rest, known)
                 deep == depth >= MaxDepth /\ found # {}
                 end == Ends(new.queue, keeps)
             IN /\ toVisit' = new.queue /\ stopReason' = end
                /\ lost' = lost \cup (IF page \in excluded THEN {"scope_pattern"} ELSE {})
                                \cup (IF page \in refused THEN {"robots"} ELSE {})
                                \cup (IF deep THEN {"depth_limit"} ELSE {})
                                \cup (IF new.full THEN {"page_limit"} ELSE {})
        /\ UNCHANGED <<links, excluded, refused, broken, maxPages>>
    BY <2>0 DEF Visit
  <2>2. known = KnownNow /\ found = Found
    BY <1>2 DEF KnownNow, Found
  <2>3. keeps = IF NextPage \in excluded THEN kept
                ELSE Append(kept, [page |-> NextPage, depth |-> NextDepth,
                                   failed |-> NextPage \in refused \cup broken])
    BY <1>2
  <2>4. Wanted = IF depth < MaxDepth THEN Fresh(found, Rest, known) ELSE {}
    BY <2>2 DEF Wanted
  <2>5. \A listed : /\ Enqueue(listed, depth, Rest, known).queue = Rest \o Added(listed, Taken(listed))
                    /\ Enqueue(listed, depth, Rest, known).full = (Len(listed) > Room)
    BY <2>2 DEF Enqueue
  <2> HIDE DEF known, skipped, failed, found, keeps, Room, Taken, Added
  <2>6. PICK listed \in Orders(Wanted) :
          /\ toVisit' = Rest \o Added(listed, Taken(listed))
          /\ lost' = lost \cup (IF NextPage \in excluded THEN {"scope_pattern"} ELSE {})
                         \cup (IF NextPage \in refused THEN {"robots"} ELSE {})
                         \cup (IF NextDepth >= MaxDepth /\ found # {} THEN {"depth_limit"} ELSE {})
                         \cup (IF Len(listed) > Room THEN {"page_limit"} ELSE {})
          /\ stopReason' = Ends(toVisit', keeps)
    BY <2>1, <2>4, <2>5
  <2> QED
    BY <2>1, <2>2, <2>3, <2>6
<1> DEFINE taken == Taken(listed)
<1>5. IsFiniteSet(KnownNow) /\ Cardinality(KnownNow) = Cardinality(visited) + 1 /\ Cardinality(visited) \in Nat
  BY <1>2, FS_AddElement, FS_CardinalityType DEF CrawlInv, CrawlRows, KnownNow
<1>6. IsFiniteSet(Wanted) /\ Wanted \subseteq Pages /\ (Wanted # {} => NextDepth < MaxDepth)
  <2>1. IsFiniteSet(links[NextPage]) /\ links[NextPage] \subseteq Pages
    BY <1>2, CrawlAssumption DEF CrawlInv, CrawlRows
  <2>2. Wanted \subseteq links[NextPage] /\ (Wanted # {} => NextDepth < MaxDepth)
    BY DEF Wanted, Fresh, Found
  <2> QED
    BY <2>1, <2>2, FS_Subset
<1>7. /\ listed \in Seq(Wanted) /\ Len(listed) = Cardinality(Wanted) /\ Len(listed) \in Nat
      /\ \A p \in Wanted : \E i \in 1..Len(listed) : listed[i] = p
      /\ \A i, j \in 1..Len(listed) : i # j => listed[i] # listed[j]
  BY <1>6, OrderCovers, FS_CardinalityType
<1>8. maxPages \in Nat /\ Cardinality(visited) + Len(toVisit) <= maxPages
  BY CrawlAssumption DEF CrawlInv, CrawlRows, CrawlTypeOK
<1>9. /\ Room = maxPages - Cardinality(KnownNow) - Len(Rest) /\ Room \in Nat
      /\ taken \in 0..Len(listed) /\ taken <= Room /\ (Len(listed) > Room <=> taken < Len(listed))
  <2>1. Room = maxPages - Cardinality(KnownNow) - Len(Rest) /\ Room \in Nat
    <3>1. Cardinality(KnownNow) + Len(Rest) <= maxPages /\ Len(Rest) \in Nat /\ Cardinality(KnownNow) \in Nat
      BY <1>2, <1>5, <1>8
    <3> QED
      BY <1>8, <3>1
  <2> HIDE DEF Room
  <2> QED
    BY <1>7, <2>1
<1> HIDE DEF Room, taken
<1>10. \A i \in 1..taken : listed[i] \in Wanted /\ i \in 1..Len(listed)
  BY <1>7, <1>9
<1>11. Added(listed, taken) \in Seq(PageRow) /\ Len(Added(listed, taken)) = taken
  <2>1. \A i \in 1..taken : [page |-> listed[i], depth |-> NextDepth + 1] \in PageRow
    BY <1>2, <1>6, <1>10, CrawlAssumption DEF PageRow
  <2>2. Added(listed, taken) \in [1..taken -> PageRow] /\ taken \in Nat
    BY <1>9, <2>1
  <2> HIDE DEF Added
  <2> QED
    BY <2>2
<1>12. /\ toVisit' \in Seq(PageRow) /\ Len(toVisit') = Len(Rest) + taken
       /\ \A j \in 1..Len(Rest) : toVisit'[j] = toVisit[j + 1]
       /\ \A i \in 1..taken : toVisit'[Len(Rest) + i] = Added(listed, taken)[i]
  <2>1. toVisit' = Rest \o Added(listed, taken)
    BY <1>4 DEF taken
  <2> HIDE DEF Added
  <2>2. Len(Rest) \in Nat /\ taken \in Nat
    BY <1>2, <1>7, <1>9
  <2>3. toVisit' \in Seq(PageRow) /\ Len(toVisit') = Len(Rest) + taken
    BY <1>2, <1>11, <2>1
  <2>4. \A j \in 1..Len(Rest) : toVisit'[j] = Rest[j]
    BY <1>2, <1>11, <2>1, <2>2
  <2>5. \A i \in 1..taken : toVisit'[Len(Rest) + i] = Added(listed, taken)[i]
    BY <1>2, <1>11, <2>1, <2>2
  <2> QED
    BY <1>2, <2>3, <2>4, <2>5
<1>13. \A i \in 1..taken : /\ toVisit'[Len(Rest) + i].page = listed[i]
                           /\ toVisit'[Len(Rest) + i].depth = NextDepth + 1
  <2>1. \A i \in 1..taken : Added(listed, taken)[i] = [page |-> listed[i], depth |-> NextDepth + 1]
    OBVIOUS
  <2> HIDE DEF Added
  <2> TAKE i \in 1..taken
  <2>2. toVisit'[Len(Rest) + i] = [page |-> listed[i], depth |-> NextDepth + 1]
    BY <1>12, <2>1
  <2> QED
    BY <2>2
<1>14. taken > 0 => NextDepth < MaxDepth
  <2>1. taken > 0 => 1 \in 1..taken
    BY <1>7, <1>9
  <2> QED
    BY <1>6, <1>10, <2>1
<1>15. Cardinality(visited') + Len(toVisit') <= maxPages
  <2>1. visited' = KnownNow /\ Len(toVisit') = Len(Rest) + taken
    BY <1>4, <1>12
  <2>2. /\ Cardinality(KnownNow) \in Nat /\ Len(Rest) \in Nat /\ taken \in Nat /\ maxPages \in Nat
        /\ taken <= maxPages - Cardinality(KnownNow) - Len(Rest)
    BY <1>2, <1>5, <1>7, <1>8, <1>9, SMTT(60)
  <2>3. Cardinality(KnownNow) + (Len(Rest) + taken) <= maxPages
    BY <2>2
  <2> QED
    BY <2>1, <2>3
<1>16. lost' = lost \cup (IF NextPage \in excluded THEN {"scope_pattern"} ELSE {})
                     \cup (IF NextPage \in refused THEN {"robots"} ELSE {})
                     \cup (IF NextDepth >= MaxDepth /\ Found # {} THEN {"depth_limit"} ELSE {})
                     \cup (IF taken < Len(listed) THEN {"page_limit"} ELSE {})
  BY <1>4, <1>9
<1>17. Turn(listed, taken)
  <2> HIDE DEF Added
  <2> QED
    BY <1>4, <1>7, <1>9, <1>12, <1>13, <1>14, <1>15, <1>16 DEF Turn
<1> QED
  BY <1>1, <1>17

\* What the queue and the results consist of.
LEMMA RowsTyped ==
  ASSUME CrawlInv
  PROVE  /\ toVisit \in Seq(PageRow) /\ kept \in Seq(Result)
         /\ DOMAIN toVisit = 1..Len(toVisit) /\ DOMAIN kept = 1..Len(kept) /\ Len(kept) \in Nat /\ Len(toVisit) \in Nat
         /\ \A j \in DOMAIN toVisit : toVisit[j] \in PageRow /\ toVisit[j].depth \in Nat /\ j \in Nat /\ j >= 1
         /\ \A i \in DOMAIN kept : kept[i] \in Result /\ kept[i].depth \in Nat /\ i \in Nat /\ i >= 1
<1>1. toVisit \in Seq(PageRow)
  BY DEF CrawlInv, CrawlRows
<1>2. kept \in Seq(Result)
  BY DEF CrawlInv, CrawlRows
<1>3. \A j \in DOMAIN toVisit : toVisit[j] \in PageRow /\ j \in Nat /\ j >= 1
  BY <1>1
<1>4. \A i \in DOMAIN kept : kept[i] \in Result /\ i \in Nat /\ i >= 1
  BY <1>2
<1>5. \A x \in PageRow : x.depth \in Nat
  BY CrawlAssumption DEF PageRow
<1>6. \A x \in Result : x.depth \in Nat
  BY CrawlAssumption DEF Result
<1>7. DOMAIN toVisit = 1..Len(toVisit) /\ Len(toVisit) \in Nat
  BY <1>1
<1>8. DOMAIN kept = 1..Len(kept) /\ Len(kept) \in Nat
  BY <1>2
<1> QED
  BY <1>1, <1>2, <1>3, <1>4, <1>5, <1>6, <1>7, <1>8

\* The sizes of a turn.
LEMMA TurnTypes ==
  ASSUME CrawlInv, toVisit # <<>>, NEW listed, NEW taken, Turn(listed, taken)
  PROVE  /\ Len(listed) \in Nat /\ taken \in Nat /\ taken <= Len(listed) /\ Len(Rest) \in Nat
         /\ DOMAIN Rest = 1..Len(Rest) /\ toVisit' \in Seq(PageRow)
         /\ DOMAIN toVisit' = 1..(Len(Rest) + taken) /\ Len(toVisit') \in Nat
         /\ DOMAIN kept = 1..Len(kept) /\ Len(kept) \in Nat /\ maxPages \in Nat /\ MaxDepth \in Nat
<1>1. listed \in Seq(Wanted) /\ taken \in 0..Len(listed) /\ toVisit' \in Seq(PageRow) /\ Len(toVisit') = Len(Rest) + taken
  BY DEF Turn
<1>2. Rest \in Seq(PageRow) /\ kept \in Seq(Result) /\ maxPages \in Nat
  BY InTurn, CrawlAssumption DEF CrawlInv, CrawlRows
<1>3. Len(listed) \in Nat /\ taken \in Nat /\ taken <= Len(listed)
  BY <1>1
<1>4. DOMAIN toVisit' = 1..Len(toVisit') /\ Len(toVisit') \in Nat
  BY <1>1
<1>5. Len(Rest) \in Nat /\ DOMAIN Rest = 1..Len(Rest) /\ DOMAIN kept = 1..Len(kept) /\ Len(kept) \in Nat
  BY <1>2
<1> QED
  BY <1>1, <1>2, <1>3, <1>4, <1>5, CrawlAssumption

\* Where the queue comes from after a turn.
LEMMA QueueAfter ==
  ASSUME CrawlInv, toVisit # <<>>, NEW listed, NEW taken, Turn(listed, taken), NEW j \in DOMAIN toVisit'
  PROVE  \/ j \in 1..Len(Rest) /\ toVisit'[j] = toVisit[j + 1] /\ j + 1 \in DOMAIN toVisit
         \/ \E i \in 1..taken : /\ j = Len(Rest) + i /\ i \in 1..Len(listed) /\ listed[i] \in Wanted
                                /\ toVisit'[j].page = listed[i] /\ toVisit'[j].depth = NextDepth + 1
<1>1. j \in 1..(Len(Rest) + taken) /\ Len(Rest) \in Nat /\ Len(listed) \in Nat /\ taken \in 0..Len(listed)
  BY TurnTypes
<1>2. CASE j <= Len(Rest)
  BY <1>1, <1>2, InTurn DEF Turn
<1>3. CASE ~(j <= Len(Rest))
  <2> DEFINE i == j - Len(Rest)
  <2>1. i \in 1..taken /\ j = Len(Rest) + i /\ i \in 1..Len(listed)
    BY <1>1, <1>3
  <2> HIDE DEF i
  <2>2. toVisit'[j].page = listed[i] /\ toVisit'[j].depth = NextDepth + 1 /\ listed[i] \in Wanted
    <3>1. listed \in Seq(Wanted)
      BY DEF Turn
    <3>2. listed[i] \in Wanted
      BY <2>1, <3>1
    <3> QED
      BY <2>1, <3>2 DEF Turn
  <2> QED
    BY <2>1, <2>2
<1> QED
  BY <1>2, <1>3

\* What is wanted was not known.
LEMMA WantedNew == Wanted \cap (KnownNow \cup {Rest[j].page : j \in DOMAIN Rest}) = {}
BY DEF Wanted, Fresh

\* What is known after a turn.
LEMMA KnownAfter ==
  ASSUME CrawlInv, toVisit # <<>>, NEW listed, NEW taken, Turn(listed, taken)
  PROVE  /\ Known \subseteq Known' /\ KnownNow \subseteq Known'
         /\ Known = KnownNow \cup {Rest[j].page : j \in DOMAIN Rest}
         /\ \A j \in DOMAIN toVisit' : toVisit'[j].page \in Known'
         /\ taken = Len(listed) => Wanted \subseteq Known'
<1>1. Known = KnownNow \cup {Rest[j].page : j \in DOMAIN Rest}
  BY InTurn DEF Known, KnownNow
<1>2. KnownNow \subseteq Known' /\ \A j \in DOMAIN toVisit' : toVisit'[j].page \in Known'
  BY DEF Turn, Known, Queued
<1>3. \A j \in DOMAIN Rest : Rest[j].page \in Known'
  <2> SUFFICES ASSUME NEW j \in DOMAIN Rest PROVE Rest[j].page \in Known'
    OBVIOUS
  <2>1. j \in 1..Len(Rest) /\ toVisit'[j] = Rest[j]
    BY TurnTypes, InTurn DEF Turn
  <2>2. j \in DOMAIN toVisit'
    BY <2>1, TurnTypes
  <2> QED
    BY <1>2, <2>1, <2>2
<1>4. ASSUME taken = Len(listed), NEW p \in Wanted PROVE p \in Known'
  <2>1. PICK i \in 1..taken : listed[i] = p
    BY <1>4 DEF Turn
  <2>2. Len(Rest) + i \in DOMAIN toVisit'
    BY TurnTypes
  <2>3. toVisit'[Len(Rest) + i].page = p
    BY <2>1 DEF Turn
  <2> QED
    BY <1>2, <2>2, <2>3
<1> QED
  BY <1>1, <1>2, <1>3, <1>4

\* The results after a turn.
LEMMA KeptAfter ==
  ASSUME CrawlInv, toVisit # <<>>, NEW listed, NEW taken, Turn(listed, taken)
  PROVE  /\ kept' \in Seq(Result) /\ Len(kept') <= Len(kept) + 1 /\ Len(kept) \in Nat
         /\ Len(kept') >= Len(kept)
         /\ \A i \in DOMAIN kept : i \in DOMAIN kept' /\ kept'[i] = kept[i]
         /\ \A i \in DOMAIN kept' :
              \/ i \in DOMAIN kept /\ kept'[i] = kept[i]
              \/ /\ i = Len(kept) + 1 /\ kept'[i].page = NextPage /\ kept'[i].depth = NextDepth
                 /\ kept'[i].failed = (NextPage \in refused \cup broken) /\ NextPage \notin excluded
         /\ NextPage \notin excluded => \E i \in DOMAIN kept' : /\ kept'[i].page = NextPage
                                                               /\ kept'[i].failed = (NextPage \in refused \cup broken)
<1> DEFINE r == [page |-> NextPage, depth |-> NextDepth, failed |-> NextPage \in refused \cup broken]
<1>1. r \in Result /\ r.page = NextPage /\ r.depth = NextDepth /\ r.failed = (NextPage \in refused \cup broken)
  BY InTurn DEF Result
<1>2. kept \in Seq(Result) /\ Len(kept) \in Nat
  BY RowsTyped
<1>3. kept' = IF NextPage \in excluded THEN kept ELSE Append(kept, r)
  BY DEF Turn
<1> HIDE DEF r
<1>4. CASE NextPage \in excluded
  BY <1>2, <1>3, <1>4
<1>5. CASE NextPage \notin excluded
  <2>1. /\ kept' = Append(kept, r) /\ kept' \in Seq(Result) /\ Len(kept') = Len(kept) + 1
        /\ kept'[Len(kept) + 1] = r /\ \A i \in 1..Len(kept) : kept'[i] = kept[i]
    BY <1>1, <1>2, <1>3, <1>5
  <2>2. DOMAIN kept = 1..Len(kept) /\ DOMAIN kept' = 1..(Len(kept) + 1)
    BY <1>2, <2>1
  <2> QED
    BY <1>1, <1>2, <1>5, <2>1, <2>2
<1> QED
  BY <1>4, <1>5

\* Types, and the bound on pages.
LEMMA CrawlTypesKept ==
  ASSUME CrawlInv, toVisit # <<>>, NEW listed, NEW taken, Turn(listed, taken)
  PROVE  CrawlTypeOK' /\ CrawlRows'
<1>1. /\ IsFiniteSet(visited') /\ visited' \subseteq Pages /\ Cardinality(visited') = Cardinality(visited) + 1
      /\ Cardinality(visited) \in Nat
  BY InTurn, FS_AddElement, FS_CardinalityType DEF CrawlInv, CrawlRows, KnownNow, Turn
<1>2. Len(kept') \in Nat /\ Len(kept') <= Cardinality(visited')
  <2>1. kept' \in Seq(Result) /\ Len(kept') <= Len(kept) + 1 /\ Len(kept) \in Nat
    BY KeptAfter
  <2>2. Len(kept') \in Nat
    BY <2>1
  <2>3. Len(kept) <= Cardinality(visited)
    BY DEF CrawlInv, CrawlRows
  <2> QED
    BY <1>1, <2>1, <2>2, <2>3
<1>3. CrawlRows'
  BY <1>1, <1>2, KeptAfter DEF CrawlInv, CrawlRows, Turn
<1>4. Cardinality(visited') + Len(toVisit') <= maxPages'
  BY DEF Turn
<1>5. Len(kept') <= maxPages'
  <2>1. maxPages' \in Nat /\ Len(toVisit') \in Nat
    BY TurnTypes DEF Turn
  <2> QED
    BY <1>1, <1>2, <1>4, <2>1
<1>6. \A i \in DOMAIN kept' : kept'[i].page \in visited'
  BY KeptAfter DEF CrawlInv, CrawlTypeOK, KnownNow, Turn
<1>7. lost' \subseteq Reasons
  BY DEF CrawlInv, CrawlTypeOK, Turn, Reasons
<1>8. stopReason' \in StopReasons
  <2>1. \A q, k : Ends(q, k) \in StopReasons
    BY DEF Ends, StopReasons
  <2> QED
    BY <2>1 DEF Turn
<1>9. \A i, j \in DOMAIN toVisit' : i # j => toVisit'[i].page # toVisit'[j].page
  <2> SUFFICES ASSUME NEW i \in DOMAIN toVisit', NEW j \in DOMAIN toVisit', i # j,
                      toVisit'[i].page = toVisit'[j].page
               PROVE  FALSE
    OBVIOUS
  <2> DEFINE Old(k) == k \in 1..Len(Rest) /\ toVisit'[k] = toVisit[k + 1] /\ k + 1 \in DOMAIN toVisit
             New(k) == \E n \in 1..taken : /\ k = Len(Rest) + n /\ n \in 1..Len(listed) /\ listed[n] \in Wanted
                                /\ toVisit'[k].page = listed[n] /\ toVisit'[k].depth = NextDepth + 1
  <2>1. (Old(i) \/ New(i)) /\ (Old(j) \/ New(j))
    BY QueueAfter
  <2>2. \A k \in DOMAIN toVisit' : Old(k) => toVisit'[k].page \notin Wanted
    BY WantedNew, InTurn
  <2>3. CASE Old(i) /\ Old(j)
    <3>1. i + 1 # j + 1
      BY <2>3
    <3> QED
      BY <2>3, <3>1 DEF CrawlInv, CrawlTypeOK
  <2>4. CASE New(i) /\ New(j)
    <3>1. PICK m \in 1..taken : i = Len(Rest) + m /\ m \in 1..Len(listed) /\ toVisit'[i].page = listed[m]
      BY <2>4
    <3>2. PICK n \in 1..taken : j = Len(Rest) + n /\ n \in 1..Len(listed) /\ toVisit'[j].page = listed[n]
      BY <2>4
    <3>3. \A a, b \in 1..Len(listed) : a # b => listed[a] # listed[b]
      BY DEF Turn
    <3>4. m = n
      BY <3>1, <3>2, <3>3
    <3> QED
      BY <3>1, <3>2, <3>4
  <2>5. New(i) => toVisit'[i].page \in Wanted
    OBVIOUS
  <2>6. New(j) => toVisit'[j].page \in Wanted
    OBVIOUS
  <2> HIDE DEF Old, New
  <2> QED
    BY <2>1, <2>2, <2>3, <2>4, <2>5, <2>6
<1>10. Queued' \cap visited' = {}
  <2>1. \A j \in DOMAIN toVisit' : toVisit'[j].page \notin visited'
    <3> SUFFICES ASSUME NEW j \in DOMAIN toVisit' PROVE toVisit'[j].page \notin KnownNow
      BY DEF Turn
    <3>1. CASE j \in 1..Len(Rest) /\ toVisit'[j] = toVisit[j + 1] /\ j + 1 \in DOMAIN toVisit
      <4>1. toVisit[j + 1].page \notin visited
        BY <3>1 DEF CrawlInv, CrawlTypeOK, Queued
      <4>2. j + 1 # 1 /\ 1 \in DOMAIN toVisit
        BY <3>1, InTurn
      <4>3. toVisit[j + 1].page # NextPage
        BY <3>1, <4>2 DEF CrawlInv, CrawlTypeOK, NextPage
      <4> QED
        BY <3>1, <4>1, <4>3 DEF KnownNow
    <3> QED
      BY <3>1, QueueAfter, WantedNew
  <2> QED
    BY <2>1 DEF Queued
<1> QED
  BY <1>3, <1>4, <1>5, <1>6, <1>7, <1>8, <1>9, <1>10 DEF CrawlTypeOK

\* Depths stay in order.
LEMMA OrderKept ==
  ASSUME CrawlInv, toVisit # <<>>, NEW listed, NEW taken, Turn(listed, taken)
  PROVE  OrderInv'
<1>0. /\ \A i, j \in DOMAIN kept : i < j => kept[i].depth <= kept[j].depth
      /\ \A i \in DOMAIN kept, j \in DOMAIN toVisit : kept[i].depth <= toVisit[j].depth
      /\ \A i, j \in DOMAIN toVisit : i < j => toVisit[i].depth <= toVisit[j].depth
      /\ \A i \in DOMAIN toVisit : toVisit[i].depth <= toVisit[1].depth + 1
  BY DEF CrawlInv, OrderInv
<1>1. 1 \in DOMAIN toVisit /\ NextDepth = toVisit[1].depth /\ NextDepth \in Nat
  BY InTurn, RowsTyped DEF NextDepth
<1>2. \A j \in DOMAIN toVisit : toVisit[j].depth \in Nat /\ toVisit[j].depth >= NextDepth
                                 /\ toVisit[j].depth <= NextDepth + 1 /\ j \in Nat /\ j >= 1
  <2> SUFFICES ASSUME NEW j \in DOMAIN toVisit
               PROVE  /\ toVisit[j].depth \in Nat /\ toVisit[j].depth >= NextDepth
                      /\ toVisit[j].depth <= NextDepth + 1 /\ j \in Nat /\ j >= 1
    OBVIOUS
  <2>1. toVisit[j].depth \in Nat /\ j \in Nat /\ j >= 1
    BY RowsTyped
  <2>2. toVisit[j].depth <= NextDepth + 1 /\ (1 < j => NextDepth <= toVisit[j].depth)
    BY <1>0, <1>1
  <2> QED
    BY <1>1, <2>1, <2>2
<1>3. \A i \in DOMAIN kept : kept[i].depth \in Nat /\ i \in 1..Len(kept) /\ Len(kept) \in Nat
  BY RowsTyped
<1>4. \A j \in DOMAIN toVisit' : toVisit'[j].depth \in Nat /\ toVisit'[j].depth >= NextDepth
                                  /\ toVisit'[j].depth <= NextDepth + 1 /\ j \in Nat
  <2> SUFFICES ASSUME NEW j \in DOMAIN toVisit'
               PROVE  /\ toVisit'[j].depth \in Nat /\ toVisit'[j].depth >= NextDepth
                      /\ toVisit'[j].depth <= NextDepth + 1 /\ j \in Nat
    OBVIOUS
  <2>1. j \in Nat
    BY TurnTypes
  <2>2. toVisit'[j].depth = NextDepth + 1 \/ \E k \in DOMAIN toVisit : toVisit'[j] = toVisit[k]
    BY QueueAfter
  <2> QED
    BY <1>1, <1>2, <2>1, <2>2
<1>5. ASSUME NEW i \in DOMAIN toVisit', NEW j \in DOMAIN toVisit', i < j
      PROVE  toVisit'[i].depth <= toVisit'[j].depth
  <2>1. CASE j \in 1..Len(Rest) /\ toVisit'[j] = toVisit[j + 1] /\ j + 1 \in DOMAIN toVisit
    <3>1. i \in 1..Len(Rest)
      BY <1>4, <1>5, <2>1, TurnTypes
    <3>2. toVisit'[i] = toVisit[i + 1] /\ i + 1 \in DOMAIN toVisit /\ i + 1 < j + 1
      BY <1>4, <1>5, <3>1, InTurn DEF Turn
    <3>3. toVisit[i + 1].depth <= toVisit[j + 1].depth
      BY <1>0, <2>1, <3>2
    <3> QED
      BY <2>1, <3>2, <3>3
  <2>2. CASE toVisit'[j].depth = NextDepth + 1
    BY <1>4, <2>2
  <2> QED
    BY <2>1, <2>2, QueueAfter
<1>6. ASSUME NEW i \in DOMAIN kept', NEW j \in DOMAIN kept', i < j PROVE kept'[i].depth <= kept'[j].depth
  <2>0. DOMAIN kept = 1..Len(kept) /\ Len(kept) \in Nat /\ DOMAIN kept' \subseteq Nat
    <3>1. kept' \in Seq(Result)
      BY KeptAfter
    <3> QED
      BY <3>1, TurnTypes
  <2>1. CASE j \in DOMAIN kept /\ kept'[j] = kept[j]
    <3>1. i \in DOMAIN kept /\ kept'[i] = kept[i]
      BY <1>6, <2>0, <2>1, KeptAfter
    <3> QED
      BY <1>0, <1>6, <2>1, <3>1
  <2>2. CASE j = Len(kept) + 1 /\ kept'[j].depth = NextDepth
    <3>1. i \in DOMAIN kept /\ kept'[i] = kept[i]
      BY <1>6, <2>0, <2>2, KeptAfter
    <3> QED
      BY <1>0, <1>1, <2>2, <3>1
  <2> QED
    BY <2>1, <2>2, KeptAfter
<1>7. ASSUME NEW i \in DOMAIN kept', NEW j \in DOMAIN toVisit' PROVE kept'[i].depth <= toVisit'[j].depth
  <2>1. CASE i \in DOMAIN kept /\ kept'[i] = kept[i]
    <3>1. kept[i].depth <= NextDepth
      BY <1>0, <1>1, <2>1
    <3> QED
      BY <1>1, <1>3, <1>4, <2>1, <3>1
  <2>2. CASE kept'[i].depth = NextDepth
    BY <1>4, <2>2
  <2> QED
    BY <2>1, <2>2, KeptAfter
<1>8. ASSUME NEW i \in DOMAIN toVisit' PROVE toVisit'[i].depth <= toVisit'[1].depth + 1
  <2>1. 1 \in DOMAIN toVisit'
    BY <1>8, TurnTypes
  <2> QED
    BY <1>1, <1>4, <2>1
<1> QED
  BY <1>5, <1>6, <1>7, <1>8 DEF OrderInv

\* Nothing was lost and no page failed.
LEMMA TurnLossless ==
  ASSUME CrawlInv, toVisit # <<>>, NEW listed, NEW taken, Turn(listed, taken), Lossless'
  PROVE  /\ Lossless /\ Follows(NextPage) /\ Found = links[NextPage] /\ taken = Len(listed)
         /\ links[NextPage] \subseteq Known'
<1>1. lost \subseteq lost' /\ lost' = {}
  BY DEF Turn, Lossless
<1>2. \A i \in DOMAIN kept' : ~kept'[i].failed
  BY DEF Lossless, Errors
<1>3. \A i \in DOMAIN kept : ~kept[i].failed
  BY <1>2, KeptAfter
<1>4. Lossless
  BY <1>1, <1>3 DEF Lossless, Errors
<1>5. NextPage \notin excluded
  BY <1>1 DEF Turn
<1>6. NextPage \notin refused \cup broken
  BY <1>2, <1>5, KeptAfter
<1>7. Follows(NextPage) /\ Found = links[NextPage]
  BY <1>5, <1>6 DEF Follows, Found
<1>8. ~(taken < Len(listed)) /\ ~(NextDepth >= MaxDepth /\ Found # {})
  BY <1>1 DEF Turn
<1>9. taken = Len(listed)
  BY <1>8, TurnTypes
<1>10. links[NextPage] \subseteq Known'
  <2>1. CASE NextDepth < MaxDepth
    <3>1. links[NextPage] \subseteq Wanted \cup KnownNow \cup {Rest[j].page : j \in DOMAIN Rest}
      BY <1>7, <2>1 DEF Wanted, Fresh
    <3> QED
      BY <1>9, <3>1, KnownAfter
  <2>2. CASE ~(NextDepth < MaxDepth)
    <3>1. NextDepth >= MaxDepth
      BY <2>2, InTurn, TurnTypes
    <3> QED
      BY <1>7, <1>8, <3>1
  <2> QED
    BY <2>1, <2>2
<1> QED
  BY <1>4, <1>7, <1>9, <1>10

\* While nothing is lost, the walk stays level by level.
LEMMA WalkKept ==
  ASSUME CrawlInv, toVisit # <<>>, NEW listed, NEW taken, Turn(listed, taken), Lossless',
         CrawlRows', OrderInv'
  PROVE  WalkInv' /\ LevelKnown'
<1>1. /\ Lossless /\ Follows(NextPage) /\ Found = links[NextPage] /\ taken = Len(listed)
      /\ links[NextPage] \subseteq Known'
  BY TurnLossless
<1>2. WalkInv /\ Reach[NextDepth] \subseteq Known
  BY <1>1 DEF CrawlInv, NextDepth, LevelKnown
<1>3. UNCHANGED <<links, excluded, refused, broken>> /\ visited' = KnownNow
  BY DEF Turn
<1>4. Reach' = Reach /\ \A p : Follows(p)' <=> Follows(p)
  BY <1>3 DEF Reach, Follows
<1>5. \A p, d : At(p, d)' <=> At(p, d)
  BY <1>4 DEF At
<1>6. /\ NextPage \in Pages /\ NextDepth \in 0..MaxDepth /\ MaxDepth \in Nat
      /\ 1 \in DOMAIN toVisit /\ NextPage = toVisit[1].page /\ NextDepth = toVisit[1].depth
  BY InTurn, TurnTypes DEF NextPage, NextDepth
<1>7. At(NextPage, NextDepth)
  BY <1>2, <1>6 DEF WalkInv
<1>8. \A p \in Wanted : At(p, NextDepth + 1) /\ NextDepth + 1 \in 1..MaxDepth
  <2> SUFFICES ASSUME NEW p \in Wanted PROVE At(p, NextDepth + 1) /\ NextDepth + 1 \in 1..MaxDepth
    OBVIOUS
  <2>1. NextDepth < MaxDepth /\ p \in links[NextPage]
    BY <1>1 DEF Wanted, Fresh
  <2>2. NextDepth + 1 \in 1..MaxDepth /\ (NextDepth + 1) - 1 = NextDepth
    BY <1>6, <2>1
  <2>3. NextPage \in Reach[NextDepth]
    BY <1>7 DEF At
  <2>4. p \in Reach[NextDepth + 1]
    <3>1. Reach[NextDepth + 1] = Further(Reach[NextDepth])
      BY <2>2, ReachSteps
    <3> QED
      BY <1>1, <2>1, <2>3, <3>1 DEF Further
  <2>5. p \notin Reach[NextDepth]
    BY <1>2, KnownAfter, WantedNew
  <2> QED
    BY <2>2, <2>4, <2>5 DEF At
<1>9. \A j \in DOMAIN toVisit' : At(toVisit'[j].page, toVisit'[j].depth)
  <2> SUFFICES ASSUME NEW j \in DOMAIN toVisit' PROVE At(toVisit'[j].page, toVisit'[j].depth)
    OBVIOUS
  <2>1. \/ \E k \in DOMAIN toVisit : toVisit'[j] = toVisit[k]
        \/ toVisit'[j].page \in Wanted /\ toVisit'[j].depth = NextDepth + 1
    BY QueueAfter
  <2> QED
    BY <1>2, <1>8, <2>1 DEF WalkInv
<1>10. \A i \in DOMAIN kept' : At(kept'[i].page, kept'[i].depth)
  BY <1>2, <1>7, KeptAfter DEF WalkInv
<1>11. {kept'[i].page : i \in DOMAIN kept'} = visited'
  <2>1. \A i \in DOMAIN kept' : kept'[i].page \in KnownNow
    BY <1>2, KeptAfter DEF WalkInv, KnownNow
  <2>2. \E i \in DOMAIN kept' : kept'[i].page = NextPage
    BY <1>1, KeptAfter DEF Follows
  <2>3. \A p \in visited : \E i \in DOMAIN kept' : kept'[i].page = p
    BY <1>2, KeptAfter DEF WalkInv
  <2> QED
    BY <1>3, <2>1, <2>2, <2>3 DEF KnownNow
<1>12. /\ \A p \in visited' : Follows(p) /\ links[p] \subseteq Known'
       /\ Root \in Known'
  BY <1>1, <1>2, <1>3, KnownAfter DEF WalkInv, KnownNow
<1>13. WalkInv'
  BY <1>3, <1>4, <1>5, <1>9, <1>10, <1>11, <1>12 DEF WalkInv
<1>14. ASSUME toVisit' # <<>> PROVE Reach[toVisit'[1].depth] \subseteq Known'
  <2>0. toVisit' \in Seq(PageRow)
    BY TurnTypes
  <2>1. 1 \in DOMAIN toVisit'
    BY <1>14, <2>0
  <2>r. \A j \in DOMAIN toVisit' : toVisit'[j] \in PageRow /\ j \in Nat /\ j >= 1
    BY <2>0
  <2>2. toVisit'[1].depth = NextDepth \/ (toVisit'[1].depth = NextDepth + 1 /\ NextDepth + 1 \in 1..MaxDepth)
    <3>1. toVisit'[1] \in PageRow
      BY <2>1, <2>r
    <3>2. toVisit'[1].depth \in 0..MaxDepth
      BY <3>1 DEF PageRow
    <3>3. \/ \E k \in DOMAIN toVisit : toVisit'[1] = toVisit[k]
          \/ toVisit'[1].depth = NextDepth + 1
      BY <2>1, QueueAfter
    <3>4. \A k \in DOMAIN toVisit : /\ toVisit[k].depth <= NextDepth + 1 /\ toVisit[k].depth \in Nat
                                     /\ (1 < k => NextDepth <= toVisit[k].depth) /\ k \in Nat /\ k >= 1
      BY <1>6, RowsTyped DEF CrawlInv, OrderInv
    <3>5. toVisit'[1].depth >= NextDepth /\ toVisit'[1].depth <= NextDepth + 1
      BY <1>6, <3>2, <3>3, <3>4
    <3> QED
      BY <1>6, <3>2, <3>5
  <2>3. CASE toVisit'[1].depth = NextDepth
    BY <1>2, <2>3, KnownAfter
  <2>4. CASE toVisit'[1].depth = NextDepth + 1 /\ NextDepth + 1 \in 1..MaxDepth
    <3>1. Reach[NextDepth + 1] = Further(Reach[NextDepth])
      <4>1. (NextDepth + 1) - 1 = NextDepth
        BY <1>6
      <4> QED
        BY <2>4, <4>1, ReachSteps
    <3>2. \A q \in Reach[NextDepth] : q \in visited'
      <4> SUFFICES ASSUME NEW q \in Reach[NextDepth], q \notin visited' PROVE FALSE
        OBVIOUS
      <4>1. q \in Known'
        BY <1>2, KnownAfter
      <4>2. PICK j \in DOMAIN toVisit' : toVisit'[j].page = q
        BY <4>1 DEF Known, Queued
      <4> DEFINE e == toVisit'[j].depth
      <4>3. toVisit'[j] \in PageRow /\ j \in Nat /\ j >= 1
        BY <2>r
      <4>4. e \in 0..MaxDepth
        BY <4>3 DEF PageRow
      <4>5. 1 < j => toVisit'[1].depth <= e
        BY <2>1 DEF OrderInv
      <4>6. NextDepth + 1 <= e
        BY <1>6, <2>4, <4>3, <4>4, <4>5
      <4>7. q \notin Reach[e - 1]
        BY <1>6, <1>9, <4>2, <4>4, <4>6 DEF At
      <4>8. Reach[NextDepth] \subseteq Reach[e - 1]
        <5>1. e - 1 \in 0..MaxDepth /\ NextDepth <= e - 1
          BY <1>6, <4>4, <4>6
        <5> QED
          BY <1>6, <5>1, ReachGrows
      <4> QED
        BY <4>7, <4>8
    <3>3. Further(Reach[NextDepth]) \subseteq Known'
      BY <1>2, <1>12, <3>2, KnownAfter DEF Further
    <3> QED
      BY <2>4, <3>1, <3>3
  <2> QED
    BY <2>2, <2>3, <2>4
<1> QED
  BY <1>4, <1>13, <1>14 DEF LevelKnown

\* A crawl that stops without loss has emptied its queue.
LEMMA StopsEmpty ==
  ASSUME CrawlInv, toVisit # <<>>, NEW listed, NEW taken, Turn(listed, taken), Lossless', CrawlTypeOK', CrawlRows'
  PROVE  Stopped' => toVisit' = <<>>
<1> SUFFICES ASSUME toVisit' # <<>> PROVE ~Stopped'
  OBVIOUS
<1>1. Errors' = {} /\ Cardinality(Errors') = 0
  BY FS_EmptySet DEF Lossless
<1>2. Cardinality({i \in DOMAIN kept' : kept'[i].failed}) = 0
  BY <1>1 DEF Errors
<1>3. ~(0 >= StopAfterErrors)
  BY CrawlAssumption
<1>4. Len(toVisit') \in Nat /\ Len(toVisit') # 0
  <2>1. toVisit' \in Seq(PageRow)
    BY TurnTypes
  <2> QED
    BY <2>1
<1>5. ~(Len(kept') >= maxPages)
  <2>1. Len(kept') <= Cardinality(visited') /\ Cardinality(visited') \in Nat
    BY FS_CardinalityType DEF CrawlRows
  <2>2. Len(kept') \in Nat
    <3>1. kept' \in Seq(Result)
      BY KeptAfter
    <3> QED
      BY <3>1
  <2>3. Cardinality(visited') + Len(toVisit') <= maxPages /\ maxPages \in Nat
    BY TurnTypes DEF Turn
  <2> QED
    BY <1>4, <2>1, <2>2, <2>3
<1>6. stopReason' = Ends(toVisit', kept') /\ maxPages' = maxPages
  BY DEF Turn
<1> QED
  BY <1>2, <1>3, <1>5, <1>6 DEF Ends, Stopped

\* Every visit keeps the invariant.
LEMMA CrawlKept == CrawlInv /\ [VisitPage]_crawlVars => CrawlInv'
<1> SUFFICES ASSUME CrawlInv, [VisitPage]_crawlVars PROVE CrawlInv'
  OBVIOUS
<1>1. CASE VisitPage
  <2>1. PICK listed, taken : toVisit # <<>> /\ Turn(listed, taken)
    BY <1>1, VisitTurns
  <2>2. CrawlTypeOK' /\ CrawlRows'
    BY <2>1, CrawlTypesKept
  <2>3. OrderInv'
    BY <2>1, OrderKept
  <2>4. ASSUME Lossless'
        PROVE  WalkInv' /\ LevelKnown' /\ (Stopped' => toVisit' = <<>>)
    BY <2>1, <2>2, <2>3, <2>4, WalkKept, StopsEmpty
  <2> QED
    BY <2>2, <2>3, <2>4 DEF CrawlInv
<1>2. CASE UNCHANGED crawlVars
  <2> USE <1>2 DEF crawlVars
  <2>1. Reach' = Reach /\ Known' = Known /\ Queued' = Queued
    BY DEF Reach, Follows, Known, Queued
  <2>2. CrawlTypeOK' /\ CrawlRows' /\ OrderInv'
    BY <2>1 DEF CrawlInv, CrawlTypeOK, CrawlRows, OrderInv
  <2>3. Lossless' = Lossless /\ WalkInv' = WalkInv /\ LevelKnown' = LevelKnown /\ Stopped' = Stopped
    BY <2>1 DEF Lossless, Errors, WalkInv, LevelKnown, Follows, At, Stopped
  <2> QED
    BY <2>1, <2>2, <2>3 DEF CrawlInv
<1> QED
  BY <1>1, <1>2

\* The first state satisfies it.
LEMMA CrawlInitially == CrawlInit => CrawlInv
<1> SUFFICES ASSUME CrawlInit PROVE CrawlInv
  OBVIOUS
<1> DEFINE root == [page |-> Root, depth |-> 0]
<1>1. root \in PageRow /\ root.page = Root /\ root.depth = 0
  BY CrawlAssumption DEF PageRow
<1>2. toVisit = <<root>> /\ kept = <<>> /\ visited = {} /\ lost = {}
      /\ links \in Graphs /\ maxPages \in PageLimits
  BY DEF CrawlInit
<1> HIDE DEF root
<1>3. /\ toVisit \in Seq(PageRow) /\ DOMAIN toVisit = {1} /\ Len(toVisit) = 1 /\ toVisit[1] = root
  <2>1. toVisit = <<root>>
    BY <1>2
  <2>2. <<root>> \in Seq(PageRow) /\ DOMAIN <<root>> = {1} /\ Len(<<root>>) = 1 /\ <<root>>[1] = root
    BY <1>1
  <2> QED
    BY <2>1, <2>2
<1>k. kept \in Seq(Result) /\ DOMAIN kept = {} /\ Len(kept) = 0
  <2>1. kept = <<>>
    BY <1>2
  <2>2. <<>> \in Seq(Result) /\ DOMAIN <<>> = {} /\ Len(<<>>) = 0
    OBVIOUS
  <2> QED
    BY <2>1, <2>2
<1>4. Cardinality(visited) = 0 /\ IsFiniteSet(visited)
  BY <1>2, FS_EmptySet
<1>5. CrawlRows
  <2>1. visited \subseteq Pages /\ Len(kept) <= Cardinality(visited)
    BY <1>2, <1>k, <1>4
  <2> QED
    BY <1>2, <1>3, <1>k, <1>4, <2>1 DEF CrawlRows
<1>o. OrderInv
  <2>1. \A i, j \in DOMAIN toVisit : i = 1 /\ j = 1
    BY <1>3
  <2>2. ~(1 < 1) /\ 0 <= 0 + 1
    OBVIOUS
  <2> QED
    BY <1>1, <1>3, <1>k, <2>1, <2>2 DEF OrderInv
<1>6. Queued = {Root}
  BY <1>1, <1>3 DEF Queued
<1>7. CrawlTypeOK
  <2>1. maxPages \in Nat \ {0}
    BY <1>2, CrawlAssumption
  <2>2. Len(kept) <= maxPages /\ Cardinality(visited) + Len(toVisit) <= maxPages
    BY <1>3, <1>k, <1>4, <2>1
  <2>3. \A i, j \in DOMAIN toVisit : i # j => toVisit[i].page # toVisit[j].page
    BY <1>3
  <2>4. stopReason \in StopReasons
    BY DEF CrawlInit, StopReasons
  <2> QED
    BY <1>2, <1>k, <1>6, <2>2, <2>3, <2>4 DEF CrawlTypeOK
<1>8. Reach[0] = {Root} /\ At(Root, 0)
  BY ReachSteps DEF At
<1>9. WalkInv
  <2>1. {kept[i].page : i \in DOMAIN kept} = visited /\ \A p \in visited : FALSE
    BY <1>2, <1>k
  <2>2. \A i \in DOMAIN toVisit : At(toVisit[i].page, toVisit[i].depth)
    BY <1>1, <1>3, <1>8
  <2>3. Root \in Known
    BY <1>6 DEF Known
  <2> QED
    BY <1>k, <2>1, <2>2, <2>3 DEF WalkInv
<1>10. Reach[toVisit[1].depth] \subseteq Known
  BY <1>1, <1>3, <1>6, <1>8 DEF Known
<1> QED
  <2>1. ~Stopped
    BY DEF CrawlInit, Stopped
  <2> QED
    BY <1>2, <1>5, <1>o, <1>7, <1>9, <1>10, <2>1 DEF CrawlInv, LevelKnown

\* What the invariant says when a crawl ends.
LEMMA CrawlImplied == CrawlInv => CrawlTypeOK /\ CompleteWhenNothingLost
<1> SUFFICES ASSUME CrawlInv, Stopped, Lossless
             PROVE  /\ {kept[i].page : i \in DOMAIN kept} = Reach[MaxDepth]
                    /\ \A i \in DOMAIN kept : kept[i].depth = 0 \/ kept[i].page \notin Reach[kept[i].depth - 1]
                    /\ \A i, j \in DOMAIN kept : i < j => kept[i].depth <= kept[j].depth
  BY DEF CrawlInv, CompleteWhenNothingLost, Lossless, Stopped
<1>1. WalkInv /\ toVisit = <<>>
  BY DEF CrawlInv
<1>2. Known = visited
  <2>0. toVisit = <<>>
    BY <1>1
  <2>1. DOMAIN toVisit = {}
    BY <2>0
  <2> QED
    BY <2>1 DEF Known, Queued
<1>3. MaxDepth \in 0..MaxDepth
  BY MaxDepthType
<1>4. Reach[MaxDepth] \subseteq visited
  BY <1>1, <1>2, <1>3, ReachClosed DEF WalkInv
<1>5. \A i \in DOMAIN kept : kept[i].depth \in 0..MaxDepth
  BY RowsTyped DEF Result
<1>6. \A i \in DOMAIN kept : kept[i].page \in Reach[MaxDepth]
  <2> SUFFICES ASSUME NEW i \in DOMAIN kept PROVE kept[i].page \in Reach[MaxDepth]
    OBVIOUS
  <2>1. kept[i].page \in Reach[kept[i].depth]
    BY <1>1 DEF WalkInv, At
  <2>2. kept[i].depth <= MaxDepth
    BY <1>5, MaxDepthType
  <2> QED
    BY <1>3, <1>5, <2>1, <2>2, ReachGrows
<1>7. {kept[i].page : i \in DOMAIN kept} = visited
  BY <1>1 DEF WalkInv
<1>8. \A i \in DOMAIN kept : kept[i].depth = 0 \/ kept[i].page \notin Reach[kept[i].depth - 1]
  <2> SUFFICES ASSUME NEW i \in DOMAIN kept, kept[i].depth # 0 PROVE kept[i].page \notin Reach[kept[i].depth - 1]
    OBVIOUS
  <2>1. kept[i].depth > 0
    BY <1>5, MaxDepthType
  <2> QED
    BY <1>1, <2>1 DEF WalkInv, At
<1>9. \A i, j \in DOMAIN kept : i < j => kept[i].depth <= kept[j].depth
  BY DEF CrawlInv, OrderInv
<1> QED
  BY <1>4, <1>6, <1>7, <1>8, <1>9

-----------------------------------------------------------------------------
(* Requests and searches. *)

\* What the cache holds and what threads do.
Entries == [at : 0..MaxAgeing, body : {"none", "plain"}]
Sources == DOMAIN Upstreams
Asking == [phase : {"asked", "holds", "returned"}, request : Fetches, wanted : BOOLEAN,
           at : Origins, hops : 0..MaxRedirects]
Answering == [phase : {"answered"}, entry : Entries, limit : {0, 1}]
Searching == [phase : {"search", "found"}, strategy : Strategies, left : Seq(Sources),
              completed : SUBSET Sources, lost : SUBSET Sources]
Threads == {Off} \cup Asking \cup Answering \cup Searching

\* A request is where it may be; a search that one route may end has one that did.
InScope(w) ==
  /\ w.hops > 0 => w.request.policy # "none"
  /\ w.at \in {w.request.start} \cup Widened
SingleRoute(w) ==
  w.strategy = "verification" \/ w.completed = {} \/ (w.left = <<>> /\ \E s : w.completed = {s})
Proceeds(t) ==
  /\ web[t] \in Asking => InScope(web[t])
  /\ web[t] \in Searching => SingleRoute(web[t]) /\ (web[t].phase = "found" => Enough(t))

\* Every slot is free or held by a thread.
Holders == {t \in Fetchers : web[t].phase = "holds"}
SlotsInv == IsFiniteSet(Holders) /\ free \in Nat /\ free + Cardinality(Holders) = Slots

\* The inductive invariant of requests and searches.
WebInv ==
  /\ clock \in 1..MaxAgeing /\ cached \in [Fetches -> Entries] /\ exposed \subseteq {Secured}
  /\ web \in [Fetchers -> Threads] /\ \A t \in Fetchers : Proceeds(t)
  /\ SlotsInv

\* The kinds of threads are told apart by their phases.
LEMMA PhasesApart ==
  /\ \A w \in Asking : w \in Threads /\ w \notin Searching /\ w.phase \in {"asked", "holds", "returned"}
  /\ \A w \in Searching : w \in Threads /\ w \notin Asking /\ w.phase \in {"search", "found"}
  /\ \A w \in Answering : w \in Threads /\ w \notin Asking /\ w \notin Searching /\ w.phase = "answered"
  /\ Off \in Threads /\ Off \notin Asking /\ Off \notin Searching /\ Off.phase = "none"
  /\ \A w \in Threads : w.phase \in {"asked", "holds", "returned"} => w \in Asking
  /\ \A w \in Threads : w.phase \in {"search", "found"} => w \in Searching
BY DEF Asking, Searching, Answering, Off, Threads

\* Slots are taken and given back one at a time.
LEMMA SlotMoves ==
  ASSUME WebInv, NEW t \in Fetchers, NEW w, web' = [web EXCEPT ![t] = w],
         \/ web[t].phase # "holds" /\ w.phase # "holds" /\ free' = free
         \/ web[t].phase # "holds" /\ w.phase = "holds" /\ free > 0 /\ free' = free - 1
         \/ web[t].phase = "holds" /\ w.phase # "holds" /\ free' = free + 1
  PROVE  SlotsInv'
<1>1. Holders' = IF w.phase = "holds" THEN Holders \cup {t} ELSE Holders \ {t}
  BY DEF Holders, WebInv
<1>2. IsFiniteSet(Holders) /\ free \in Nat /\ free + Cardinality(Holders) = Slots /\ Cardinality(Holders) \in Nat
  BY FS_CardinalityType DEF WebInv, SlotsInv
<1>3. t \in Holders <=> web[t].phase = "holds"
  BY DEF Holders
<1>4. CASE web[t].phase # "holds" /\ w.phase # "holds" /\ free' = free
  <2>1. Holders' = Holders
    BY <1>1, <1>3, <1>4
  <2> QED
    BY <1>2, <1>4, <2>1 DEF SlotsInv
<1>5. CASE web[t].phase # "holds" /\ w.phase = "holds" /\ free > 0 /\ free' = free - 1
  <2>1. IsFiniteSet(Holders') /\ Cardinality(Holders') = Cardinality(Holders) + 1
    BY <1>1, <1>2, <1>3, <1>5, FS_AddElement
  <2> QED
    BY <1>2, <1>5, <2>1 DEF SlotsInv
<1>6. CASE web[t].phase = "holds" /\ w.phase # "holds" /\ free' = free + 1
  <2>1. IsFiniteSet(Holders') /\ Cardinality(Holders') = Cardinality(Holders) - 1
    BY <1>1, <1>2, <1>3, <1>6, FS_RemoveElement
  <2> QED
    BY <1>2, <1>6, <2>1 DEF SlotsInv
<1> QED
  BY <1>4, <1>5, <1>6

\* One thread moves, and the others proceed.
LEMMA ThreadMoves ==
  ASSUME WebInv, NEW t \in Fetchers, NEW w \in Threads, web' = [web EXCEPT ![t] = w],
         w \in Asking => InScope(w),
         w \in Searching => SingleRoute(w) /\ (w.phase = "found" => Enough(t)')
  PROVE  web' \in [Fetchers -> Threads] /\ \A u \in Fetchers : Proceeds(u)'
<1>1. web' \in [Fetchers -> Threads] /\ web'[t] = w
  BY DEF WebInv
<1>2. Proceeds(t)'
  BY <1>1 DEF Proceeds, InScope, SingleRoute
<1>3. ASSUME NEW u \in Fetchers, u # t PROVE Proceeds(u)'
  <2>1. web'[u] = web[u] /\ Proceeds(u)
    BY <1>3 DEF WebInv
  <2> QED
    BY <2>1 DEF Proceeds, InScope, SingleRoute, Enough
<1> QED
  BY <1>1, <1>2, <1>3

\* A request stays in scope, gives its slot back and stores what needs no credential.
LEMMA FetchesKeep == WebInv /\ FetchNext => WebInv'
<1> SUFFICES ASSUME WebInv, FetchNext PROVE WebInv'
  OBVIOUS
<1>0. /\ clock \in 1..MaxAgeing /\ cached \in [Fetches -> Entries] /\ exposed \subseteq {Secured}
      /\ web \in [Fetchers -> Threads] /\ MaxAgeing \in Nat /\ MaxRedirects \in Nat /\ Secured \in Origins
      /\ Fetches \subseteq [start : Origins, credential : BOOLEAN, method : {"safe", "stateful"},
                            policy : {"none", "safe_get_head", "same_method"}]
  BY WebAssumption DEF WebInv
<1>1. NoEntry \in Entries
  BY <1>0 DEF NoEntry, Entries
<1>2. CASE Ageing
  <2>1. clock' \in 1..MaxAgeing /\ UNCHANGED <<web, free, cached, exposed>>
    BY <1>0, <1>2 DEF Ageing
  <2> QED
    BY <2>1 DEF WebInv, Proceeds, Enough, SlotsInv, Holders
<1>3. ASSUME NEW before, Prune(before) PROVE WebInv'
  <2>1. cached' \in [Fetches -> Entries] /\ UNCHANGED <<clock, web, free, exposed>>
    BY <1>0, <1>1, <1>3 DEF Prune
  <2> QED
    BY <2>1 DEF WebInv, Proceeds, Enough, SlotsInv, Holders
<1>4. ASSUME NEW t \in Fetchers, web[t].phase \in {"asked", "holds", "returned"}
      PROVE  web[t] \in Asking /\ InScope(web[t])
  BY <1>0, <1>4, PhasesApart DEF WebInv, Proceeds
<1>5. ASSUME NEW t \in Fetchers, NEW r \in Fetches, NEW wanted \in BOOLEAN, NEW stale \in {0, 1},
             NEW there \in BOOLEAN, StartFetch(t, r, wanted, stale, there)
      PROVE  WebInv'
  <2> DEFINE answered == [phase |-> "answered", entry |-> cached[r], limit |-> stale]
             fresh == [phase |-> "asked", request |-> r, wanted |-> wanted, at |-> r.start, hops |-> 0]
  <2>1. PICK w \in {answered, fresh} : web' = [web EXCEPT ![t] = w]
    BY <1>5 DEF StartFetch
  <2>2. /\ web[t].phase = "none" /\ UNCHANGED <<clock, free, exposed>>
        /\ \/ cached' = cached
           \/ cached' = [cached EXCEPT ![r] = NoEntry]
    BY <1>5 DEF StartFetch
  <2>3. cached' \in [Fetches -> Entries]
    BY <1>0, <1>1, <2>2
  <2>4. answered \in Answering
    BY <1>0 DEF Answering
  <2>5. fresh \in Asking /\ InScope(fresh)
    BY <1>0 DEF Asking, InScope
  <2>6. w \in Threads /\ w.phase # "holds" /\ (w \in Asking => InScope(w)) /\ w \notin Searching
    BY <2>4, <2>5, PhasesApart
  <2> HIDE DEF answered, fresh
  <2>7. SlotsInv'
    BY <2>1, <2>2, <2>6, SlotMoves
  <2>8. web' \in [Fetchers -> Threads] /\ \A u \in Fetchers : Proceeds(u)'
    BY <2>1, <2>6, ThreadMoves
  <2> QED
    BY <1>0, <2>2, <2>3, <2>7, <2>8 DEF WebInv
<1>6. ASSUME NEW t \in Fetchers, TakeSlot(t) PROVE WebInv'
  <2> DEFINE w == [web[t] EXCEPT !.phase = "holds"]
  <2>1. /\ web[t].phase = "asked" /\ web' = [web EXCEPT ![t] = w] /\ free > 0 /\ free' = free - 1
        /\ UNCHANGED <<clock, cached, exposed>>
    BY <1>6 DEF TakeSlot
  <2>2. w \in Asking /\ InScope(w) /\ w.phase = "holds"
    BY <1>4, <2>1 DEF Asking, InScope
  <2> HIDE DEF w
  <2>3. SlotsInv'
    BY <2>1, <2>2, SlotMoves
  <2>4. web' \in [Fetchers -> Threads] /\ \A u \in Fetchers : Proceeds(u)'
    BY <2>1, <2>2, PhasesApart, ThreadMoves
  <2> QED
    BY <1>0, <2>1, <2>3, <2>4 DEF WebInv
<1>7. ASSUME NEW t \in Fetchers, web' = [web EXCEPT ![t] = Off], web[t].phase # "holds",
             UNCHANGED <<clock, free, exposed>>, cached' \in [Fetches -> Entries]
      PROVE  WebInv'
  <2>1. SlotsInv'
    BY <1>7, PhasesApart, SlotMoves
  <2>2. web' \in [Fetchers -> Threads] /\ \A u \in Fetchers : Proceeds(u)'
    BY <1>7, PhasesApart, ThreadMoves
  <2> QED
    BY <1>0, <1>7, <2>1, <2>2 DEF WebInv
<1>8. ASSUME NEW t \in Fetchers, NEW w \in Threads, web[t].phase = "holds", Exchanged(t),
             web' = [web EXCEPT ![t] = w], w.phase # "holds", w \in Asking => InScope(w),
             w \notin Searching, UNCHANGED <<clock, cached>>
      PROVE  WebInv'
  <2>1. exposed' \subseteq {Secured} /\ free' = free + 1
    BY <1>0, <1>8 DEF Exchanged, Sends
  <2>2. SlotsInv'
    BY <1>8, <2>1, SlotMoves
  <2>3. web' \in [Fetchers -> Threads] /\ \A u \in Fetchers : Proceeds(u)'
    BY <1>8, ThreadMoves
  <2> QED
    BY <1>0, <1>8, <2>1, <2>2, <2>3 DEF WebInv
<1>9. ASSUME NEW t \in Fetchers, SlotTimesOut(t) PROVE WebInv'
  BY <1>0, <1>7, <1>9 DEF SlotTimesOut
<1>10. ASSUME NEW t \in Fetchers, Answered(t) PROVE WebInv'
  BY <1>0, <1>7, <1>10 DEF Answered
<1>11. ASSUME NEW t \in Fetchers, StoreResult(t) PROVE WebInv'
  <2>1. web[t] \in Asking /\ web[t].request \in Fetches
    BY <1>4, <1>11 DEF StoreResult, Asking
  <2>2. cached' \in [Fetches -> Entries]
    BY <1>0, <1>11, <2>1 DEF StoreResult, Cacheable, Keyed, Entries
  <2> QED
    BY <1>7, <1>11, <2>2 DEF StoreResult
<1>12. ASSUME NEW t \in Fetchers, FailExchange(t) PROVE WebInv'
  BY <1>8, <1>12, PhasesApart DEF FailExchange
<1>13. ASSUME NEW t \in Fetchers, web[t].phase = "holds"
       PROVE  /\ [web[t] EXCEPT !.phase = "returned"] \in Asking
              /\ InScope([web[t] EXCEPT !.phase = "returned"])
              /\ [web[t] EXCEPT !.phase = "returned"].phase = "returned"
  BY <1>4, <1>13 DEF Asking, InScope
<1>14. ASSUME NEW t \in Fetchers, Respond(t) PROVE WebInv'
  <2> DEFINE w == [web[t] EXCEPT !.phase = "returned"]
  <2>1. web[t].phase = "holds" /\ Exchanged(t) /\ web' = [web EXCEPT ![t] = w] /\ UNCHANGED <<clock, cached>>
    BY <1>14 DEF Respond
  <2>2. w \in Threads /\ w.phase # "holds" /\ InScope(w) /\ w \notin Searching
    BY <1>13, <2>1, PhasesApart
  <2> HIDE DEF w
  <2> QED
    BY <1>8, <2>1, <2>2
<1>15. ASSUME NEW t \in Fetchers, NEW target \in Origins, Redirect(t, target) PROVE WebInv'
  <2> DEFINE returned == [web[t] EXCEPT !.phase = "returned"]
             followed == [web[t] EXCEPT !.phase = "asked", !.at = target, !.hops = @ + 1]
             Followed(w) == w = followed /\ web[t].request.policy # "none" /\ ~Refused(t, target)
  <2>1. web[t].phase = "holds" /\ Exchanged(t) /\ UNCHANGED <<clock, cached>>
    BY <1>15 DEF Redirect
  <2>2. returned \in Asking /\ InScope(returned) /\ returned.phase = "returned"
    BY <1>13, <2>1
  <2>3. web[t] \in Asking /\ InScope(web[t])
    BY <1>4, <2>1
  <2>4. ASSUME web[t].request.policy # "none", ~Refused(t, target)
        PROVE  followed \in Asking /\ InScope(followed) /\ followed.phase = "asked"
    <3>1. web[t].hops \in 0..MaxRedirects /\ ~(web[t].hops >= MaxRedirects)
          /\ target \in {web[t].request.start} \cup Widened
      BY <2>3, <2>4 DEF Refused, Scope, Asking
    <3> DEFINE more == web[t].hops + 1
    <3>2. more \in 0..MaxRedirects
      BY <1>0, <3>1
    <3>3. followed = [web[t] EXCEPT !.phase = "asked", !.at = target, !.hops = more]
      BY <2>3 DEF Asking
    <3> HIDE DEF more, followed
    <3> QED
      BY <1>0, <2>3, <2>4, <3>1, <3>2, <3>3 DEF Asking, InScope
  <2>5. \/ web' = [web EXCEPT ![t] = returned]
        \/ web' = [web EXCEPT ![t] = Off]
        \/ Followed(followed) /\ web' = [web EXCEPT ![t] = followed]
    BY <1>15 DEF Redirect
  <2> HIDE DEF returned, followed
  <2>6. PICK w : web' = [web EXCEPT ![t] = w] /\ (w = returned \/ w = Off \/ Followed(w))
    BY <2>5
  <2>7. w \in Threads /\ w.phase # "holds" /\ (w \in Asking => InScope(w)) /\ w \notin Searching
    BY <2>2, <2>4, <2>6, PhasesApart
  <2> QED
    BY <1>8, <2>1, <2>6, <2>7
<1> QED
  BY <1>2, <1>3, <1>5, <1>6, <1>9, <1>10, <1>11, <1>12, <1>14, <1>15 DEF FetchNext

\* A search takes its routes in turn.
LEMMA SearchesKeep == WebInv /\ SearchNext => WebInv'
<1> SUFFICES ASSUME WebInv, SearchNext PROVE WebInv'
  OBVIOUS
<1>0. web \in [Fetchers -> Threads] /\ \A t \in Fetchers : Proceeds(t)
  BY DEF WebInv
<1>1. ASSUME NEW t \in Fetchers, NEW w \in Threads, web' = [web EXCEPT ![t] = w],
             web[t].phase # "holds", w.phase # "holds", w \notin Asking,
             w \in Searching => SingleRoute(w) /\ (w.phase = "found" => Enough(t)'),
             UNCHANGED <<clock, free, cached, exposed>>
      PROVE  WebInv'
  <2>1. SlotsInv'
    BY <1>1, SlotMoves
  <2>2. web' \in [Fetchers -> Threads] /\ \A u \in Fetchers : Proceeds(u)'
    BY <1>1, ThreadMoves
  <2> QED
    BY <1>1, <2>1, <2>2 DEF WebInv
<1>2. ASSUME NEW t \in Fetchers, NEW s \in Strategies, NEW n \in DOMAIN Routes,
             StartSearch(t, s, SubSeq(Routes, 1, n))
      PROVE  WebInv'
  <2>1. SubSeq(Routes, 1, n) \in Seq(Sources)
    BY WebAssumption DEF Sources
  <2> DEFINE w == [phase |-> "search", strategy |-> s, left |-> SubSeq(Routes, 1, n),
                   completed |-> {}, lost |-> {}]
  <2>2. web[t].phase = "none" /\ web' = [web EXCEPT ![t] = w] /\ UNCHANGED <<clock, free, cached, exposed>>
    BY <1>2 DEF StartSearch
  <2>3. w \in Searching /\ SingleRoute(w) /\ w.phase = "search"
    BY <2>1 DEF Searching, SingleRoute
  <2> HIDE DEF w
  <2> QED
    BY <1>1, <2>2, <2>3, PhasesApart
<1>3. ASSUME NEW t \in Fetchers, web[t].phase \in {"search", "found"}
      PROVE  web[t] \in Searching /\ SingleRoute(web[t])
  BY <1>0, <1>3, PhasesApart DEF Proceeds
<1>4. ASSUME NEW t \in Fetchers, NEW completes \in BOOLEAN, Route(t, completes) PROVE WebInv'
  <2> DEFINE s == Head(web[t].left)
             stops == web[t].strategy = "direct" \/ (web[t].strategy = "automatic" /\ completes)
             w == [web[t] EXCEPT !.left = IF stops THEN <<>> ELSE Tail(@),
                                 !.completed = IF completes THEN @ \cup {s} ELSE @,
                                 !.lost = IF completes THEN @ ELSE @ \cup {s}]
  <2>1. /\ web[t].phase = "search" /\ web[t].left # <<>> /\ web' = [web EXCEPT ![t] = w]
        /\ UNCHANGED <<clock, free, cached, exposed>>
    BY <1>4 DEF Route
  <2>2. web[t] \in Searching /\ SingleRoute(web[t])
    BY <1>3, <2>1
  <2>3. s \in Sources /\ Tail(web[t].left) \in Seq(Sources)
    BY <2>1, <2>2 DEF Searching
  <2>4. w \in Searching /\ w.phase = "search"
    <3> DEFINE l == IF stops THEN <<>> ELSE Tail(web[t].left)
               c == IF completes THEN web[t].completed \cup {s} ELSE web[t].completed
               x == IF completes THEN web[t].lost ELSE web[t].lost \cup {s}
    <3>1. l \in Seq(Sources) /\ c \in SUBSET Sources /\ x \in SUBSET Sources
      BY <2>2, <2>3 DEF Searching
    <3>2. w = [web[t] EXCEPT !.left = l, !.completed = c, !.lost = x]
      BY <2>2 DEF Searching
    <3> HIDE DEF w, l, c, x
    <3> QED
      BY <2>1, <2>2, <3>1, <3>2 DEF Searching
  <2>5. SingleRoute(w)
    <3>1. /\ w.strategy = web[t].strategy /\ w.strategy \in Strategies
          /\ w.left = IF stops THEN <<>> ELSE Tail(web[t].left)
          /\ w.completed = IF completes THEN web[t].completed \cup {s} ELSE web[t].completed
      BY <2>2 DEF Searching
    <3>2. web[t].strategy # "verification" => web[t].completed = {}
      BY <2>1, <2>2 DEF SingleRoute
    <3> HIDE DEF w, s
    <3> QED
      BY <3>1, <3>2 DEF SingleRoute, Strategies
  <2> HIDE DEF w
  <2> QED
    BY <1>1, <2>1, <2>4, <2>5, PhasesApart
<1>5. ASSUME NEW t \in Fetchers, EndSearch(t) PROVE WebInv'
  <2> DEFINE found == [web[t] EXCEPT !.phase = "found"]
  <2>1. /\ web[t].phase = "search" /\ UNCHANGED <<clock, free, cached, exposed>>
        /\ web' = [web EXCEPT ![t] = IF Enough(t) THEN found ELSE Off]
    BY <1>5 DEF EndSearch
  <2>2. web[t] \in Searching /\ SingleRoute(web[t])
    BY <1>3, <2>1
  <2>3. /\ found \in Searching /\ SingleRoute(found) /\ found.phase = "found"
        /\ found.completed = web[t].completed /\ found.strategy = web[t].strategy
    BY <2>2 DEF Searching, SingleRoute
  <2> HIDE DEF found
  <2>4. CASE Enough(t)
    <3>1. web' = [web EXCEPT ![t] = found] /\ web'[t] = found
      BY <1>0, <2>1, <2>4
    <3>2. Enough(t)'
      BY <2>3, <2>4, <3>1 DEF Enough
    <3> QED
      BY <1>1, <2>1, <2>3, <3>1, <3>2, PhasesApart
  <2>5. CASE ~Enough(t)
    BY <1>1, <2>1, <2>5, PhasesApart
  <2> QED
    BY <2>4, <2>5
<1> QED
  BY <1>2, <1>4, <1>5 DEF SearchNext

\* It holds at first.
LEMMA WebInitially == WebInit => WebInv
<1> SUFFICES ASSUME WebInit PROVE WebInv
  OBVIOUS
<1>1. clock = 1 /\ web = [t \in Fetchers |-> Off] /\ free = Slots /\ exposed = {}
      /\ cached = [r \in Fetches |-> NoEntry]
  BY DEF WebInit
<1>2. clock \in 1..MaxAgeing /\ NoEntry \in Entries /\ Slots \in Nat
  BY <1>1, WebAssumption DEF NoEntry, Entries
<1>3. web \in [Fetchers -> Threads] /\ \A t \in Fetchers : Proceeds(t)
  BY <1>1, PhasesApart DEF Proceeds
<1>4. Holders = {}
  BY <1>1, PhasesApart DEF Holders
<1>5. SlotsInv
  BY <1>1, <1>2, <1>4, FS_EmptySet DEF SlotsInv
<1> QED
  BY <1>1, <1>2, <1>3, <1>5 DEF WebInv

\* What the run checks of requests and searches.
LEMMA WebImplied ==
  ASSUME WebInv
  PROVE  /\ WebTypeOK /\ SlotsBalance /\ CredentialConfined /\ RedirectsInScope
         /\ CredentialedUncached /\ VerifiedTwice
<1>1. ASSUME NEW t \in Fetchers, web[t].phase \in {"asked", "holds", "returned"}
      PROVE  web[t] \in Asking /\ InScope(web[t])
  BY <1>1, PhasesApart DEF WebInv, Proceeds
<1>2. WebTypeOK
  <2>1. free \in 0..Slots
    BY FS_CardinalityType, WebAssumption DEF WebInv, SlotsInv
  <2>2. /\ clock \in 0..MaxAgeing /\ exposed \subseteq Origins
        /\ cached \in [Fetches -> [at : 0..MaxAgeing, body : Bodies]]
    BY WebAssumption DEF WebInv, Entries, Bodies
  <2>3. ASSUME NEW t \in Fetchers, web[t].phase \in {"asked", "holds", "returned"}
        PROVE  web[t].hops <= MaxRedirects /\ (web[t].hops > 0 => web[t].request.policy # "none")
    BY <1>1, <2>3, WebAssumption DEF Asking, InScope
  <2> QED
    BY <2>1, <2>2, <2>3 DEF WebTypeOK
<1>3. SlotsBalance /\ CredentialConfined
  BY DEF WebInv, SlotsInv, Holders, SlotsBalance, CredentialConfined
<1>4. RedirectsInScope
  BY <1>1 DEF RedirectsInScope, InScope
<1>5. CredentialedUncached
  BY DEF WebInv, Entries, CredentialedUncached
<1>6. VerifiedTwice
  <2> SUFFICES ASSUME NEW t \in Fetchers, web[t].phase = "found"
               PROVE  IF web[t].strategy = "verification"
                      THEN \A u \in UNION {Upstreams[s] : s \in web[t].completed} :
                             \E s \in web[t].completed : Upstreams[s] # {u}
                      ELSE Cardinality(web[t].completed) = 1
    BY DEF VerifiedTwice
  <2>1. SingleRoute(web[t]) /\ Enough(t)
    BY PhasesApart DEF WebInv, Proceeds
  <2>2. CASE web[t].strategy # "verification"
    <3>1. PICK s : web[t].completed = {s}
      BY <2>1, <2>2 DEF SingleRoute, Enough
    <3> QED
      BY <2>2, <3>1, FS_Singleton
  <2>3. CASE web[t].strategy = "verification"
    <3> SUFFICES ASSUME NEW u, \A s \in web[t].completed : Upstreams[s] = {u} PROVE FALSE
      BY <2>3
    <3> DEFINE reported == UNION {IF Upstreams[s] = {} THEN {s} ELSE Upstreams[s] : s \in web[t].completed}
    <3>1. reported = {u}
      BY <2>1 DEF Enough
    <3>2. Cardinality({u}) = 1
      BY FS_Singleton
    <3>3. Cardinality(reported) >= 2
      BY <2>1, <2>3 DEF Enough
    <3> HIDE DEF reported
    <3> QED
      BY <3>1, <3>2, <3>3
  <2> QED
    BY <2>2, <2>3
<1> QED
  BY <1>2, <1>3, <1>4, <1>5, <1>6

\* A crawl beside requests and searches.
WebNext ==
  \/ VisitPage /\ UNCHANGED webVars
  \/ (SearchNext \/ FetchNext) /\ UNCHANGED crawlVars
WebSpec == CrawlInit /\ WebInit /\ [][WebNext]_<<crawlVars, webVars>>

\* WebService (web/service.py) and the crawler (web/crawl.py): however requests, searches
\* and the pages of a crawl interleave, slots balance, credentials and redirects stay
\* where they may be, verification rests on two upstreams, and a crawl that says it lost
\* nothing has every page within its depth.
THEOREM WebAlwaysGoverned == WebSpec => []WebGoverned
<1>1. CrawlInit /\ WebInit => CrawlInv /\ WebInv
  BY CrawlInitially, WebInitially
<1>2. CrawlInv /\ WebInv /\ [WebNext]_<<crawlVars, webVars>> => CrawlInv' /\ WebInv'
  <2> SUFFICES ASSUME CrawlInv, WebInv, [WebNext]_<<crawlVars, webVars>> PROVE CrawlInv' /\ WebInv'
    OBVIOUS
  <2>1. ASSUME UNCHANGED webVars PROVE WebInv'
    BY <2>1 DEF webVars, WebInv, Proceeds, Enough, SlotsInv, Holders
  <2>2. [VisitPage]_crawlVars => CrawlInv'
    BY CrawlKept
  <2>3. CASE VisitPage /\ UNCHANGED webVars
    BY <2>1, <2>2, <2>3
  <2>4. CASE (SearchNext \/ FetchNext) /\ UNCHANGED crawlVars
    BY <2>2, <2>4, FetchesKeep, SearchesKeep
  <2>5. CASE UNCHANGED <<crawlVars, webVars>>
    BY <2>1, <2>2, <2>5
  <2> QED
    BY <2>3, <2>4, <2>5 DEF WebNext
<1>3. CrawlInv /\ WebInv => WebGoverned
  BY CrawlImplied, WebImplied DEF WebGoverned
<1> QED
  BY <1>1, <1>2, <1>3, PTL DEF WebSpec

-----------------------------------------------------------------------------
(* Skills. *)

\* Rows of versions; what a thread read and is about to write.
VersionRows ==
  [state : VersionStates, inspection : {"none", "clean", "quarantined"},
   revision : 0..MaxSkillRevision, pinned : BOOLEAN]
Readings ==
  [phase : {"read"}, version : Versions, op : Ops, override : BOOLEAN, row : VersionRows,
   at : Versions \cup {NoVersion}, prior : VersionRows]

\* A version was inspected and, if that quarantined it, overridden.
Cleared(v) == Verdict(v) = "quarantined" => v \in overridden

\* An inspection says what the package is, and what is active was cleared.
RowGoverned(v) ==
  /\ version[v].inspection \in {"none", Verdict(v)}
  /\ version[v].state = "active" \/ pointer[NameOf[v]] = v =>
       version[v].inspection = Verdict(v) /\ Cleared(v) /\ v \in wasActive

\* A row that waits to be written over the version it was read from: without an inspection
\* the version is not active meanwhile, since the lock keeps others from activating it.
ImageGoverned(o) ==
  /\ o.version \in Present /\ o.row.state # "absent"
  /\ o.row.inspection \in {"none", Verdict(o.version)}
  /\ o.row.inspection = "none" =>
       /\ o.op \notin {"decide", "reactivate"} /\ o.row.state # "active"
       /\ version[o.version].state # "active" /\ pointer[NameOf[o.version]] # o.version
  /\ o.row.state = "active" => /\ o.override \/ Cleared(o.version)
                               /\ Activates(o) \/ o.version \in wasActive

\* The row that supersedes the version the pointer named.
PriorGoverned(o) ==
  o.at # NoVersion => /\ o.at \in Present /\ NameOf[o.at] = NameOf[o.version]
                      /\ o.prior.state = "superseded" /\ o.prior.inspection = Verdict(o.at)
                      /\ Cleared(o.at) /\ o.at \in wasActive

\* Types, uses of activated versions, and pointers to versions of their skill.
SkillRows ==
  /\ version \in [Versions -> VersionRows] /\ pointer \in [Names -> Versions \cup {NoVersion}]
  /\ order \in [SkillHands -> Readings \cup {NoOrder}]
  /\ overridden \subseteq Versions /\ wasActive \subseteq Versions /\ used \subseteq wasActive
  /\ invoked # NoUse => invoked.version \in wasActive
  /\ learning \in LearningStates
  /\ \A n \in Names : pointer[n] # NoVersion => pointer[n] \in Present /\ NameOf[pointer[n]] = n

\* A semantic version names one record, and a version has one reader.
Numbered == \A v, w \in Present : v # w => <<NameOf[v], NumberOf[v]>> # <<NameOf[w], NumberOf[w]>>

OneReader ==
  \A g, h \in SkillHands :
    order[g].phase = "read" /\ order[h].phase = "read" /\ order[g].version = order[h].version => g = h

\* The inductive invariant of skills.
SkillsInv ==
  /\ SkillRows /\ Numbered /\ OneReader
  /\ \A v \in Versions : RowGoverned(v)
  /\ \A h \in SkillHands : order[h].phase = "read" => ImageGoverned(order[h]) /\ PriorGoverned(order[h])

\* Types of what the operators return.
LEMMA SkillTypes ==
  /\ \A v \in Versions : Verdict(v) \in {"clean", "quarantined"} /\ NameOf[v] \in Names
  /\ NoOrder.phase = "none" /\ NoOrder \notin Readings /\ \A o \in Readings : o.phase = "read"
  /\ Absent \in VersionRows
  /\ \A row \in VersionRows : row.revision < MaxSkillRevision => Bump(row) \in VersionRows
  /\ \A row \in VersionRows : Bump(row) = [row EXCEPT !.revision = row.revision + 1]
BY SkillsAssumption DEF Verdict, Names, NoOrder, Readings, Absent, VersionRows, Bump, VersionStates

\* A reading outlives the commands on other versions.
LEMMA ReadingStays ==
  ASSUME SkillsInv, NEW h \in SkillHands, order[h].phase = "read", order'[h] = order[h],
         Present \subseteq Present', overridden \subseteq overridden', wasActive \subseteq wasActive',
         version[order[h].version].state # "active" => version'[order[h].version].state # "active",
         pointer[NameOf[order[h].version]] # order[h].version
           => pointer'[NameOf[order[h].version]] # order[h].version
  PROVE  (ImageGoverned(order[h]) /\ PriorGoverned(order[h]))'
<1>1. ImageGoverned(order[h]) /\ PriorGoverned(order[h])
  BY DEF SkillsInv
<1>2. \A v : Cleared(v) => Cleared(v)'
  BY DEF Cleared
<1>3. ImageGoverned(order[h])'
  BY <1>1, <1>2 DEF ImageGoverned, Activates
<1>4. PriorGoverned(order[h])'
  BY <1>1, <1>2 DEF PriorGoverned
<1> QED
  BY <1>3, <1>4

\* A row that is neither active nor what the pointer names may change.
LEMMA VersionMoves ==
  ASSUME SkillsInv, NEW v \in Versions, NEW row \in VersionRows,
         version' = [version EXCEPT ![v] = row], row.state \notin {"absent", "active"},
         row.inspection \in {"none", Verdict(v)}, pointer[NameOf[v]] # v,
         \A w \in Present \ {v} : NameOf[w] = NameOf[v] => NumberOf[w] # NumberOf[v],
         UNCHANGED <<pointer, order, overridden, wasActive, invoked, used>>, learning' \in LearningStates
  PROVE  SkillsInv'
<1>1. version' \in [Versions -> VersionRows] /\ Present' = Present \cup {v}
  BY DEF SkillsInv, SkillRows, Present
<1>2. SkillRows'
  BY <1>1 DEF SkillsInv, SkillRows
<1>3. Numbered'
  BY <1>1 DEF SkillsInv, Numbered
<1>4. OneReader'
  BY DEF SkillsInv, OneReader
<1>5. ASSUME NEW w \in Versions PROVE RowGoverned(w)'
  <2>1. RowGoverned(w) /\ (w # v => version'[w] = version[w]) /\ version'[v] = row
    BY DEF SkillsInv, SkillRows
  <2> QED
    BY <2>1 DEF RowGoverned, Cleared
<1>6. ASSUME NEW h \in SkillHands, order[h].phase = "read"
      PROVE  (ImageGoverned(order[h]) /\ PriorGoverned(order[h]))'
  <2>1. \A w \in Versions : version[w].state # "active" => version'[w].state # "active"
    BY DEF SkillsInv, SkillRows
  <2>2. order[h].version \in Versions
    BY <1>6 DEF SkillsInv, ImageGoverned, Present
  <2> QED
    BY <1>1, <1>6, <2>1, <2>2, ReadingStays
<1> QED
  BY <1>2, <1>3, <1>4, <1>5, <1>6 DEF SkillsInv

\* A version enters as a candidate.
LEMMA EnterKeeps ==
  ASSUME SkillsInv, NEW v \in Versions, Enter(v), learning' \in LearningStates,
         UNCHANGED <<pointer, order, overridden, wasActive, invoked, used>>
  PROVE  SkillsInv'
<1> DEFINE row == [version[v] EXCEPT !.state = "candidate", !.revision = 1]
<1>1. version[v] \in VersionRows /\ version[v].state = "absent" /\ v \notin Present
  BY DEF SkillsInv, SkillRows, Enter, Present
<1>2. row \in VersionRows /\ row.state = "candidate" /\ row.inspection = version[v].inspection
  <2>1. 1 \in 0..MaxSkillRevision
    BY SkillsAssumption
  <2> QED
    BY <1>1, <2>1 DEF VersionRows, VersionStates
<1>3. version' = [version EXCEPT ![v] = row]
  BY DEF Enter, SkillsInv, SkillRows
<1>4. row.inspection \in {"none", Verdict(v)}
  BY <1>2 DEF SkillsInv, RowGoverned
<1>5. pointer[NameOf[v]] # v
  BY <1>1, SkillTypes, SkillsAssumption DEF SkillsInv, SkillRows
<1>6. \A w \in Present \ {v} : NameOf[w] = NameOf[v] => NumberOf[w] # NumberOf[v]
  BY DEF Enter
<1> HIDE DEF row
<1> QED
  BY <1>2, <1>3, <1>4, <1>5, <1>6, VersionMoves

\* Its inspection is recorded once.
LEMMA SealKeeps ==
  ASSUME SkillsInv, NEW v \in Versions, Seal(v), learning' \in LearningStates,
         UNCHANGED <<pointer, order, overridden, wasActive, invoked, used>>
  PROVE  SkillsInv'
<1> DEFINE row == [Bump(version[v]) EXCEPT
                     !.inspection = Verdict(v),
                     !.state = IF v \in Harmful THEN "quarantined" ELSE "eligible"]
<1>1. /\ version[v] \in VersionRows /\ version[v].state = "candidate" /\ version[v].inspection = "none"
      /\ version[v].revision = 1 /\ v \in Present
  BY DEF SkillsInv, SkillRows, Seal, Present
<1>2. Bump(version[v]) \in VersionRows
  BY <1>1, SkillTypes, SkillsAssumption
<1>3. row \in VersionRows /\ row.state \in {"quarantined", "eligible"} /\ row.inspection = Verdict(v)
  <2> HIDE DEF Bump, Verdict
  <2> QED
    BY <1>2, SkillTypes DEF VersionRows, VersionStates
<1>4. version' = [version EXCEPT ![v] = row]
  BY DEF Seal
<1>5. pointer[NameOf[v]] # v
  BY <1>1, SkillTypes DEF SkillsInv, RowGoverned
<1>6. \A w \in Present \ {v} : NameOf[w] = NameOf[v] => NumberOf[w] # NumberOf[v]
  BY <1>1 DEF SkillsInv, Numbered
<1> HIDE DEF row
<1> QED
  BY <1>3, <1>4, <1>5, <1>6, VersionMoves

\* What a command reads is founded on the row as it is.
LEMMA ReadKeeps ==
  ASSUME SkillsInv, NEW h \in SkillHands, NEW v \in Versions, NEW command \in Commands,
         ReadRows(h, v, command)
  PROVE  SkillsInv'
<1> DEFINE row == version[v]
           at == pointer[NameOf[v]]
           image == [Bump(row) EXCEPT !.state = Target(command, row),
                                      !.pinned = CASE command.op = "pin" -> TRUE
                                                   [] command.op = "unpin" -> FALSE
                                                   [] OTHER -> row.pinned]
           prior == IF at = NoVersion THEN Absent ELSE [Bump(version[at]) EXCEPT !.state = "superseded"]
           o == [phase |-> "read", version |-> v, op |-> command.op, override |-> command.override,
                 row |-> image, at |-> at, prior |-> prior]
<1>0. /\ command.op \in Ops /\ command.override \in BOOLEAN /\ command.disposition \in Dispositions
      /\ command.op # "decide" => command.disposition = "allow"
      /\ command.override => command.op \in {"decide", "reactivate"}
  BY DEF Commands
<1>1. /\ order[h] = NoOrder /\ v \in Present /\ ~Locked(v) /\ Permitted(command, row)
      /\ \A w \in {v, at} \ {NoVersion} : version[w].revision < MaxSkillRevision
      /\ order' = [order EXCEPT ![h] = o]
      /\ UNCHANGED <<version, pointer, overridden, wasActive, invoked, used, learning>>
  BY DEF ReadRows
<1>2. /\ row \in VersionRows /\ at \in Versions \cup {NoVersion} /\ row.state # "absent"
      /\ at # NoVersion => at \in Present /\ NameOf[at] = NameOf[v] /\ version[at] \in VersionRows
      /\ order \in [SkillHands -> Readings \cup {NoOrder}]
  BY <1>1, SkillTypes DEF SkillsInv, SkillRows, Present
<1>3. Bump(row) \in VersionRows /\ Bump(row).inspection = row.inspection
  <2>1. row.revision < MaxSkillRevision
    BY <1>1, SkillsAssumption
  <2> QED
    BY <1>2, <2>1, SkillTypes DEF VersionRows
<1>4. Target(command, row) \in VersionStates \ {"absent"}
  BY <1>0, <1>2 DEF Target, Ops, Dispositions, VersionStates, VersionRows
<1>5. /\ image \in VersionRows /\ image.state = Target(command, row)
      /\ image.inspection = row.inspection
  <2>1. (CASE command.op = "pin" -> TRUE [] command.op = "unpin" -> FALSE [] OTHER -> row.pinned) \in BOOLEAN
    BY <1>2 DEF VersionRows
  <2> HIDE DEF row
  <2> QED
    BY <1>3, <1>4, <2>1 DEF VersionRows
<1>6. /\ prior \in VersionRows
      /\ at # NoVersion => prior.state = "superseded" /\ prior.inspection = version[at].inspection
  <2>1. CASE at = NoVersion
    BY <2>1, SkillTypes
  <2>2. CASE at # NoVersion
    <3>1. Bump(version[at]) \in VersionRows /\ Bump(version[at]).inspection = version[at].inspection
      BY <1>1, <1>2, <2>2, SkillTypes DEF VersionRows
    <3>2. prior = [Bump(version[at]) EXCEPT !.state = "superseded"]
      BY <2>2
    <3> HIDE DEF prior, at
    <3> QED
      BY <3>1, <3>2 DEF VersionRows, VersionStates
  <2> QED
    BY <2>1, <2>2
<1> HIDE DEF image, prior
<1>7. o \in Readings
  BY <1>0, <1>2, <1>5, <1>6 DEF Readings
<1>8. RowGoverned(v) /\ (at # NoVersion => RowGoverned(at))
  BY <1>2 DEF SkillsInv, Present
<1>9. ImageGoverned(o)
  <2>1. image.inspection \in {"none", Verdict(v)} /\ image.state # "absent"
    BY <1>4, <1>5, <1>8 DEF RowGoverned
  <2>2. ASSUME image.inspection = "none"
        PROVE  /\ command.op \notin {"decide", "reactivate"} /\ image.state # "active"
               /\ version[v].state # "active" /\ at # v
    <3>1. command.op \notin {"decide", "reactivate"}
      BY <1>1, <1>5, <2>2 DEF Permitted
    <3>2. version[v].state # "active" /\ at # v
      BY <1>5, <1>8, <2>2, SkillTypes DEF RowGoverned
    <3>3. Target(command, row) # "active"
      BY <1>0, <3>1, <3>2 DEF Target, Ops
    <3> QED
      BY <1>5, <3>1, <3>2, <3>3
  <2>3. ASSUME image.state = "active"
        PROVE  /\ command.override \/ Cleared(v)
               /\ command.op \in {"decide", "reactivate"} \/ v \in wasActive
    <3>1. CASE command.op \in {"pin", "unpin"}
      <4>1. version[v].state = "active"
        BY <1>5, <2>3, <3>1 DEF Target
      <4> QED
        BY <1>8, <4>1 DEF RowGoverned
    <3>2. CASE command.op \in {"decide", "reactivate"}
      <4>1. row.inspection = "quarantined" => command.override
        BY <1>0, <1>1, <1>5, <2>3, <3>2 DEF Target, Permitted, Dispositions
      <4>2. row.inspection = Verdict(v)
        BY <2>1, <2>2, <1>5, <3>2
      <4> QED
        BY <3>2, <4>1, <4>2 DEF Cleared
    <3>3. CASE command.op = "archive"
      BY <1>5, <2>3, <3>3 DEF Target
    <3> QED
      BY <1>0, <3>1, <3>2, <3>3 DEF Ops
  <2> QED
    BY <1>1, <2>1, <2>2, <2>3 DEF ImageGoverned, Activates
<1>10. PriorGoverned(o)
  BY <1>2, <1>6, <1>8, SkillTypes DEF PriorGoverned, RowGoverned
<1> HIDE DEF o
<1>11. order' \in [SkillHands -> Readings \cup {NoOrder}] /\ order'[h] = o
  BY <1>1, <1>2, <1>7
<1>12. SkillRows' /\ Numbered' /\ \A w \in Versions : RowGoverned(w)'
  BY <1>1, <1>11 DEF SkillsInv, SkillRows, Numbered, Present, RowGoverned, Cleared
<1>13. OneReader'
  <2>1. o.version = v
    BY DEF o
  <2>2. \A g \in SkillHands : g # h => order'[g] = order[g]
    BY <1>1, <1>2
  <2>3. \A g \in SkillHands \ {h} : ~(order'[g].phase = "read" /\ order'[g].version = v)
    BY <1>1, <2>2 DEF Locked
  <2> QED
    BY <1>11, <2>1, <2>2, <2>3 DEF SkillsInv, OneReader
<1>14. ASSUME NEW g \in SkillHands, order'[g].phase = "read"
       PROVE  (ImageGoverned(order[g]) /\ PriorGoverned(order[g]))'
  <2>1. CASE g = h
    <3>1. order'[g] = o
      BY <1>11, <2>1
    <3> QED
      BY <1>1, <1>9, <1>10, <3>1 DEF ImageGoverned, PriorGoverned, Cleared, Activates, Present
  <2>2. CASE g # h
    <3>1. order'[g] = order[g]
      BY <1>1, <1>2, <2>2
    <3> QED
      BY <1>1, <1>14, <3>1, ReadingStays DEF Present
  <2> QED
    BY <2>1, <2>2
<1> QED
  BY <1>12, <1>13, <1>14 DEF SkillsInv

\* Writing what was read keeps what is active cleared, whatever was written meanwhile.
LEMMA WriteKeeps ==
  ASSUME SkillsInv, NEW h \in SkillHands, WriteRows(h)
  PROVE  SkillsInv'
<1>0. PICK v : v = order[h].version
  OBVIOUS
<1> DEFINE o == order[h]
           n == NameOf[v]
           fails == Activates(o) /\ ((o.at = NoVersion) # (pointer[n] = NoVersion))
           rows == IF Activates(o) /\ o.at \notin {NoVersion, v}
                   THEN [version EXCEPT ![v] = o.row, ![o.at] = o.prior]
                   ELSE [version EXCEPT ![v] = o.row]
           moved == CASE Activates(o) -> [pointer EXCEPT ![n] = v]
                      [] o.op = "archive" /\ o.at = v -> [pointer EXCEPT ![n] = NoVersion]
                      [] OTHER -> pointer
<1>1. /\ o.phase = "read" /\ order' = [order EXCEPT ![h] = NoOrder]
      /\ UNCHANGED <<invoked, used, learning>>
      /\ IF fails THEN UNCHANGED <<version, pointer, overridden, wasActive>>
         ELSE /\ version' = rows /\ pointer' = moved
              /\ overridden' = (IF o.override THEN overridden \cup {v} ELSE overridden)
              /\ wasActive' = (IF Activates(o) THEN wasActive \cup {v} ELSE wasActive)
  BY <1>0 DEF WriteRows
<1>2. /\ order \in [SkillHands -> Readings \cup {NoOrder}] /\ o \in Readings
      /\ version \in [Versions -> VersionRows] /\ pointer \in [Names -> Versions \cup {NoVersion}]
  BY <1>1, SkillTypes DEF SkillsInv, SkillRows
<1>3. ImageGoverned(o) /\ PriorGoverned(o)
  BY <1>1 DEF SkillsInv
<1>4. /\ v \in Versions /\ v \in Present /\ n \in Names /\ o.row \in VersionRows /\ o.prior \in VersionRows
      /\ o.at \in Versions \cup {NoVersion} /\ v # NoVersion
  BY <1>0, <1>2, <1>3, SkillTypes, SkillsAssumption DEF Readings, ImageGoverned
<1>5. /\ order' \in [SkillHands -> Readings \cup {NoOrder}] /\ order'[h].phase = "none"
      /\ \A g \in SkillHands \ {h} : order'[g] = order[g]
  BY <1>1, <1>2, SkillTypes
<1>6. OneReader'
  BY <1>5 DEF SkillsInv, OneReader
<1>7. CASE fails
  <2>1. UNCHANGED <<version, pointer, overridden, wasActive, invoked, used, learning>>
    BY <1>1, <1>7
  <2> HIDE DEF o, fails
  <2>2. SkillRows' /\ Numbered' /\ \A w \in Versions : RowGoverned(w)'
    BY <1>5, <2>1 DEF SkillsInv, SkillRows, Numbered, Present, RowGoverned, Cleared
  <2>3. ASSUME NEW g \in SkillHands, order'[g].phase = "read"
        PROVE  (ImageGoverned(order[g]) /\ PriorGoverned(order[g]))'
    <3>1. order'[g] = order[g]
      BY <1>5, <2>3
    <3> QED
      BY <2>1, <2>3, <3>1, ReadingStays DEF Present
  <2> QED
    BY <1>6, <2>2, <2>3 DEF SkillsInv
<1>8. CASE ~fails
  <2>1. /\ version' = rows /\ pointer' = moved /\ UNCHANGED <<invoked, used, learning>>
        /\ overridden' = (IF o.override THEN overridden \cup {v} ELSE overridden)
        /\ wasActive' = (IF Activates(o) THEN wasActive \cup {v} ELSE wasActive)
    BY <1>1, <1>8
  <2> HIDE DEF fails
  <2>2. /\ version' \in [Versions -> VersionRows] /\ version'[v] = o.row
        /\ \A w \in Versions \ {v} :
             version'[w] = version[w] \/ (Activates(o) /\ w = o.at /\ version'[w] = o.prior)
    <3>1. CASE Activates(o) /\ o.at \notin {NoVersion, v}
      <4>1. version' = [version EXCEPT ![v] = o.row, ![o.at] = o.prior] /\ o.at \in Versions /\ o.at # v
        BY <1>4, <2>1, <3>1
      <4> HIDE DEF o
      <4> QED
        BY <1>2, <1>4, <3>1, <4>1
    <3>2. CASE ~(Activates(o) /\ o.at \notin {NoVersion, v})
      <4>1. version' = [version EXCEPT ![v] = o.row]
        BY <2>1, <3>2
      <4> HIDE DEF o
      <4> QED
        BY <1>2, <1>4, <4>1
    <3> QED
      BY <3>1, <3>2
  <2>3. /\ pointer' \in [Names -> Versions \cup {NoVersion}]
        /\ Activates(o) => pointer'[n] = v
        /\ ~Activates(o) => pointer'[n] = pointer[n] \/ pointer'[n] = NoVersion
        /\ \A m \in Names \ {n} : pointer'[m] = pointer[m]
    <3>1. CASE Activates(o)
      <4>1. pointer' = [pointer EXCEPT ![n] = v]
        <5>1. ~(o.op = "archive" /\ o.at = v)
          BY <3>1 DEF Activates
        <5> HIDE DEF o, n
        <5> QED
          BY <2>1, <3>1, <5>1
      <4> HIDE DEF o, n
      <4> QED
        BY <1>2, <1>4, <3>1, <4>1
    <3>2. CASE ~Activates(o) /\ o.op = "archive" /\ o.at = v
      <4>1. pointer' = [pointer EXCEPT ![n] = NoVersion]
        BY <2>1, <3>2
      <4> HIDE DEF o, n
      <4> QED
        BY <1>2, <1>4, <3>2, <4>1
    <3>3. CASE ~Activates(o) /\ ~(o.op = "archive" /\ o.at = v)
      <4>1. pointer' = pointer
        BY <2>1, <3>3
      <4> HIDE DEF o, n
      <4> QED
        BY <1>2, <1>4, <3>3, <4>1
    <3> QED
      BY <3>1, <3>2, <3>3
  <2> HIDE DEF rows, moved
  <2>4. /\ o.at # NoVersion => /\ o.at \in Present /\ NameOf[o.at] = n /\ o.prior.state = "superseded"
                               /\ o.prior.inspection = Verdict(o.at) /\ Cleared(o.at) /\ o.at \in wasActive
        /\ o.row.state # "absent" /\ o.row.inspection \in {"none", Verdict(v)}
        /\ o.row.inspection = "none" => /\ ~Activates(o) /\ o.row.state # "active"
                                        /\ version[v].state # "active" /\ pointer[n] # v
        /\ o.row.state = "active" => /\ o.override \/ Cleared(v)
                                     /\ Activates(o) \/ v \in wasActive
        /\ Activates(o) => o.row.state = "active"
    BY <1>0, <1>3 DEF ImageGoverned, PriorGoverned, Activates
  <2> HIDE DEF o, n
  <2>5. Present' = Present
    <3>1. \A w \in Versions : version'[w].state = "absent" <=> version[w].state = "absent"
      BY <1>4, <2>2, <2>4, SkillsAssumption DEF Present
    <3> QED
      BY <3>1 DEF Present
  <2>6. overridden \subseteq overridden' /\ wasActive \subseteq wasActive'
        /\ overridden' \subseteq Versions /\ wasActive' \subseteq Versions
    BY <1>4, <2>1 DEF SkillsInv, SkillRows
  <2>7. SkillRows'
    <3>1. \A m \in Names : pointer'[m] # NoVersion => pointer'[m] \in Present /\ NameOf[pointer'[m]] = m
      <4>1. \A m \in Names : pointer[m] # NoVersion => pointer[m] \in Present /\ NameOf[pointer[m]] = m
        BY DEF SkillsInv, SkillRows
      <4>2. NameOf[v] = n
        BY DEF n
      <4> QED
        BY <1>4, <2>3, <4>1, <4>2
    <3> QED
      BY <1>5, <2>1, <2>2, <2>3, <2>5, <2>6, <3>1 DEF SkillsInv, SkillRows
  <2>8. Numbered'
    BY <2>5 DEF SkillsInv, Numbered
  <2>9. \A w : Cleared(w) => Cleared(w)'
    BY <2>6 DEF Cleared
  <2>10. RowGoverned(v)'
    <3>1. RowGoverned(v) /\ NameOf[v] = n
      BY <1>4 DEF SkillsInv, n
    <3>2. ASSUME o.row.state = "active" \/ pointer'[n] = v
          PROVE  o.row.inspection = Verdict(v) /\ Cleared(v)' /\ v \in wasActive'
      <4>1. CASE o.row.state = "active"
        BY <2>1, <2>4, <2>6, <2>9, <4>1 DEF Cleared
      <4>2. CASE o.row.state # "active"
        <5>1. ~Activates(o) /\ pointer[n] = v
          BY <1>4, <2>3, <2>4, <3>2, <4>2
        <5> QED
          BY <2>4, <2>6, <2>9, <3>1, <5>1 DEF RowGoverned
      <4> QED
        BY <4>1, <4>2
    <3> QED
      BY <2>2, <2>4, <3>1, <3>2 DEF RowGoverned
  <2>11. ASSUME NEW w \in Versions \ {v} PROVE RowGoverned(w)'
    <3>1. RowGoverned(w) /\ NameOf[w] \in Names
      BY SkillTypes DEF SkillsInv
    <3>2. pointer'[NameOf[w]] = w => pointer[NameOf[w]] = w
      BY <2>3, <3>1, SkillsAssumption
    <3>3. CASE version'[w] = version[w]
      BY <2>6, <2>9, <3>1, <3>2, <3>3 DEF RowGoverned
    <3>4. CASE w = o.at /\ version'[w] = o.prior
      BY <2>4, <2>6, <2>9, <3>4, SkillsAssumption DEF RowGoverned
    <3> QED
      BY <2>2, <3>3, <3>4
  <2>12. ASSUME NEW g \in SkillHands, order'[g].phase = "read"
         PROVE  (ImageGoverned(order[g]) /\ PriorGoverned(order[g]))'
    <3>1. g # h /\ order'[g] = order[g] /\ order[g].phase = "read"
      BY <1>5, <2>12
    <3>2. order[g].version # v /\ order[g].version \in Versions
      BY <1>0, <1>1, <3>1 DEF SkillsInv, OneReader, ImageGoverned, Present, o
    <3> DEFINE w == order[g].version
    <3>3. version[w].state # "active" => version'[w].state # "active"
      BY <2>2, <2>4, <3>2, SkillsAssumption
    <3>4. pointer[NameOf[w]] # w => pointer'[NameOf[w]] # w
      BY <2>3, <3>2, SkillTypes, SkillsAssumption
    <3> HIDE DEF w
    <3>5. w = order[g].version
      BY DEF w
    <3> QED
      BY <2>5, <2>6, <3>1, <3>3, <3>4, <3>5, ReadingStays
  <2> QED
    BY <1>6, <2>7, <2>8, <2>10, <2>11, <2>12 DEF SkillsInv
<1> QED
  BY <1>7, <1>8

\* The invariant is inductive.
LEMMA SkillsKept == SkillsInv /\ [SkillsNext]_skillVars => SkillsInv'
<1> SUFFICES ASSUME SkillsInv, [SkillsNext]_skillVars PROVE SkillsInv'
  OBVIOUS
<1>1. ASSUME UNCHANGED <<version, pointer, order, overridden, wasActive>>,
             used' \subseteq wasActive, invoked' # NoUse => invoked'.version \in wasActive,
             learning' \in LearningStates
      PROVE  SkillsInv'
  BY <1>1 DEF SkillsInv, SkillRows, Numbered, OneReader, RowGoverned, ImageGoverned, PriorGoverned,
              Cleared, Activates, Present
<1>2. /\ used \subseteq wasActive /\ (invoked # NoUse => invoked.version \in wasActive)
      /\ learning \in LearningStates
  BY DEF SkillsInv, SkillRows
<1>3. CASE Learn
  <2>1. UNCHANGED <<pointer, order, overridden, wasActive, invoked, used>> /\ learning' \in LearningStates
    BY <1>3 DEF Learn, LearningStates
  <2>2. UNCHANGED version \/ Enter(Learned) \/ Seal(Learned)
    BY <1>3 DEF Learn
  <2> QED
    BY <1>1, <1>2, <2>1, <2>2, EnterKeeps, SealKeeps, SkillsAssumption
<1>4. CASE LearnFails
  BY <1>1, <1>2, <1>4 DEF LearnFails, LearningStates
<1>5. CASE RecordUse
  BY <1>1, <1>2, <1>5 DEF RecordUse
<1>6. ASSUME NEW v \in Versions, RegisterCandidate(v) \/ Inspect(v) PROVE SkillsInv'
  BY <1>2, <1>6, EnterKeeps, SealKeeps DEF RegisterCandidate, Inspect
<1>7. ASSUME NEW n \in Names, NEW available \in SUBSET Tools, ResolveUse(n, available) PROVE SkillsInv'
  <2>1. PICK v \in Candidates(n) : invoked' = [name |-> n, version |-> v]
    BY <1>7 DEF ResolveUse
  <2>2. v \in wasActive
    <3>1. v \in Versions /\ (version[v].state = "active" \/ pointer[NameOf[v]] = v)
      BY <1>7 DEF Candidates, SkillsInv, SkillRows, Present
    <3> QED
      BY <3>1 DEF SkillsInv, RowGoverned
  <2>3. invoked'.version = v
    BY <2>1
  <2> QED
    BY <1>1, <1>2, <1>7, <2>2, <2>3 DEF ResolveUse
<1>8. ASSUME UNCHANGED skillVars PROVE SkillsInv'
  BY <1>1, <1>2, <1>8 DEF skillVars
<1> QED
  BY <1>3, <1>4, <1>5, <1>6, <1>7, <1>8, ReadKeeps, WriteKeeps DEF SkillsNext

\* It holds at first.
LEMMA SkillsInitially == SkillsInit => SkillsInv
<1> SUFFICES ASSUME SkillsInit PROVE SkillsInv
  OBVIOUS
<1>1. /\ version = [v \in Versions |-> Absent] /\ pointer = [m \in Names |-> NoVersion]
      /\ order = [h \in SkillHands |-> NoOrder] /\ overridden = {} /\ wasActive = {}
      /\ invoked = NoUse /\ used = {} /\ learning = "none"
  BY DEF SkillsInit
<1>2. Present = {} /\ \A v \in Versions : version[v] = Absent /\ NameOf[v] \in Names
  BY <1>1, SkillTypes DEF Present, Absent
<1>3. SkillRows
  BY <1>1, <1>2, SkillTypes DEF SkillRows, LearningStates
<1>4. ASSUME NEW v \in Versions PROVE RowGoverned(v)
  <2>1. version[v].inspection = "none" /\ version[v].state = "absent" /\ pointer[NameOf[v]] # v
    BY <1>1, <1>2, SkillsAssumption DEF Absent
  <2> QED
    BY <2>1 DEF RowGoverned
<1>5. \A h \in SkillHands : order[h].phase = "none"
  BY <1>1, SkillTypes
<1> QED
  BY <1>2, <1>3, <1>4, <1>5 DEF SkillsInv, Numbered, OneReader

SkillsSpec == SkillsInit /\ [][SkillsNext]_skillVars

\* skills/repository.py, service.py and learning.py: with commands that write the images of
\* rows they read earlier, what is active or used went through its inspection or an explicit
\* override, and a settled learning request stays settled.
THEOREM SkillsAlwaysGoverned == SkillsSpec => SkillsGoverned
<1> DEFINE StaysSettled == learning \in {"proposed", "refused", "failed"} => learning' = learning
<1>1. SkillsInit => SkillsInv
  BY SkillsInitially
<1>2. SkillsInv /\ [SkillsNext]_skillVars => SkillsInv'
  BY SkillsKept
<1>3. SkillsInv => SkillsTypeOK /\ ActiveInspected /\ UsedWereActivated
  <2> SUFFICES ASSUME SkillsInv PROVE SkillsTypeOK /\ ActiveInspected /\ UsedWereActivated
    OBVIOUS
  <2>1. SkillsTypeOK
    <3>1. \A h \in SkillHands : order[h].phase \in {"none", "read"}
      BY SkillTypes DEF SkillsInv, SkillRows
    <3> QED
      BY <3>1 DEF SkillsInv, SkillRows, Numbered, SkillsTypeOK, VersionRows
  <2>2. ActiveInspected
    BY SkillTypes DEF SkillsInv, RowGoverned, Cleared, ActiveInspected
  <2>3. UsedWereActivated
    BY DEF SkillsInv, SkillRows, UsedWereActivated
  <2> QED
    BY <2>1, <2>2, <2>3
<1>4. [SkillsNext]_skillVars => [StaysSettled]_skillVars
  <2> SUFFICES ASSUME SkillsNext, learning \in {"proposed", "refused", "failed"} PROVE learning' = learning
    OBVIOUS
  <2>1. ~Learn /\ ~LearnFails
    BY DEF Learn, LearnFails
  <2> QED
    BY <2>1 DEF SkillsNext, RecordUse, RegisterCandidate, Inspect, ResolveUse, WriteRows, ReadRows
<1> QED
  BY <1>1, <1>2, <1>3, <1>4, PTL DEF SkillsSpec, SkillsGoverned, SettledLearningStays
=============================================================================
