------------------------- MODULE CommandLedgerProofs -------------------------
(***************************************************************************)
(* For any commands, contents, requests, targets and crashes: the ledger   *)
(* keeps its types, performs no effect twice, accepts at most one of the   *)
(* commands that expect one revision, and implements CommandPromise.  For  *)
(* any models, policy and bounds, a plan is carried out within them.  For  *)
(* any policy documents and actors, what commands do was granted to them.  *)
(***************************************************************************)
EXTENDS CommandLedger, CommandAuthority, PlanPipeline, FiniteSetTheorems, TLAPS

\* What a receipt says of the effect and of the task behind it.
ReceiptInv ==
  \A c \in Commands :
    /\ receipt[c].status = "none" => performed[c] = 0 /\ task[c].phase = "none"
    /\ receipt[c].status = "reserved" => performed[c] \in {0, 1}
    /\ receipt[c].status = "accepted" => performed[c] = 1
    /\ receipt[c].status = "refused" => performed[c] \in {0, 1} /\ task[c].phase = "none"
    /\ receipt[c].status # "none" => receipt[c].content \in Contents
    /\ task[c].phase # "none" =>
         task[c].content = receipt[c].content /\ receipt[c].content \in Contents
    /\ task[c].phase \in {"waiting", "locked", "verified"} =>
         receipt[c].status = "reserved" /\ performed[c] = 0
    /\ task[c].phase = "performed" => receipt[c].status = "reserved" /\ performed[c] = 1
    /\ task[c].phase = "running" => receipt[c].status = "accepted"

\* An accepted command moved its target past the revision it expected.
PassedInv ==
  \A c \in Commands :
    receipt[c].status = "accepted" /\ Expected[receipt[c].content] # AnyRevision
    => Expected[receipt[c].content] < revision[TargetOf[c]]

LedgerInv == LedgerTypeOK /\ ReceiptInv /\ PassedInv /\ AcceptedExclusive

-----------------------------------------------------------------------------
\* AnyRevision is a number, whatever the commands.
LEMMA AnyRevisionType == AnyRevision \in Nat
BY LedgerAssumption, FS_CardinalityType DEF AnyRevision

\* The initial ledger satisfies the invariant.
LEMMA LedgerInitially == Init => LedgerInv
BY LedgerAssumption
   DEF Init, LedgerInv, LedgerTypeOK, ReceiptInv, PassedInv, AcceptedExclusive, Idle, Free,
       Phases, Replies, Statuses

\* The client's side of a step: the task ends, or an answer is recorded.
LEMMA FinishTypes ==
  ASSUME LedgerTypeOK, NEW c \in Commands, NEW reply \in Replies, Finish(c, reply),
         task[c].content \in Contents
  PROVE  /\ task' = [task EXCEPT ![c] = Idle]
         /\ task' \in [Commands -> [phase : Phases, content : Contents \cup {NoContent}]]
         /\ held' \in [Targets -> Commands \cup {Free}]
         /\ request' \in [Requests -> {"idle", "answered"} \cup Commands]
         /\ answers' \in [Commands -> SUBSET (Contents \X Replies)]
<1>1. task' = [task EXCEPT ![c] = Idle]
  BY DEF Finish
<1>2. task' \in [Commands -> [phase : Phases, content : Contents \cup {NoContent}]]
  BY <1>1 DEF LedgerTypeOK, Idle, Phases
<1>3. held' \in [Targets -> Commands \cup {Free}]
  BY DEF LedgerTypeOK, Finish
<1>4. request' \in [Requests -> {"idle", "answered"} \cup Commands]
  BY DEF LedgerTypeOK, Finish
<1>5. answers' \in [Commands -> SUBSET (Contents \X Replies)]
  <2>1. <<task[c].content, reply>> \in Contents \X Replies
    OBVIOUS
  <2> QED BY <2>1 DEF LedgerTypeOK, Finish
<1> QED BY <1>1, <1>2, <1>3, <1>4, <1>5

\* A receipt is written for one command, and its target's revision stays or advances.
LEMMA AcceptKeepsExclusion ==
  ASSUME LedgerInv, NEW c \in Commands, NEW k \in Contents,
         receipt[c].status # "accepted", Current(c, k),
         Settled(c, "accepted", k), Advance(c)
  PROVE  PassedInv' /\ AcceptedExclusive' /\ revision' \in [Targets -> Nat]
<1> USE LedgerAssumption, AnyRevisionType DEF LedgerInv, LedgerTypeOK
<1> DEFINE t == TargetOf[c]
<1>1. t \in Targets /\ revision[t] \in Nat
  OBVIOUS
<1>2. revision' = [revision EXCEPT ![t] = @ + 1]
  BY DEF Advance
<1>3. revision' \in [Targets -> Nat]
  BY <1>1, <1>2
<1>4. \A u \in Targets : revision[u] <= revision'[u]
  BY <1>1, <1>2
<1>5. revision'[t] = revision[t] + 1
  BY <1>1, <1>2
<1>6. /\ receipt'[c].status = "accepted" /\ receipt'[c].content = k
      /\ \A d \in Commands : d # c => receipt'[d] = receipt[d]
  BY DEF Settled
<1>7. Expected[k] = AnyRevision \/ Expected[k] = revision[t]
  BY DEF Current
<1>8. Expected[k] \in Nat
  OBVIOUS
<1>9. PassedInv'
  <2> SUFFICES ASSUME NEW d \in Commands, receipt'[d].status = "accepted",
                      Expected[receipt'[d].content] # AnyRevision
               PROVE  Expected[receipt'[d].content] < revision'[TargetOf[d]]
    BY DEF PassedInv, AnyRevision
  <2>1. CASE d = c
    BY <2>1, <1>1, <1>5, <1>6, <1>7, <1>8
  <2>2. CASE d # c
    <3>1. receipt[d].content \in Contents
      BY <2>2, <1>6 DEF ReceiptInv
    <3>2. Expected[receipt[d].content] \in Nat
      BY <3>1
    <3>3. Expected[receipt[d].content] < revision[TargetOf[d]]
      BY <2>2, <1>6 DEF PassedInv
    <3>4. TargetOf[d] \in Targets
      OBVIOUS
    <3>5. revision[TargetOf[d]] \in Nat /\ revision'[TargetOf[d]] \in Nat
      BY <3>4, <1>3
    <3> QED BY <2>2, <3>2, <3>3, <3>4, <3>5, <1>4, <1>6
  <2> QED BY <2>1, <2>2
<1>10. AcceptedExclusive'
  <2> SUFFICES ASSUME NEW a \in Commands, NEW b \in Commands, a # b, TargetOf[a] = TargetOf[b],
                      receipt'[a].status = "accepted", receipt'[b].status = "accepted",
                      Expected[receipt'[a].content] # AnyRevision
               PROVE  Expected[receipt'[a].content] # Expected[receipt'[b].content]
    BY DEF AcceptedExclusive, AnyRevision
  <2>1. CASE a = c
    <3>1. receipt[b].status = "accepted" /\ receipt'[b] = receipt[b]
      BY <2>1, <1>6
    <3>2. Expected[k] # AnyRevision /\ Expected[k] = revision[t]
      BY <2>1, <1>6, <1>7
    <3>3. receipt[b].content \in Contents
      BY <3>1 DEF ReceiptInv
    <3>4. CASE Expected[receipt[b].content] = AnyRevision
      BY <2>1, <3>1, <3>2, <3>4, <1>6
    <3>5. CASE Expected[receipt[b].content] # AnyRevision
      <4>1. Expected[receipt[b].content] < revision[t]
        BY <2>1, <3>1, <3>5 DEF PassedInv
      <4>2. Expected[receipt[b].content] \in Nat
        BY <3>3
      <4>3. Expected[receipt[b].content] # revision[t]
        BY <4>1, <4>2, <1>1
      <4> QED BY <2>1, <3>1, <3>2, <4>3, <1>6
    <3> QED BY <3>4, <3>5
  <2>2. CASE b = c
    <3>1. receipt[a].status = "accepted" /\ receipt'[a] = receipt[a]
      BY <2>2, <1>6
    <3>2. Expected[receipt[a].content] < revision[t]
      BY <2>2, <3>1 DEF PassedInv
    <3>3. Expected[receipt[a].content] \in Nat
      BY <3>1 DEF ReceiptInv
    <3>4. Expected[receipt[a].content] # revision[t]
      BY <3>2, <3>3, <1>1
    <3> QED BY <2>2, <3>1, <3>4, <1>6, <1>7
  <2>3. CASE a # c /\ b # c
    BY <2>3, <1>6 DEF AcceptedExclusive
  <2> QED BY <2>1, <2>2, <2>3
<1> QED BY <1>3, <1>9, <1>10

\* Any other receipt leaves accepted ones and the revisions alone.
LEMMA OtherReceiptKeepsExclusion ==
  ASSUME LedgerInv, NEW c \in Commands, NEW k \in Contents,
         NEW status \in {"reserved", "refused"}, receipt[c].status # "accepted",
         Settled(c, status, k), UNCHANGED revision
  PROVE  PassedInv' /\ AcceptedExclusive'
<1>1. /\ receipt'[c].status # "accepted"
      /\ \A d \in Commands : d # c => receipt'[d] = receipt[d]
  BY DEF Settled, LedgerInv, LedgerTypeOK
<1>2. \A d \in Commands : receipt'[d].status = "accepted" => receipt'[d] = receipt[d]
  BY <1>1
<1>3. PassedInv'
  BY <1>2 DEF LedgerInv, PassedInv, AnyRevision
<1>4. AcceptedExclusive'
  BY <1>2 DEF LedgerInv, AcceptedExclusive, AnyRevision
<1> QED BY <1>3, <1>4

\* The exclusion parts look at receipts and revisions only.
LEMMA ExclusionStutters ==
  ASSUME LedgerInv, UNCHANGED <<receipt, revision>>
  PROVE  PassedInv' /\ AcceptedExclusive'
BY DEF LedgerInv, PassedInv, AcceptedExclusive, AnyRevision

\* Every submission keeps the invariant.
LEMMA SubmitKeeps ==
  ASSUME LedgerInv, NEW r \in Requests, NEW c \in Commands, NEW k \in Contents, Submit(r, c, k)
  PROVE  LedgerInv'
<1> USE LedgerAssumption, AnyRevisionType
<1>t. LedgerTypeOK /\ ReceiptInv
  BY DEF LedgerInv
<1>r. ASSUME NEW reply \in Replies, Reply(r, c, k, reply)
      PROVE  /\ request' \in [Requests -> {"idle", "answered"} \cup Commands]
             /\ answers' \in [Commands -> SUBSET (Contents \X Replies)]
  <2>1. <<k, reply>> \in Contents \X Replies
    OBVIOUS
  <2> QED BY <2>1, <1>t, <1>r DEF Reply, LedgerTypeOK
<1>1. CASE Join(r, c, k)
  <2>1. LedgerTypeOK'
    BY <1>1, <1>t DEF Join, LedgerTypeOK, ledgerVars, daemonVars
  <2>2. ReceiptInv'
    BY <1>1, <1>t DEF Join, ReceiptInv, ledgerVars, daemonVars
  <2>3. PassedInv' /\ AcceptedExclusive'
    BY <1>1, ExclusionStutters DEF Join, ledgerVars
  <2> QED BY <2>1, <2>2, <2>3 DEF LedgerInv
<1>2. CASE Duplicate(r, c, k) \/ Replay(r, c, k) \/ StaleNew(r, c, k)
  <2>1. UNCHANGED <<receipt, revision, performed, task, held, crashes>>
    BY <1>2 DEF Duplicate, Replay, StaleNew, ledgerVars, daemonVars
  <2>2. PICK reply \in Replies : Reply(r, c, k, reply)
    <3>1. CASE Duplicate(r, c, k)
      BY <3>1 DEF Duplicate, Replies
    <3>2. CASE StaleNew(r, c, k)
      BY <3>2 DEF StaleNew, Replies
    <3>3. CASE Replay(r, c, k)
      <4>1. Stored(c) \in Replies
        BY <3>3, <1>t DEF Replay, Stored, Known, Replies, Statuses, LedgerTypeOK
      <4> QED BY <3>3, <4>1 DEF Replay
    <3> QED BY <1>2, <3>1, <3>2, <3>3
  <2>3. LedgerTypeOK'
    BY <2>1, <2>2, <1>r, <1>t DEF LedgerTypeOK
  <2>4. ReceiptInv'
    BY <2>1, <1>t DEF ReceiptInv
  <2>5. PassedInv' /\ AcceptedExclusive'
    BY <2>1, ExclusionStutters
  <2> QED BY <2>3, <2>4, <2>5 DEF LedgerInv
<1>3. CASE RefuseNew(r, c, k)
  <2>1. Reply(r, c, k, "refused") /\ Settled(c, "refused", k)
        /\ UNCHANGED <<revision, performed, task, held, crashes>>
        /\ receipt[c].status = "none" /\ task[c].phase = "none"
    BY <1>3 DEF RefuseNew, daemonVars, Known, Active
  <2>2. LedgerTypeOK'
    <3>1. "refused" \in Replies
      BY DEF Replies, Statuses
    <3> QED BY <2>1, <3>1, <1>r, <1>t DEF LedgerTypeOK, Settled
  <2>3. ReceiptInv'
    BY <2>1, <1>t DEF ReceiptInv, Settled, LedgerTypeOK
  <2>4. PassedInv' /\ AcceptedExclusive'
    BY <2>1, OtherReceiptKeepsExclusion
  <2> QED BY <2>2, <2>3, <2>4 DEF LedgerInv
<1>4. CASE MutateNew(r, c, k)
  <2>1. Reply(r, c, k, "accepted") /\ Settled(c, "accepted", k) /\ Advance(c) /\ Current(c, k)
        /\ UNCHANGED <<task, held, crashes>> /\ performed' = [performed EXCEPT ![c] = @ + 1]
        /\ receipt[c].status = "none" /\ task[c].phase = "none"
    BY <1>4 DEF MutateNew, daemonVars, Known, Active
  <2>2. PassedInv' /\ AcceptedExclusive' /\ revision' \in [Targets -> Nat]
    BY <2>1, AcceptKeepsExclusion
  <2>3. LedgerTypeOK'
    <3>1. "accepted" \in Replies
      BY DEF Replies, Statuses
    <3>2. performed' \in [Commands -> Nat]
      BY <2>1, <1>t DEF LedgerTypeOK
    <3> QED BY <2>1, <2>2, <3>1, <3>2, <1>r, <1>t DEF LedgerTypeOK, Settled
  <2>4. ReceiptInv'
    BY <2>1, <1>t DEF ReceiptInv, Settled, LedgerTypeOK
  <2> QED BY <2>2, <2>3, <2>4 DEF LedgerInv
<1>5. CASE ReserveNew(r, c, k)
  <2>1. Settled(c, "reserved", k) /\ task' = [task EXCEPT ![c] = [phase |-> "waiting", content |-> k]]
        /\ UNCHANGED <<revision, performed, held, answers, crashes>>
        /\ request' = [request EXCEPT ![r] = c]
        /\ receipt[c].status = "none" /\ task[c].phase = "none"
    BY <1>5 DEF ReserveNew, Known, Active
  <2>2. LedgerTypeOK'
    BY <2>1, <1>t DEF LedgerTypeOK, Settled, Phases
  <2>3. ReceiptInv'
    BY <2>1, <1>t DEF ReceiptInv, Settled, LedgerTypeOK
  <2>4. PassedInv' /\ AcceptedExclusive'
    BY <2>1, OtherReceiptKeepsExclusion
  <2> QED BY <2>2, <2>3, <2>4 DEF LedgerInv
<1> QED BY <1>1, <1>2, <1>3, <1>4, <1>5 DEF Submit

\* Every step of a task keeps the invariant.
LEMMA StepKeeps ==
  ASSUME LedgerInv, NEW c \in Commands, TakeLock(c) \/ Step(c)
  PROVE  LedgerInv'
<1> USE LedgerAssumption, AnyRevisionType
<1>t. LedgerTypeOK /\ ReceiptInv
  BY DEF LedgerInv
<1>c. task[c].phase # "none" => task[c].content \in Contents
  BY <1>t DEF ReceiptInv
<1>1. CASE TakeLock(c) \/ Verify(c)
  <2>1. /\ UNCHANGED <<receipt, revision, performed, request, answers, crashes>>
        /\ \E phase \in {"locked", "verified"} : task' = [task EXCEPT ![c].phase = phase]
        /\ task[c].phase \in {"waiting", "locked"}
        /\ held' \in [Targets -> Commands \cup {Free}]
    <3>1. CASE TakeLock(c)
      BY <3>1, <1>t DEF TakeLock, Progress, ledgerVars, clientVars, LedgerTypeOK
    <3>2. CASE Verify(c)
      BY <3>2, <1>t DEF Verify, Progress, ledgerVars, clientVars, LedgerTypeOK
    <3> QED BY <1>1, <3>1, <3>2
  <2>2. LedgerTypeOK'
    BY <2>1, <1>t DEF LedgerTypeOK, Phases
  <2>3. ReceiptInv'
    BY <2>1, <1>t DEF ReceiptInv, LedgerTypeOK
  <2>4. PassedInv' /\ AcceptedExclusive'
    BY <2>1, ExclusionStutters
  <2> QED BY <2>2, <2>3, <2>4 DEF LedgerInv
<1>2. CASE VerifyFails(c) \/ DispatchFails(c)
  <2>1. /\ Settled(c, "refused", task[c].content) /\ Finish(c, "refused")
        /\ UNCHANGED <<revision, performed, crashes>>
        /\ task[c].phase \in {"locked", "verified", "performed"}
    BY <1>2 DEF VerifyFails, DispatchFails
  <2>2. task[c].content \in Contents /\ receipt[c].status = "reserved" /\ "refused" \in Replies
    BY <2>1, <1>c, <1>t DEF ReceiptInv, Replies, Statuses
  <2>3. LedgerTypeOK'
    BY <2>1, <2>2, <1>t, FinishTypes DEF LedgerTypeOK, Settled
  <2>4. ReceiptInv'
    <3>1. task' = [task EXCEPT ![c] = Idle]
      BY <2>1 DEF Finish
    <3> QED BY <2>1, <2>2, <3>1, <1>t DEF ReceiptInv, Settled, LedgerTypeOK, Idle
  <2>5. PassedInv' /\ AcceptedExclusive'
    BY <2>1, <2>2, OtherReceiptKeepsExclusion
  <2> QED BY <2>3, <2>4, <2>5 DEF LedgerInv
<1>3. CASE PerformEffect(c)
  <2>1. /\ UNCHANGED <<receipt, revision, held, request, answers, crashes>>
        /\ task' = [task EXCEPT ![c].phase = "performed"]
        /\ performed' = [performed EXCEPT ![c] = @ + 1]
        /\ task[c].phase \in {"waiting", "verified"}
    BY <1>3 DEF PerformEffect, Progress, clientVars
  <2>2. LedgerTypeOK'
    BY <2>1, <1>t DEF LedgerTypeOK, Phases
  <2>3. ReceiptInv'
    BY <2>1, <1>t DEF ReceiptInv, LedgerTypeOK
  <2>4. PassedInv' /\ AcceptedExclusive'
    BY <2>1, ExclusionStutters
  <2> QED BY <2>2, <2>3, <2>4 DEF LedgerInv
<1>4. CASE Complete(c)
  <2>1. /\ Settled(c, "accepted", task[c].content) /\ Advance(c) /\ Finish(c, "accepted")
        /\ Current(c, task[c].content) /\ UNCHANGED <<performed, crashes>>
        /\ task[c].phase = "performed"
    BY <1>4 DEF Complete
  <2>2. /\ task[c].content \in Contents /\ receipt[c].status = "reserved" /\ performed[c] = 1
        /\ "accepted" \in Replies
    BY <2>1, <1>c, <1>t DEF ReceiptInv, Replies, Statuses
  <2>3. PassedInv' /\ AcceptedExclusive' /\ revision' \in [Targets -> Nat]
    BY <2>1, <2>2, AcceptKeepsExclusion
  <2>4. LedgerTypeOK'
    BY <2>1, <2>2, <2>3, <1>t, FinishTypes DEF LedgerTypeOK, Settled
  <2>5. ReceiptInv'
    <3>1. task' = [task EXCEPT ![c] = Idle]
      BY <2>1 DEF Finish
    <3> QED BY <2>1, <2>2, <3>1, <1>t DEF ReceiptInv, Settled, LedgerTypeOK, Idle
  <2> QED BY <2>3, <2>4, <2>5 DEF LedgerInv
<1>5. CASE TaskRaises(c) \/ RunReturns(c)
  <2>1. /\ \E reply \in {"error", "accepted"} : Finish(c, reply)
        /\ UNCHANGED <<receipt, revision, performed, crashes>>
        /\ task[c].phase # "none"
    BY <1>5 DEF TaskRaises, RunReturns, ledgerVars
  <2>2. PICK reply \in {"error", "accepted"} : Finish(c, reply)
    BY <2>1
  <2>3. task[c].content \in Contents /\ reply \in Replies
    BY <2>1, <1>c DEF Replies, Statuses
  <2>4. LedgerTypeOK'
    BY <2>1, <2>2, <2>3, <1>t, FinishTypes DEF LedgerTypeOK
  <2>5. ReceiptInv'
    <3>1. task' = [task EXCEPT ![c] = Idle]
      BY <2>2 DEF Finish
    <3> QED BY <2>1, <3>1, <1>t DEF ReceiptInv, LedgerTypeOK, Idle
  <2>6. PassedInv' /\ AcceptedExclusive'
    BY <2>1, ExclusionStutters
  <2> QED BY <2>4, <2>5, <2>6 DEF LedgerInv
<1>6. CASE AcceptRun(c)
  <2>1. /\ Settled(c, "accepted", task[c].content) /\ Advance(c)
        /\ task' = [task EXCEPT ![c].phase = "running"]
        /\ Current(c, task[c].content)
        /\ UNCHANGED <<performed, held, request, answers, crashes>>
        /\ task[c].phase = "performed"
    BY <1>6 DEF AcceptRun, Progress, clientVars
  <2>2. task[c].content \in Contents /\ receipt[c].status = "reserved" /\ performed[c] = 1
    BY <2>1, <1>c, <1>t DEF ReceiptInv
  <2>3. PassedInv' /\ AcceptedExclusive' /\ revision' \in [Targets -> Nat]
    BY <2>1, <2>2, AcceptKeepsExclusion
  <2>4. LedgerTypeOK'
    BY <2>1, <2>2, <2>3, <1>t DEF LedgerTypeOK, Settled, Phases
  <2>5. ReceiptInv'
    BY <2>1, <2>2, <1>t DEF ReceiptInv, Settled, LedgerTypeOK
  <2> QED BY <2>3, <2>4, <2>5 DEF LedgerInv
<1> QED BY <1>1, <1>2, <1>3, <1>4, <1>5, <1>6 DEF Step

\* A crash forgets tasks, locks and waiting requests only.
LEMMA CrashKeeps == LedgerInv /\ Crash => LedgerInv'
<1> SUFFICES ASSUME LedgerInv, Crash PROVE LedgerInv'
  OBVIOUS
<1>1. LedgerTypeOK'
  <2>1. crashes' \in 0..MaxCrashes
    BY LedgerAssumption DEF LedgerInv, LedgerTypeOK, Crash
  <2> QED BY <2>1 DEF LedgerInv, LedgerTypeOK, Crash, Idle, Phases, ledgerVars
<1>2. ReceiptInv'
  BY DEF LedgerInv, ReceiptInv, Crash, Idle, ledgerVars
<1>3. PassedInv' /\ AcceptedExclusive'
  BY ExclusionStutters DEF Crash, ledgerVars
<1> QED BY <1>1, <1>2, <1>3 DEF LedgerInv

\* Every step of clients, tasks and crashes keeps the invariant.
LEMMA LedgerStep == LedgerInv /\ [Next]_vars => LedgerInv'
<1> SUFFICES ASSUME LedgerInv, [Next]_vars PROVE LedgerInv'
  OBVIOUS
<1>1. ASSUME NEW r \in Requests, NEW c \in Commands, NEW k \in Contents, Submit(r, c, k)
      PROVE  LedgerInv'
  BY <1>1, SubmitKeeps
<1>2. ASSUME NEW c \in Commands, TakeLock(c) \/ Step(c) PROVE LedgerInv'
  BY <1>2, StepKeeps
<1>3. CASE Crash
  BY <1>3, CrashKeeps
<1>4. CASE UNCHANGED vars
  <2>1. UNCHANGED <<receipt, revision, performed, task, held, request, answers, crashes>>
    BY <1>4 DEF vars, ledgerVars, daemonVars, clientVars
  <2>2. LedgerTypeOK' /\ ReceiptInv'
    BY <2>1 DEF LedgerInv, LedgerTypeOK, ReceiptInv
  <2>3. PassedInv' /\ AcceptedExclusive'
    BY <2>1, ExclusionStutters
  <2> QED BY <2>2, <2>3 DEF LedgerInv
<1> QED BY <1>1, <1>2, <1>3, <1>4 DEF Next

-----------------------------------------------------------------------------
\* The invariant holds in every reachable state of the ledger.
THEOREM LedgerInvHolds == Spec => []LedgerInv
<1>1. Init => LedgerInv
  BY LedgerInitially
<1>2. LedgerInv /\ [Next]_vars => LedgerInv'
  BY LedgerStep
<1> QED BY <1>1, <1>2, PTL DEF Spec

\* Every receipt, revision, task, lock and answer keeps its type.
THEOREM LedgerTypeCorrect == Spec => []LedgerTypeOK
<1>1. LedgerInv => LedgerTypeOK
  BY DEF LedgerInv
<1> QED BY <1>1, LedgerInvHolds, PTL

\* No command identity performs its effect twice: replays, concurrent submissions,
\* joins and crashes between reservation, effect and receipt included.
THEOREM EffectsOnce == Spec => []EffectOnce
<1>1. LedgerInv => EffectOnce
  <2> SUFFICES ASSUME LedgerInv, NEW c \in Commands PROVE performed[c] <= 1
    BY DEF EffectOnce
  <2>1. receipt[c].status \in {"none", "reserved", "accepted", "refused"}
    BY DEF LedgerInv, LedgerTypeOK
  <2>2. performed[c] \in {0, 1}
    BY <2>1 DEF LedgerInv, ReceiptInv
  <2> QED BY <2>2
<1> QED BY <1>1, LedgerInvHolds, PTL

\* Of the commands that expect one revision of a target at most one is ever accepted.
THEOREM AcceptancesExclude == Spec => []AcceptedExclusive
<1>1. LedgerInv => AcceptedExclusive
  BY DEF LedgerInv
<1> QED BY <1>1, LedgerInvHolds, PTL

-----------------------------------------------------------------------------
(* The parts of the record that the receipts alone do not give: the locks    *)
(* of the targets, the answers clients were given and the revisions.         *)

\* Who works on a target under its lock, and which commands work at all.
LockInv ==
  \A c \in Commands :
    /\ task[c].phase \in {"locked", "verified"} => c \notin RunCommands
    /\ task[c].phase # "none" => c \notin Mutations
    /\ task[c].phase \in {"locked", "verified", "performed"} /\ c \notin RunCommands
         => held[TargetOf[c]] = c

\* What was looked at under the lock is still so.
CurrentInv == \A c \in Guarded : task[c].phase = "verified" => Current(c, task[c].content)

\* An answer from a receipt is the receipt's own, for good.
AnswerInv ==
  \A c \in Commands : \A x \in answers[c] : x[2] \in Statuses =>
    /\ Known(c) /\ receipt[c].content = x[1] /\ Stored(c) = x[2]
    /\ x[2] = "interrupted" => ~Active(c)

RecordInv == LockInv /\ CurrentInv /\ AnswerInv /\ RevisionCountsAccepted

\* The accepted commands on t.
AcceptedOn(t) == {c \in Commands : TargetOf[c] = t /\ receipt[c].status = "accepted"}

\* Receipts that are not accepted and stay so leave the count of acceptances alone.
LEMMA CountStays ==
  ASSUME RevisionCountsAccepted, UNCHANGED revision,
         \A c \in Commands : receipt'[c].status = "accepted" <=> receipt[c].status = "accepted"
  PROVE  RevisionCountsAccepted'
<1> SUFFICES ASSUME NEW t \in Targets
             PROVE  revision'[t] = Cardinality(AcceptedOn(t)')
  BY DEF RevisionCountsAccepted, AcceptedOn
<1>1. AcceptedOn(t)' = AcceptedOn(t)
  BY DEF AcceptedOn
<1> QED BY <1>1 DEF RevisionCountsAccepted, AcceptedOn

\* An acceptance and the revision it advances are counted together.
LEMMA CountAdvances ==
  ASSUME LedgerTypeOK, RevisionCountsAccepted, NEW c \in Commands, NEW k \in Contents,
         receipt[c].status # "accepted", Settled(c, "accepted", k), Advance(c)
  PROVE  RevisionCountsAccepted'
<1> SUFFICES ASSUME NEW t \in Targets
             PROVE  revision'[t] = Cardinality(AcceptedOn(t)')
  BY DEF RevisionCountsAccepted, AcceptedOn
<1>1. /\ receipt'[c].status = "accepted"
      /\ \A d \in Commands : d # c => receipt'[d] = receipt[d]
  BY DEF Settled, LedgerTypeOK
<1>2. revision[t] = Cardinality(AcceptedOn(t)) /\ revision[t] \in Nat
  BY DEF RevisionCountsAccepted, AcceptedOn, LedgerTypeOK
<1>3. CASE TargetOf[c] = t
  <2>1. AcceptedOn(t)' = AcceptedOn(t) \cup {c} /\ c \notin AcceptedOn(t)
    BY <1>1, <1>3 DEF AcceptedOn
  <2>2. IsFiniteSet(AcceptedOn(t))
    BY LedgerAssumption, FS_Subset DEF AcceptedOn
  <2>3. Cardinality(AcceptedOn(t) \cup {c}) = Cardinality(AcceptedOn(t)) + 1
    BY <2>1, <2>2, FS_AddElement
  <2>4. revision'[t] = revision[t] + 1
    BY <1>2, <1>3 DEF Advance, LedgerTypeOK
  <2> QED BY <1>2, <2>1, <2>3, <2>4
<1>4. CASE TargetOf[c] # t
  <2>1. AcceptedOn(t)' = AcceptedOn(t)
    BY <1>1, <1>4 DEF AcceptedOn
  <2>2. revision'[t] = revision[t]
    BY <1>4, LedgerAssumption DEF Advance, LedgerTypeOK
  <2> QED BY <1>2, <2>1, <2>2
<1> QED BY <1>3, <1>4

\* The initial ledger has an empty record.
LEMMA RecordInitially == Init => RecordInv
<1> SUFFICES ASSUME Init PROVE RecordInv
  OBVIOUS
<1>1. LockInv /\ CurrentInv /\ AnswerInv
  BY DEF Init, LockInv, CurrentInv, Guarded, AnswerInv, Idle
<1>2. RevisionCountsAccepted
  <2> SUFFICES ASSUME NEW t \in Targets PROVE revision[t] = Cardinality(AcceptedOn(t))
    BY DEF RevisionCountsAccepted, AcceptedOn
  <2>1. AcceptedOn(t) = {}
    BY DEF Init, AcceptedOn
  <2> QED BY <2>1, FS_EmptySet DEF Init
<1> QED BY <1>1, <1>2 DEF RecordInv

\* How a step changes the answers to c: not at all, or by one that its content's receipt gives.
AnswerGiven(c, k, reply) ==
  /\ \A d \in Commands : answers'[d] \subseteq answers[d] \cup (IF d = c THEN {<<k, reply>>} ELSE {})
  /\ reply \in Statuses =>
       receipt'[c].content = k /\ Stored(c)' = reply /\ Known(c)'
       /\ (reply = "interrupted" => ~Active(c)')

\* Answers stay true while known receipts keep their content and settled ones their status.
LEMMA AnswersStay ==
  ASSUME LedgerTypeOK, AnswerInv, NEW c \in Commands, NEW k, NEW reply, AnswerGiven(c, k, reply),
         \A d \in Commands : Known(d) /\ (Stored(d) = "interrupted" => ~Active(d)) =>
           /\ Known(d)' /\ receipt'[d].content = receipt[d].content /\ Stored(d)' = Stored(d)
           /\ ~Active(d) => ~Active(d)'
  PROVE  AnswerInv'
<1> SUFFICES ASSUME NEW d \in Commands, NEW x \in answers'[d], x[2] \in Statuses
             PROVE  /\ Known(d)' /\ receipt'[d].content = x[1] /\ Stored(d)' = x[2]
                    /\ x[2] = "interrupted" => ~Active(d)'
  BY DEF AnswerInv, Statuses
<1>1. CASE x \in answers[d]
  BY <1>1 DEF AnswerInv
<1>2. CASE x \notin answers[d]
  <2>1. d = c /\ x = <<k, reply>>
    BY <1>2 DEF AnswerGiven
  <2> QED BY <2>1 DEF AnswerGiven
<1> QED BY <1>1, <1>2

\* Every submission keeps the record.
LEMMA SubmitRecords ==
  ASSUME LedgerInv, RecordInv, NEW r \in Requests, NEW c \in Commands, NEW k \in Contents,
         Submit(r, c, k)
  PROVE  RecordInv'
<1>t. LedgerTypeOK /\ ReceiptInv /\ LockInv /\ CurrentInv /\ AnswerInv /\ RevisionCountsAccepted
  BY DEF LedgerInv, RecordInv
<1>1. CASE Join(r, c, k) \/ Duplicate(r, c, k) \/ Replay(r, c, k) \/ StaleNew(r, c, k)
  <2>1. UNCHANGED <<receipt, revision, performed, task, held>>
    BY <1>1 DEF Join, Duplicate, Replay, StaleNew, ledgerVars, daemonVars
  <2>2. LockInv' /\ CurrentInv'
    BY <2>1, <1>t DEF LockInv, CurrentInv, Current, AnyRevision
  <2>3. RevisionCountsAccepted'
    BY <2>1, <1>t, CountStays
  <2>4. \E reply : AnswerGiven(c, k, reply)
    <3>1. CASE Join(r, c, k)
      BY <3>1 DEF Join, AnswerGiven, Statuses
    <3>2. CASE Duplicate(r, c, k)
      <4>1. AnswerGiven(c, k, "duplicate")
        BY <3>2, <1>t DEF Duplicate, Reply, AnswerGiven, Statuses, LedgerTypeOK
      <4> QED BY <4>1
    <3>3. CASE StaleNew(r, c, k)
      <4>1. AnswerGiven(c, k, "stale")
        BY <3>3, <1>t DEF StaleNew, Reply, AnswerGiven, Statuses, LedgerTypeOK
      <4> QED BY <4>1
    <3>4. CASE Replay(r, c, k)
      <4>1. AnswerGiven(c, k, Stored(c))
        BY <3>4, <2>1, <1>t DEF Replay, Reply, AnswerGiven, LedgerTypeOK, Stored, Known, Active
      <4> QED BY <4>1
    <3> QED BY <1>1, <3>1, <3>2, <3>3, <3>4
  <2>5. AnswerInv'
    <3>1. PICK reply : AnswerGiven(c, k, reply)
      BY <2>4
    <3> QED BY <3>1, <2>1, <1>t, AnswersStay DEF Known, Stored, Active
  <2> QED BY <2>2, <2>3, <2>5 DEF RecordInv
<1>2. CASE RefuseNew(r, c, k)
  <2>1. Reply(r, c, k, "refused") /\ Settled(c, "refused", k)
        /\ UNCHANGED <<revision, performed, task, held>> /\ receipt[c].status = "none"
        /\ task[c].phase = "none"
    BY <1>2 DEF RefuseNew, daemonVars, Known, Active
  <2>2. LockInv' /\ CurrentInv'
    BY <2>1, <1>t DEF LockInv, CurrentInv, Current, AnyRevision
  <2>3. RevisionCountsAccepted'
    BY <2>1, <1>t, CountStays DEF Settled, LedgerTypeOK
  <2>4. AnswerGiven(c, k, "refused")
    BY <2>1, <1>t DEF Reply, Settled, AnswerGiven, LedgerTypeOK, Stored, Known, Statuses
  <2>5. AnswerInv'
    BY <2>1, <2>4, <1>t, AnswersStay DEF Settled, Known, Stored, Active, LedgerTypeOK
  <2> QED BY <2>2, <2>3, <2>5 DEF RecordInv
<1>3. CASE MutateNew(r, c, k)
  <2>1. Reply(r, c, k, "accepted") /\ Settled(c, "accepted", k) /\ Advance(c) /\ c \in Mutations
        /\ UNCHANGED <<task, held>> /\ receipt[c].status = "none" /\ task[c].phase = "none"
    BY <1>3 DEF MutateNew, daemonVars, Known, Active
  <2>2. LockInv'
    BY <2>1, <1>t DEF LockInv
  <2>3. CurrentInv'
    <3> SUFFICES ASSUME NEW d \in Guarded, task[d].phase = "verified"
                 PROVE  Current(d, task[d].content)'
      BY <2>1 DEF CurrentInv
    <3>1. d \in Commands \ Mutations
      BY <1>t DEF Guarded, LockInv
    <3>2. revision'[TargetOf[d]] = revision[TargetOf[d]]
      BY <2>1, <3>1, <1>t, LedgerAssumption DEF Advance, LedgerTypeOK
    <3> QED BY <2>1, <3>2, <1>t DEF CurrentInv, Current, AnyRevision
  <2>4. RevisionCountsAccepted'
    BY <2>1, <1>t, CountAdvances
  <2>5. AnswerGiven(c, k, "accepted")
    BY <2>1, <1>t DEF Reply, Settled, AnswerGiven, LedgerTypeOK, Stored, Known, Statuses
  <2>6. AnswerInv'
    BY <2>1, <2>5, <1>t, AnswersStay DEF Settled, Known, Stored, Active, LedgerTypeOK
  <2> QED BY <2>2, <2>3, <2>4, <2>6 DEF RecordInv
<1>4. CASE ReserveNew(r, c, k)
  <2>1. Settled(c, "reserved", k) /\ task' = [task EXCEPT ![c] = [phase |-> "waiting", content |-> k]]
        /\ UNCHANGED <<revision, held, answers>> /\ c \notin Mutations
        /\ receipt[c].status = "none" /\ task[c].phase = "none"
    BY <1>4 DEF ReserveNew, Known, Active
  <2>2. LockInv' /\ CurrentInv'
    BY <2>1, <1>t DEF LockInv, CurrentInv, Current, AnyRevision, LedgerTypeOK, Guarded
  <2>3. RevisionCountsAccepted'
    BY <2>1, <1>t, CountStays DEF Settled, LedgerTypeOK
  <2>4. AnswerGiven(c, k, "lost")
    BY <2>1 DEF AnswerGiven, Statuses
  <2>5. AnswerInv'
    BY <2>1, <2>4, <1>t, AnswersStay DEF Settled, Known, Stored, Active, LedgerTypeOK
  <2> QED BY <2>2, <2>3, <2>5 DEF RecordInv
<1> QED BY <1>1, <1>2, <1>3, <1>4 DEF Submit

\* The end of a task frees no lock but its own, and answers only those who joined it.
LEMMA FinishRecords ==
  ASSUME LedgerTypeOK, LockInv, NEW c \in Commands, NEW reply, Finish(c, reply)
  PROVE  /\ LockInv'
         /\ ~Active(c)' /\ \A d \in Commands : d # c => task'[d] = task[d]
         /\ \A d \in Commands : answers'[d] \subseteq
              answers[d] \cup (IF d = c THEN {<<task[c].content, reply>>} ELSE {})
<1>1. ~Active(c)' /\ \A d \in Commands : d # c => task'[d] = task[d]
  BY DEF Finish, Active, Idle, LedgerTypeOK
<1>2. \A d \in Commands : d # c /\ held[TargetOf[d]] = d => held'[TargetOf[d]] = d
  BY LedgerAssumption DEF Finish, LedgerTypeOK
<1>3. LockInv'
  BY <1>1, <1>2 DEF LockInv, Active
<1>4. \A d \in Commands : answers'[d] \subseteq
        answers[d] \cup (IF d = c THEN {<<task[c].content, reply>>} ELSE {})
  BY DEF Finish, LedgerTypeOK
<1> QED BY <1>1, <1>3, <1>4

\* A step on c that leaves the revisions of the guarded targets alone leaves the other
\* commands' second look true.
LEMMA OthersStayCurrent ==
  ASSUME CurrentInv, NEW c \in Commands,
         \A d \in Commands : d # c => task'[d] = task[d],
         \A d \in Guarded : d # c /\ task[d].phase = "verified" =>
           revision'[TargetOf[d]] = revision[TargetOf[d]],
         task'[c].phase # "verified"
  PROVE  CurrentInv'
<1> SUFFICES ASSUME NEW d \in Guarded, task'[d].phase = "verified"
             PROVE  Current(d, task[d].content)'
  BY DEF CurrentInv
<1>1. d \in Commands /\ d # c
  BY DEF Guarded
<1>2. task'[d] = task[d] /\ task[d].phase = "verified"
  BY <1>1
<1>3. Current(d, task[d].content) /\ revision'[TargetOf[d]] = revision[TargetOf[d]]
  BY <1>1, <1>2 DEF CurrentInv
<1> QED BY <1>2, <1>3 DEF Current, AnyRevision

\* Every step of a task keeps the record.
LEMMA StepRecords ==
  ASSUME LedgerInv, RecordInv, NEW c \in Commands, TakeLock(c) \/ Step(c)
  PROVE  RecordInv'
<1>t. LedgerTypeOK /\ ReceiptInv /\ LockInv /\ CurrentInv /\ AnswerInv /\ RevisionCountsAccepted
  BY DEF LedgerInv, RecordInv
<1>p. ASSUME UNCHANGED <<receipt, revision, answers>>, Active(c),
             \E phase \in Phases \ {"none"} : Progress(c, phase)
      PROVE  AnswerInv' /\ RevisionCountsAccepted'
  <2>1. \A d \in Commands : ~Active(d) => ~Active(d)'
    BY <1>p, <1>t DEF Active, Progress, LedgerTypeOK
  <2>2. AnswerGiven(c, NoContent, "lost")
    BY <1>p DEF AnswerGiven, Statuses
  <2>3. AnswerInv'
    BY <1>p, <2>1, <2>2, <1>t, AnswersStay DEF Known, Stored
  <2>4. RevisionCountsAccepted'
    BY <1>p, <1>t, CountStays
  <2> QED BY <2>3, <2>4
<1>1. CASE TakeLock(c)
  <2>1. /\ UNCHANGED <<receipt, revision, answers>> /\ Progress(c, "locked")
        /\ task[c].phase = "waiting" /\ c \notin RunCommands
        /\ held[TargetOf[c]] = Free /\ held' = [held EXCEPT ![TargetOf[c]] = c]
    BY <1>1 DEF TakeLock, ledgerVars, clientVars
  <2>2. /\ task'[c].phase = "locked" /\ \A d \in Commands : d # c => task'[d] = task[d]
    BY <2>1, <1>t DEF Progress, LedgerTypeOK
  <2>3. \A d \in Commands : held[TargetOf[d]] = d => held'[TargetOf[d]] = d
    BY <2>1, <1>t, LedgerAssumption DEF LedgerTypeOK
  <2>4. held'[TargetOf[c]] = c
    BY <2>1, <1>t, LedgerAssumption DEF LedgerTypeOK
  <2>5. c \notin Mutations
    BY <2>1, <1>t DEF LockInv
  <2>6. LockInv'
    BY <2>1, <2>2, <2>3, <2>4, <2>5, <1>t DEF LockInv
  <2>7. CurrentInv'
    BY <2>1, <2>2, <1>t, OthersStayCurrent
  <2>8. AnswerInv' /\ RevisionCountsAccepted'
    BY <2>1, <1>p DEF Active, Phases
  <2> QED BY <2>6, <2>7, <2>8 DEF RecordInv
<1>2. CASE Verify(c)
  <2>1. /\ UNCHANGED <<receipt, revision, held, answers>> /\ Progress(c, "verified")
        /\ task[c].phase = "locked" /\ Current(c, task[c].content)
    BY <1>2 DEF Verify, ledgerVars, clientVars
  <2>2. /\ task'[c].phase = "verified" /\ task'[c].content = task[c].content
        /\ \A d \in Commands : d # c => task'[d] = task[d]
    BY <2>1, <1>t DEF Progress, LedgerTypeOK
  <2>3. LockInv'
    BY <2>1, <2>2, <1>t DEF LockInv
  <2>4. CurrentInv'
    BY <2>1, <2>2, <1>t DEF CurrentInv, Current, AnyRevision, Guarded
  <2>5. AnswerInv' /\ RevisionCountsAccepted'
    BY <2>1, <1>p DEF Active, Phases
  <2> QED BY <2>3, <2>4, <2>5 DEF RecordInv
<1>3. CASE PerformEffect(c)
  <2>1. /\ UNCHANGED <<receipt, revision, held, answers>> /\ Progress(c, "performed")
        /\ task[c].phase \in {"waiting", "verified"}
        /\ c \notin RunCommands => task[c].phase = "verified"
    BY <1>3 DEF PerformEffect, clientVars
  <2>2. /\ task'[c].phase = "performed" /\ \A d \in Commands : d # c => task'[d] = task[d]
    BY <2>1, <1>t DEF Progress, LedgerTypeOK
  <2>3. LockInv'
    BY <2>1, <2>2, <1>t DEF LockInv
  <2>4. CurrentInv'
    BY <2>1, <2>2, <1>t, OthersStayCurrent
  <2>5. AnswerInv' /\ RevisionCountsAccepted'
    BY <2>1, <1>p DEF Active, Phases
  <2> QED BY <2>3, <2>4, <2>5 DEF RecordInv
<1>4. CASE VerifyFails(c) \/ DispatchFails(c)
  <2>1. /\ Settled(c, "refused", task[c].content) /\ Finish(c, "refused") /\ UNCHANGED revision
        /\ task[c].phase \in {"locked", "verified", "performed"} /\ c \notin RunCommands
    BY <1>4, <1>t DEF VerifyFails, DispatchFails, LockInv
  <2>2. receipt[c].status = "reserved"
    BY <2>1, <1>t DEF ReceiptInv
  <2>3. LockInv' /\ ~Active(c)' /\ \A d \in Commands : d # c => task'[d] = task[d]
    BY <2>1, <1>t, FinishRecords
  <2>4. CurrentInv'
    BY <2>1, <2>3, <1>t, OthersStayCurrent DEF Active
  <2>5. RevisionCountsAccepted'
    BY <2>1, <2>2, <1>t, CountStays DEF Settled, LedgerTypeOK
  <2>6. AnswerGiven(c, task[c].content, "refused")
    BY <2>1, <1>t, FinishRecords DEF AnswerGiven, Settled, LedgerTypeOK, Stored, Known
  <2>7. AnswerInv'
    <3>1. \A d \in Commands : d # c => Known(d)' = Known(d) /\ receipt'[d] = receipt[d]
                                        /\ Stored(d)' = Stored(d) /\ Active(d)' = Active(d)
      BY <2>1, <2>3, <1>t DEF Settled, LedgerTypeOK, Known, Stored, Active
    <3>2. Stored(c) = "interrupted" /\ Active(c)
      BY <2>1, <2>2 DEF Stored, Active
    <3> QED BY <2>6, <3>1, <3>2, <1>t, AnswersStay
  <2> QED BY <2>3, <2>4, <2>5, <2>7 DEF RecordInv
<1>5. CASE Complete(c)
  <2>1. /\ Settled(c, "accepted", task[c].content) /\ Advance(c) /\ Finish(c, "accepted")
        /\ task[c].phase = "performed" /\ c \notin RunCommands
    BY <1>5 DEF Complete
  <2>2. receipt[c].status = "reserved" /\ held[TargetOf[c]] = c /\ task[c].content \in Contents
    BY <2>1, <1>t DEF ReceiptInv, LockInv
  <2>3. LockInv' /\ ~Active(c)' /\ \A d \in Commands : d # c => task'[d] = task[d]
    BY <2>1, <1>t, FinishRecords
  <2>4. CurrentInv'
    <3>1. ASSUME NEW d \in Guarded, d # c, task[d].phase = "verified"
          PROVE  revision'[TargetOf[d]] = revision[TargetOf[d]]
      <4>1. d \in Commands \ RunCommands
        BY DEF Guarded
      <4>2. held[TargetOf[d]] = d
        BY <4>1, <3>1, <1>t DEF LockInv
      <4>3. TargetOf[d] # TargetOf[c]
        BY <4>2, <3>1, <2>2
      <4> QED BY <4>1, <4>3, <2>1, <1>t, LedgerAssumption DEF Advance, LedgerTypeOK
    <3> QED BY <2>3, <3>1, <1>t, OthersStayCurrent DEF Active
  <2>5. RevisionCountsAccepted'
    BY <2>1, <2>2, <1>t, CountAdvances
  <2>6. AnswerGiven(c, task[c].content, "accepted")
    BY <2>1, <1>t, FinishRecords DEF AnswerGiven, Settled, LedgerTypeOK, Stored, Known
  <2>7. AnswerInv'
    <3>1. \A d \in Commands : d # c => Known(d)' = Known(d) /\ receipt'[d] = receipt[d]
                                        /\ Stored(d)' = Stored(d) /\ Active(d)' = Active(d)
      BY <2>1, <2>3, <1>t DEF Settled, LedgerTypeOK, Known, Stored, Active
    <3>2. Stored(c) = "interrupted" /\ Active(c)
      BY <2>1, <2>2 DEF Stored, Active
    <3> QED BY <2>6, <3>1, <3>2, <1>t, AnswersStay
  <2> QED BY <2>3, <2>4, <2>5, <2>7 DEF RecordInv
<1>6. CASE TaskRaises(c) \/ RunReturns(c)
  <2>1. PICK reply \in {"error", "accepted"} :
          /\ Finish(c, reply) /\ UNCHANGED <<receipt, revision>> /\ Active(c)
          /\ reply = "accepted" => task[c].phase = "running"
    <3>1. CASE TaskRaises(c)
      BY <3>1 DEF TaskRaises, ledgerVars, Active
    <3>2. CASE RunReturns(c)
      BY <3>2 DEF RunReturns, ledgerVars, Active
    <3> QED BY <1>6, <3>1, <3>2
  <2>2. LockInv' /\ ~Active(c)' /\ \A d \in Commands : d # c => task'[d] = task[d]
    BY <2>1, <1>t, FinishRecords
  <2>3. CurrentInv'
    BY <2>1, <2>2, <1>t, OthersStayCurrent DEF Active
  <2>4. RevisionCountsAccepted'
    BY <2>1, <1>t, CountStays
  <2>5. AnswerGiven(c, task[c].content, reply)
    <3>1. reply = "accepted" =>
            receipt[c].status = "accepted" /\ receipt[c].content = task[c].content
      BY <2>1, <1>t DEF ReceiptInv
    <3> QED BY <2>1, <3>1, <1>t, FinishRecords DEF AnswerGiven, Stored, Known, Statuses
  <2>6. AnswerInv'
    BY <2>1, <2>2, <2>5, <1>t, AnswersStay DEF Known, Stored, Active
  <2> QED BY <2>2, <2>3, <2>4, <2>6 DEF RecordInv
<1>7. CASE AcceptRun(c)
  <2>1. /\ Settled(c, "accepted", task[c].content) /\ Advance(c) /\ Progress(c, "running")
        /\ task[c].phase = "performed" /\ c \in RunCommands /\ UNCHANGED <<held, answers>>
    BY <1>7 DEF AcceptRun, clientVars
  <2>2. receipt[c].status = "reserved" /\ task[c].content \in Contents
    BY <2>1, <1>t DEF ReceiptInv
  <2>3. /\ task'[c].phase = "running" /\ \A d \in Commands : d # c => task'[d] = task[d]
    BY <2>1, <1>t DEF Progress, LedgerTypeOK
  <2>4. LockInv'
    BY <2>1, <2>3, <1>t DEF LockInv
  <2>5. CurrentInv'
    <3>1. \A d \in Guarded : revision'[TargetOf[d]] = revision[TargetOf[d]]
      BY <2>1, <1>t, LedgerAssumption DEF Guarded, Advance, LedgerTypeOK
    <3> QED BY <2>3, <3>1, <1>t, OthersStayCurrent
  <2>6. RevisionCountsAccepted'
    BY <2>1, <2>2, <1>t, CountAdvances
  <2>7. AnswerInv'
    <3>1. \A d \in Commands : d # c => Known(d)' = Known(d) /\ receipt'[d] = receipt[d]
                                        /\ Stored(d)' = Stored(d) /\ Active(d)' = Active(d)
      BY <2>1, <2>3, <1>t DEF Settled, LedgerTypeOK, Known, Stored, Active
    <3>2. Stored(c) = "interrupted" /\ Active(c)
      BY <2>1, <2>2 DEF Stored, Active
    <3>3. AnswerGiven(c, NoContent, "lost")
      BY <2>1 DEF AnswerGiven, Statuses
    <3> QED BY <3>1, <3>2, <3>3, <1>t, AnswersStay
  <2> QED BY <2>4, <2>5, <2>6, <2>7 DEF RecordInv
<1> QED BY <1>1, <1>2, <1>3, <1>4, <1>5, <1>6, <1>7 DEF Step

\* A crash keeps the record: it frees every lock and ends every task.
LEMMA CrashRecords ==
  ASSUME LedgerInv, RecordInv, Crash
  PROVE  RecordInv'
<1>1. UNCHANGED <<receipt, revision, answers>> /\ \A c \in Commands : task'[c] = Idle
  BY DEF Crash, ledgerVars
<1>2. LockInv' /\ CurrentInv'
  BY <1>1 DEF LockInv, CurrentInv, Guarded, Idle
<1>3. RevisionCountsAccepted'
  BY <1>1, CountStays DEF RecordInv
<1>4. AnswerInv'
  BY <1>1 DEF RecordInv, AnswerInv, Known, Stored, Active, Idle
<1> QED BY <1>2, <1>3, <1>4 DEF RecordInv

\* Every step keeps the record.
LEMMA RecordStep == LedgerInv /\ RecordInv /\ [Next]_vars => RecordInv'
<1> SUFFICES ASSUME LedgerInv, RecordInv, [Next]_vars PROVE RecordInv'
  OBVIOUS
<1>1. ASSUME UNCHANGED vars PROVE RecordInv'
  <2>1. UNCHANGED <<receipt, revision, performed, task, held, answers>>
    BY <1>1 DEF vars, ledgerVars, daemonVars, clientVars
  <2>2. LockInv' /\ CurrentInv' /\ AnswerInv'
    BY <2>1 DEF RecordInv, LockInv, CurrentInv, AnswerInv, Current, AnyRevision, Known, Stored,
                Active
  <2>3. RevisionCountsAccepted'
    BY <2>1, CountStays DEF RecordInv
  <2> QED BY <2>2, <2>3 DEF RecordInv
<1> QED BY <1>1, SubmitRecords, StepRecords, CrashRecords DEF Next

\* The locks, the answers and the revisions keep agreeing with the receipts.
THEOREM RecordHolds == Spec => [](LedgerInv /\ RecordInv)
<1>1. Init => RecordInv
  BY RecordInitially
<1>2. LedgerInv /\ RecordInv /\ [Next]_vars => RecordInv'
  BY RecordStep
<1> QED BY <1>1, <1>2, LedgerInvHolds, PTL DEF Spec

\* Receipts, revisions, effects and every answer given from them tell one story: a client
\* never sees two outcomes of one identity, and no acceptance is lost from a revision.
THEOREM LedgerConsistentAlways == Spec => []LedgerConsistent
<1>1. LedgerTypeOK /\ AnswerInv => AnswersAgree
  <2> SUFFICES ASSUME AnswerInv, NEW c \in Commands, NEW x \in answers[c], NEW y \in answers[c],
                      x[2] \in Statuses, y[2] \in Statuses, LedgerTypeOK
               PROVE  x = y
    BY DEF AnswersAgree
  <2>1. x[1] = y[1] /\ x[2] = y[2]
    BY DEF AnswerInv
  <2>2. x \in Contents \X Replies /\ y \in Contents \X Replies
    BY DEF LedgerTypeOK
  <2> QED BY <2>1, <2>2
<1>2. LedgerInv /\ RecordInv => RevisionCountsAccepted /\ AnswersAgree /\ AcceptedExclusive
                                /\ LedgerTypeOK
  BY <1>1 DEF LedgerInv, RecordInv
<1> QED BY <1>2, EffectsOnce, RecordHolds, PTL DEF LedgerConsistent

\* The effect of a guarded command starts on the revision it expects: what the second look
\* under the target's lock saw cannot change before the effect.
THEOREM EffectsOnExpectedRevision == Spec => EffectOnExpectedRevision
<1>1. LedgerInv /\ RecordInv /\ [Next]_vars =>
        [\A c \in Guarded : performed'[c] # performed[c] => Current(c, receipt'[c].content)]_vars
  <2> SUFFICES ASSUME LedgerInv, RecordInv, Next, NEW c \in Guarded,
                      performed'[c] # performed[c]
               PROVE  Current(c, receipt'[c].content)
    BY DEF vars
  <2>t. LedgerTypeOK /\ ReceiptInv /\ CurrentInv /\ c \in Commands \ RunCommands
    BY DEF LedgerInv, RecordInv, Guarded
  <2>1. ASSUME NEW r \in Requests, NEW d \in Commands, NEW k \in Contents, Submit(r, d, k)
        PROVE  Current(c, receipt'[c].content)
    <3>1. CASE MutateNew(r, d, k)
      <4>1. d = c
        BY <3>1, <2>t DEF MutateNew, LedgerTypeOK
      <4> QED BY <3>1, <4>1, <2>t DEF MutateNew, Settled, LedgerTypeOK
    <3> QED BY <2>1, <3>1
        DEF Submit, Join, Duplicate, Replay, RefuseNew, StaleNew, ReserveNew, ledgerVars
  <2>2. ASSUME NEW d \in Commands, TakeLock(d) \/ Step(d)
        PROVE  Current(c, receipt'[c].content)
    <3>1. CASE PerformEffect(d)
      <4>1. d = c /\ UNCHANGED receipt
        BY <3>1, <2>t DEF PerformEffect, LedgerTypeOK
      <4>2. task[c].phase = "verified"
        BY <3>1, <4>1, <2>t DEF PerformEffect
      <4> QED BY <4>1, <4>2, <2>t DEF CurrentInv, ReceiptInv
    <3> QED BY <2>2, <3>1 DEF Step, TakeLock, Verify, VerifyFails, DispatchFails, Complete,
                              TaskRaises, AcceptRun, RunReturns, ledgerVars
  <2>3. CASE Crash
    BY <2>3 DEF Crash, ledgerVars
  <2> QED BY <2>1, <2>2, <2>3 DEF Next
<1> QED BY <1>1, RecordHolds, PTL DEF Spec, EffectOnExpectedRevision

-----------------------------------------------------------------------------
(* Refinement: every step of the ledger is a step of CommandPromise or a    *)
(* stutter of it.                                                           *)

\* The empty ledger maps to the initial state of the promise.
LEMMA PromiseInitially == Init => Promise!PromiseInit
BY DEF Init, Promise!PromiseInit

\* Writing one receipt changes one outcome.
LEMMA OutcomeOf ==
  ASSUME LedgerTypeOK, NEW c \in Commands, NEW status, NEW k, Settled(c, status, k)
  PROVE  [d \in Commands |-> receipt'[d].status]
           = [[d \in Commands |-> receipt[d].status] EXCEPT ![c] = status]
BY DEF Settled, LedgerTypeOK

\* Every step of the ledger maps to a step of the promise or to a stutter.
LEMMA PromiseStep == LedgerInv /\ [Next]_vars => [Promise!PromiseNext]_(Promise!promiseVars)
<1> DEFINE outcomes == [c \in Commands |-> receipt[c].status]
<1> SUFFICES ASSUME LedgerInv, [Next]_vars
             PROVE  [Promise!PromiseNext]_(Promise!promiseVars)
  OBVIOUS
<1>t. LedgerTypeOK /\ ReceiptInv
  BY DEF LedgerInv
<1>s. ASSUME UNCHANGED <<receipt, performed>>
      PROVE  [Promise!PromiseNext]_(Promise!promiseVars)
  BY <1>s DEF Promise!promiseVars
<1>1. ASSUME NEW r \in Requests, NEW c \in Commands, NEW k \in Contents, Submit(r, c, k)
      PROVE  [Promise!PromiseNext]_(Promise!promiseVars)
  <2>1. CASE Join(r, c, k) \/ Duplicate(r, c, k) \/ Replay(r, c, k) \/ StaleNew(r, c, k)
    BY <2>1, <1>s DEF Join, Duplicate, Replay, StaleNew, ledgerVars
  <2>2. CASE RefuseNew(r, c, k)
    <3>1. outcomes[c] = "none" /\ outcomes' = [outcomes EXCEPT ![c] = "refused"]
          /\ UNCHANGED performed
      BY <2>2, <1>t, OutcomeOf DEF RefuseNew, Known
    <3>2. Promise!Refuse(c)
      BY <3>1 DEF Promise!Refuse
    <3> QED BY <3>2 DEF Promise!PromiseNext
  <2>3. CASE MutateNew(r, c, k)
    <3>1. outcomes[c] = "none" /\ outcomes' = [outcomes EXCEPT ![c] = "accepted"]
      BY <2>3, <1>t, OutcomeOf DEF MutateNew, Known
    <3>2. performed[c] = 0
      BY <2>3, <1>t DEF MutateNew, Known, ReceiptInv
    <3>3. performed' = [performed EXCEPT ![c] = performed[c] + 1]
      BY <2>3 DEF MutateNew
    <3>4. performed' = [performed EXCEPT ![c] = 1]
      BY <3>2, <3>3
    <3>5. Promise!Mutate(c)
      BY <3>1, <3>2, <3>4 DEF Promise!Mutate
    <3> QED BY <3>5 DEF Promise!PromiseNext
  <2>4. CASE ReserveNew(r, c, k)
    <3>1. outcomes[c] = "none" /\ outcomes' = [outcomes EXCEPT ![c] = "reserved"]
          /\ UNCHANGED performed
      BY <2>4, <1>t, OutcomeOf DEF ReserveNew, Known
    <3>2. Promise!Admit(c)
      BY <3>1 DEF Promise!Admit
    <3> QED BY <3>2 DEF Promise!PromiseNext
  <2> QED BY <1>1, <2>1, <2>2, <2>3, <2>4 DEF Submit
<1>2. ASSUME NEW c \in Commands, TakeLock(c) \/ Step(c)
      PROVE  [Promise!PromiseNext]_(Promise!promiseVars)
  <2>1. CASE TakeLock(c) \/ Verify(c) \/ TaskRaises(c) \/ RunReturns(c)
    BY <2>1, <1>s DEF TakeLock, Verify, TaskRaises, RunReturns, ledgerVars
  <2>2. CASE VerifyFails(c) \/ DispatchFails(c)
    <3>1. outcomes[c] = "reserved"
      BY <2>2, <1>t DEF VerifyFails, DispatchFails, ReceiptInv
    <3>2. outcomes' = [outcomes EXCEPT ![c] = "refused"] /\ UNCHANGED performed
      BY <2>2, <1>t, OutcomeOf DEF VerifyFails, DispatchFails
    <3>3. Promise!Refuse(c)
      BY <3>1, <3>2 DEF Promise!Refuse
    <3> QED BY <3>3 DEF Promise!PromiseNext
  <2>3. CASE PerformEffect(c)
    <3>1. outcomes[c] = "reserved" /\ performed[c] = 0
      BY <2>3, <1>t DEF PerformEffect, ReceiptInv
    <3>2. performed' = [performed EXCEPT ![c] = 1] /\ UNCHANGED receipt
      BY <2>3, <3>1, <1>t DEF PerformEffect, LedgerTypeOK
    <3>3. Promise!Perform(c)
      BY <3>1, <3>2 DEF Promise!Perform
    <3> QED BY <3>3 DEF Promise!PromiseNext
  <2>4. CASE Complete(c) \/ AcceptRun(c)
    <3>1. outcomes[c] = "reserved" /\ performed[c] = 1
      BY <2>4, <1>t DEF Complete, AcceptRun, ReceiptInv
    <3>2. outcomes' = [outcomes EXCEPT ![c] = "accepted"] /\ UNCHANGED performed
      BY <2>4, <1>t, OutcomeOf DEF Complete, AcceptRun
    <3>3. Promise!Confirm(c)
      BY <3>1, <3>2 DEF Promise!Confirm
    <3> QED BY <3>3 DEF Promise!PromiseNext
  <2> QED BY <1>2, <2>1, <2>2, <2>3, <2>4 DEF Step
<1>3. CASE Crash
  BY <1>3, <1>s DEF Crash, ledgerVars
<1>4. CASE UNCHANGED vars
  BY <1>4, <1>s DEF vars, ledgerVars
<1> QED BY <1>1, <1>2, <1>3, <1>4 DEF Next

\* The ledger implements its promise for every command identity.
THEOREM LedgerKeepsPromise == Spec => KeepsPromise
<1>1. Init => Promise!PromiseInit
  BY PromiseInitially
<1>2. LedgerInv /\ [Next]_vars => [Promise!PromiseNext]_(Promise!promiseVars)
  BY PromiseStep
<1> QED BY <1>1, <1>2, LedgerInvHolds, PTL DEF Spec, KeepsPromise, Promise!PromiseSpec

-----------------------------------------------------------------------------
(* The plan of a run.                                                        *)

\* What the flow is made of: tasks that are proposed and invocations of their calls.
Tasks == UNION {ToSet(p) : p \in Proposals}
Invocations == [task : {t.id : t \in Tasks}, who : {"producer", "reviewer"},
                at : UNION {DOMAIN t.calls : t \in Tasks}, call : UNION {ToSet(t.calls) : t \in Tasks}]
AcceptedResults == [task : Tasks, cited : SUBSET CitablePaths, checked : SUBSET CitablePaths]

\* A task is in hand.
Engaged == stage \in {"producer", "reviewer", "synthesis", "review"}

\* Plans that are accepted.
AcceptedPlans == {p \in Proposals : ~ContractViolated(p)}
PlanAccepted == plan \in AcceptedPlans

\* There is an accepted plan, or nothing has been done.
FlowInv ==
  /\ stage \in {"propose", "pass", "producer", "reviewer", "synthesis", "review", "reported", "failed"}
  /\ plan \in Proposals \cup {<<>>} /\ granted \in Policies
  /\ results \in Seq(AcceptedResults) /\ ran \in Seq(Invocations)
  /\ Engaged => inHand \in Tasks
  /\ PlanAccepted \/ (plan = <<>> /\ results = <<>>)
  /\ stage = "propose" => plan = <<>> /\ results = <<>> /\ ran = <<>> /\ batch = {}
  /\ Engaged \/ stage \in {"pass", "reported"} => PlanAccepted

\* The task in hand and those of this pass are not accepted and wait for nothing.
PassInv ==
  /\ Accepted \subseteq Ids(plan)
  /\ \A i, j \in DOMAIN results : results[i].task.id = results[j].task.id => i = j
  /\ \A i \in DOMAIN results : results[i].task.deps \subseteq {results[j].task.id : j \in 1..i - 1}
  /\ \A k \in batch : k \in DOMAIN plan /\ plan[k].id \notin Accepted /\ plan[k].deps \subseteq Accepted
  /\ Engaged => /\ inHand \in ToSet(plan) /\ inHand.id \notin Accepted /\ inHand.deps \subseteq Accepted
                /\ \A k \in batch : plan[k].id # inHand.id

\* Every call of the party has completed.
AllCompleted(who) == \A k \in CallsOf(inHand, who) : \E i \in Completed(who) : ran[i].call = inHand.calls[k]

\* An invocation belongs to an accepted task or to the one in hand, whose completed calls
\* have given up their fingerprints for as long as their party goes on.
InvocationsInv ==
  /\ \A i, j \in DOMAIN ran :
       (/\ ran[i].task = ran[j].task /\ ran[i].who = ran[j].who
        /\ Fingerprint(ran[i].call) = Fingerprint(ran[j].call))
         => i = j
  /\ stage = "pass" => \A i \in DOMAIN ran : ran[i].task \in Accepted
  /\ Engaged => \A i \in DOMAIN ran :
                  \/ ran[i].task \in Accepted
                  \/ ran[i].task = inHand.id /\ ran[i].call = inHand.calls[ran[i].at]
  /\ stage = "producer" => Completed("reviewer") = {}
  /\ \A who \in {"producer", "reviewer"} :
       stage = who => \A i \in Completed(who) : Fingerprint(ran[i].call) \in attempted
  /\ stage \in {"synthesis", "review"} => \A who \in {"producer", "reviewer"} : AllCompleted(who)
  /\ stage = "reviewer" => AllCompleted("producer")

\* A result under review cites what its task is bound to.
CitedInv ==
  /\ cited \subseteq CitablePaths
  /\ stage = "review" => cited # {} /\ cited \subseteq inHand.paths
  /\ AcceptedGrounded

\* What a run has spent when it is at a stage.
Spent(inTask) == kickoffs <= proposed * ProposalBudget + Len(results) * TaskBudget + inTask

KickoffInv ==
  /\ kickoffs \in Nat /\ proposed \in 0..PlanRetries + 1
  /\ round \in 0..ReviewRetries + 1 /\ recheck \in 0..ReviewRetries
  /\ IsFiniteSet(Accepted) /\ Cardinality(Accepted) = Len(results)
  /\ Engaged => round \in 1..ReviewRetries + 1
  /\ stage = "propose" => proposed <= PlanRetries
  /\ stage \in {"propose", "pass", "reported", "producer", "reviewer"} => Spent(0)
  /\ stage \in {"producer", "reviewer"} => round = 1
  /\ stage = "synthesis" => Spent((round - 1) * RoundBudget)
  /\ stage = "review" => Spent((round - 1) * RoundBudget + (recheck + 1) * AnswerBudget)
  /\ KickoffsBounded

PipelineInv == FlowInv /\ PassInv /\ InvocationsInv /\ CitedInv /\ KickoffInv

-----------------------------------------------------------------------------
\* The attempts of a loop are a positive number.
LEMMA AttemptsType ==
  /\ \A n \in Nat : Attempts(n) \in Nat /\ Attempts(n) = n + 1
  /\ PlanRetries \in Nat /\ ExecutionRetries \in Nat
  /\ ReviewRetries \in Nat /\ OutputRetries \in Nat
  /\ ModelCandidates \in Nat \ {0}
  /\ \A n \in Nat : Attempts(n) \in Nat \ {0}
  /\ Attempts(0) = 1
BY PipelineAssumption DEF Attempts

\* Products of natural numbers, and what they are ordered by.
LEMMA Products ==
  /\ \A a, b \in Nat : a * b \in Nat
  /\ \A a, b, c \in Nat : a <= b => a * c <= b * c
  /\ \A a, c \in Nat : (a + 1) * c = a * c + c
  /\ \A a \in Nat : 0 * a = 0 /\ 1 * a = a
  /\ \A a, b \in Nat \ {0} : a * b \in Nat \ {0}
<1>1. \A a, b \in Nat : a * b \in Nat
  OBVIOUS
<1>2. \A a, c \in Nat : (a + 1) * c = a * c + c
  OBVIOUS
<1>3. \A a, b, c \in Nat : a <= b => a * c <= b * c
  <2> SUFFICES ASSUME NEW a \in Nat, NEW b \in Nat, NEW c \in Nat, a <= b PROVE a * c <= b * c
    OBVIOUS
  <2>1. PICK d \in Nat : b = a + d
    <3>1. b - a \in Nat /\ b = a + (b - a)
      OBVIOUS
    <3> QED
      BY <3>1
  <2>2. b * c = a * c + d * c
    BY <2>1
  <2>3. d * c \in Nat /\ a * c \in Nat /\ b * c \in Nat
    BY <1>1
  <2> QED
    BY <2>2, <2>3
<1>4. \A a, b \in Nat \ {0} : a * b \in Nat \ {0}
  <2> SUFFICES ASSUME NEW a \in Nat \ {0}, NEW b \in Nat \ {0} PROVE a * b \in Nat \ {0}
    OBVIOUS
  <2>1. 1 * b <= a * b
    BY <1>3
  <2> QED
    BY <1>1, <2>1
<1> QED
  BY <1>1, <1>2, <1>3, <1>4

\* The budgets are numbers, and a task is worth its rounds.
LEMMA BudgetType ==
  /\ RoundBudget \in Nat /\ TaskBudget \in Nat
  /\ ProposalBudget \in Nat \ {0} /\ AnswerBudget \in Nat \ {0}
  /\ ProposalBudget = 1 * ModelCandidates * Attempts(OutputRetries)
  /\ AnswerBudget = Attempts(ExecutionRetries) * ModelCandidates * Attempts(0)
  /\ Attempts(PlanRetries) * ProposalBudget \in Nat
<1>0. /\ Attempts(ExecutionRetries) \in Nat \ {0} /\ Attempts(OutputRetries) \in Nat \ {0}
      /\ ModelCandidates \in Nat \ {0} /\ Attempts(0) = 1
  BY AttemptsType
<1>a. /\ ProposalBudget \in Nat \ {0}
      /\ ProposalBudget = 1 * ModelCandidates * Attempts(OutputRetries)
  BY <1>0, Products DEF ProposalBudget
<1>b. /\ AnswerBudget \in Nat \ {0}
      /\ AnswerBudget = Attempts(ExecutionRetries) * ModelCandidates * Attempts(0)
  <2>1. Attempts(ExecutionRetries) * ModelCandidates \in Nat \ {0}
    BY <1>0, Products
  <2> QED
    BY <1>0, <2>1 DEF AnswerBudget
<1>1. /\ AnswerBudget \in Nat /\ Attempts(ReviewRetries) \in Nat
      /\ Attempts(PlanRetries) \in Nat /\ ProposalBudget \in Nat
  BY <1>a, <1>b, AttemptsType
<1>2. RoundBudget \in Nat
  BY <1>1, Products DEF RoundBudget
<1> QED
  BY <1>a, <1>b, <1>1, <1>2, Products DEF TaskBudget

\* A proposal is a sequence of tasks.
LEMMA ProposalType ==
  ASSUME NEW p \in Proposals
  PROVE  /\ Len(p) \in Nat /\ DOMAIN p = 1..Len(p)
         /\ \A k \in DOMAIN p : p[k] \in Tasks /\ p[k] \in ToSet(p) /\ p[k].id \in Ids(p)
         /\ ToSet(p) \subseteq Tasks
         /\ \A t \in ToSet(p) : \E k \in DOMAIN p : t = p[k]
BY PipelineAssumption DEF Tasks, ToSet, Ids

\* The tasks of an accepted plan have identifiers of their own.
LEMMA TasksDistinct ==
  ASSUME NEW p \in Proposals, ~ContractViolated(p)
  PROVE  /\ IsFiniteSet(Ids(p)) /\ Cardinality(Ids(p)) = Len(p)
         /\ \A j, k \in DOMAIN p : p[j].id = p[k].id => j = k
<1> DEFINE f == [k \in 1..Len(p) |-> p[k].id]
<1>1. Len(p) \in Nat /\ DOMAIN p = 1..Len(p)
  BY ProposalType
<1>2. IsFiniteSet(1..Len(p)) /\ Cardinality(1..Len(p)) = Len(p)
  <2>1. 1 \in Int /\ Len(p) \in Int /\ (1 > Len(p) => Len(p) = 0)
    BY <1>1
  <2> QED
    BY <2>1, FS_Interval
<1>3. f \in Surjection(1..Len(p), Ids(p))
  BY <1>1 DEF Surjection, Ids
<1>4. Cardinality(Ids(p)) = Len(p)
  BY DEF ContractViolated
<1>5. IsFiniteSet(Ids(p))
  BY <1>2, <1>3, FS_Surjection
<1>6. f \in Injection(1..Len(p), Ids(p))
  BY <1>2, <1>3, <1>4, <1>5, FS_SurjSameCardinalityImpliesInj
<1>7. \A j, k \in 1..Len(p) : f[j] = f[k] => j = k
  BY <1>6 DEF Injection, IsInjective
<1> QED
  BY <1>1, <1>4, <1>5, <1>7

\* A task that is refused for no violation is bound to discovered paths and to other tasks.
LEMMA TaskInContract ==
  ASSUME NEW p \in Proposals, ~ContractViolated(p), NEW t \in ToSet(p)
  PROVE  t.paths \subseteq Discovered /\ t.deps \subseteq Ids(p)
BY DEF ContractViolated

\* While tasks of an acyclic plan are left, one of them waits for none of the others.
LEMMA SomeReady ==
  ASSUME PlanAccepted, Accepted \subseteq Ids(plan), Accepted # Ids(plan)
  PROVE  Ready # {}
<1> DEFINE S == Ids(plan) \ Accepted
<1>1. S \in (SUBSET Ids(plan)) \ {{}}
  OBVIOUS
<1>2. ~HasCycle(plan)
  BY DEF PlanAccepted, AcceptedPlans, ContractViolated
<1>3. PICK id \in S : ~\E t \in ToSet(plan) : t.id = id /\ t.deps \cap S # {}
  <2> HIDE DEF S
  <2> QED
    BY <1>1, <1>2, Zenon DEF HasCycle
<1>4. PICK k \in DOMAIN plan : plan[k].id = id
  BY <1>3 DEF Ids
<1>5. plan[k] \in ToSet(plan)
  BY <1>4, ProposalType DEF PlanAccepted, AcceptedPlans
<1>6. plan[k].deps \subseteq Ids(plan)
  BY <1>5, TaskInContract DEF PlanAccepted, AcceptedPlans
<1>7. plan[k].deps \subseteq Accepted
  BY <1>3, <1>4, <1>5, <1>6
<1> QED
  BY <1>3, <1>4, <1>7 DEF Ready

\* Whose identifiers are accepted when one more result is.
LEMMA AcceptedAppended ==
  ASSUME results \in Seq(AcceptedResults), NEW r, r \in AcceptedResults, results' = Append(results, r)
  PROVE  Accepted' = Accepted \cup {r.task.id}
BY DEF Accepted, ToSet

\* No results, no accepted tasks.
LEMMA AcceptedNone == results = <<>> => Accepted = {}
BY DEF Accepted, ToSet

\* Who is accepted depends on the results.
LEMMA AcceptedKept == results' = results => Accepted' = Accepted
BY DEF Accepted

-----------------------------------------------------------------------------
\* The initial state satisfies the invariant.
LEMMA PipelineInitially == PipelineInit => PipelineInv
<1> SUFFICES ASSUME PipelineInit PROVE PipelineInv
  OBVIOUS
<1> USE DEF PipelineInit
<1>1. FlowInv
  BY DEF FlowInv, Engaged
<1>2. Accepted = {}
  BY AcceptedNone
<1>3. PassInv
  BY <1>2 DEF PassInv, Engaged
<1>4. InvocationsInv
  BY DEF InvocationsInv, Engaged
<1>5. CitedInv
  BY DEF CitedInv, AcceptedGrounded, ToSet
<1>6. /\ 0 * TaskBudget = 0 /\ 0 * ProposalBudget = 0 /\ Len(plan) = 0 /\ Len(results) = 0
  <2>1. TaskBudget \in Nat /\ ProposalBudget \in Nat
    BY BudgetType, AttemptsType
  <2> QED
    BY <2>1, Products
<1>8. KickoffBudget = Attempts(PlanRetries) * ProposalBudget
  BY <1>6, BudgetType DEF KickoffBudget
<1>9. Spent(0) /\ KickoffsBounded
  BY <1>6, <1>8, BudgetType DEF Spent, KickoffsBounded
<1>10. KickoffInv
  <2>1. IsFiniteSet(Accepted) /\ Cardinality(Accepted) = Len(results)
    BY <1>2, <1>6, FS_EmptySet
  <2>2. /\ kickoffs \in Nat /\ proposed \in 0..PlanRetries + 1 /\ proposed <= PlanRetries
        /\ round \in 0..ReviewRetries + 1 /\ recheck \in 0..ReviewRetries
    BY AttemptsType
  <2>3. stage = "propose"
    OBVIOUS
  <2> HIDE DEF PipelineInit
  <2> QED
    BY <1>9, <2>1, <2>2, <2>3 DEF KickoffInv, Engaged
<1> QED
  BY <1>1, <1>3, <1>4, <1>5, <1>10 DEF PipelineInv

\* Every step keeps the flow.
LEMMA FlowKept == PipelineInv /\ [PipelineNext]_pipelineVars => FlowInv'
<1> SUFFICES ASSUME PipelineInv, [PipelineNext]_pipelineVars PROVE FlowInv'
  OBVIOUS
<1> USE DEF PipelineInv, FlowInv, Engaged, PlanAccepted
<1>1. CASE ProposePlan
  BY <1>1 DEF ProposePlan, AcceptedPlans
<1>2. CASE NextTask
  <2>1. \A k \in DOMAIN plan : plan[k] \in Tasks
    BY <1>2, ProposalType DEF NextTask
  <2>2. \A k \in Ready : k \in DOMAIN plan
    BY DEF Ready
  <2> QED
    BY <1>2, <2>1, <2>2 DEF NextTask, PassInv, Least
<1>3. CASE Synthesize
  BY <1>3 DEF Synthesize
<1>4. CASE Review
  <2>1. [task |-> inHand, cited |-> cited, checked |-> Checked] \in AcceptedResults
    BY <1>4 DEF Review, CitedInv, AcceptedResults, Checked
  <2>2. \/ results' = results
        \/ results' = Append(results, [task |-> inHand, cited |-> cited, checked |-> Checked])
    BY <1>4 DEF Review
  <2>3. results' \in Seq(AcceptedResults)
    BY <2>1, <2>2
  <2>4. /\ stage = "review" /\ stage' \in {"failed", "synthesis", "review", "pass"}
        /\ UNCHANGED <<plan, inHand, ran, granted>>
    BY <1>4 DEF Review
  <2>5. PlanAccepted
    BY <2>4
  <2> QED
    BY <2>3, <2>4, <2>5
<1>5. CASE PolicyTurns
  BY <1>5 DEF PolicyTurns
<1>6. ASSUME NEW who \in {"producer", "reviewer"}, ExecuteCall(who) PROVE FlowInv'
  <2> DEFINE record(k) == [task |-> inHand.id, who |-> who, at |-> k, call |-> inHand.calls[k]]
  <2>1. PICK k \in CallsOf(inHand, who) : ran' = ran \/ ran' = Append(ran, record(k))
    BY <1>6 DEF ExecuteCall, Outstanding, Least
  <2>2. /\ stage = who /\ stage' \in {who, "failed"}
        /\ UNCHANGED <<plan, results, inHand, batch, granted>>
    BY <1>6 DEF ExecuteCall
  <2>3. record(k) \in Invocations
    BY <2>1, <2>2 DEF CallsOf, Invocations, ToSet
  <2>4. ran' \in Seq(Invocations)
    <3> HIDE DEF record
    <3> QED
      BY <2>1, <2>3
  <2>5. PlanAccepted
    BY <2>2
  <2> QED
    BY <2>2, <2>4, <2>5
<1>7. ASSUME NEW who \in {"producer", "reviewer"}, EndCalls(who) PROVE FlowInv'
  BY <1>7 DEF EndCalls
<1>8. CASE UNCHANGED pipelineVars
  BY <1>8 DEF pipelineVars
<1> QED
  BY <1>1, <1>2, <1>3, <1>4, <1>5, <1>6, <1>7, <1>8 DEF PipelineNext

\* An unaccepted task is taken from the plan for what it waits for, and no other has its
\* identifier.
LEMMA TaskTaken ==
  ASSUME PipelineInv, NextTask,
         NEW todo, todo = (IF batch = {} THEN Ready ELSE batch), NEW k \in todo,
         inHand' = plan[k], batch' = todo \ {k}
  PROVE  /\ k \in DOMAIN plan /\ inHand' \in ToSet(plan)
         /\ inHand'.id \notin Accepted /\ inHand'.deps \subseteq Accepted
         /\ \A j \in batch' : /\ j \in DOMAIN plan /\ plan[j].id \notin Accepted
                              /\ plan[j].deps \subseteq Accepted /\ plan[j].id # inHand'.id
<1>1. PlanAccepted
  BY DEF PipelineInv, FlowInv, NextTask
<1>2. \A j \in todo : /\ j \in DOMAIN plan /\ plan[j].id \notin Accepted
                      /\ plan[j].deps \subseteq Accepted
  BY DEF PipelineInv, PassInv, Ready
<1>3. \A i, j \in DOMAIN plan : plan[i].id = plan[j].id => i = j
  BY <1>1, TasksDistinct DEF PlanAccepted, AcceptedPlans
<1>4. plan[k] \in ToSet(plan)
  BY <1>1, <1>2, ProposalType DEF PlanAccepted, AcceptedPlans
<1> QED
  BY <1>2, <1>3, <1>4

\* Every step keeps what is accepted and what is still to do.
LEMMA PassKept == PipelineInv /\ [PipelineNext]_pipelineVars => PassInv'
<1> SUFFICES ASSUME PipelineInv, [PipelineNext]_pipelineVars PROVE PassInv'
  OBVIOUS
<1>0. FlowInv /\ PassInv
  BY DEF PipelineInv
<1>1. CASE ProposePlan
  <2>1. /\ results' = <<>> /\ batch' = {} /\ stage' \in {"failed", "propose", "pass"}
    BY <1>0, <1>1 DEF ProposePlan, FlowInv
  <2>2. Accepted' = {}
    BY <2>1 DEF Accepted, ToSet
  <2> QED
    BY <2>1, <2>2 DEF PassInv, Engaged
<1>2. CASE NextTask
  <2>1. results' = results /\ plan' = plan /\ Accepted' = Accepted
    BY <1>2, AcceptedKept DEF NextTask
  <2>2. CASE stage' = "reported" /\ UNCHANGED batch
    BY <1>0, <2>1, <2>2 DEF PassInv, Engaged
  <2>3. CASE ~(stage' = "reported" /\ UNCHANGED batch)
    <3> DEFINE todo == IF batch = {} THEN Ready ELSE batch
    <3>1. PICK k \in todo : inHand' = plan[k] /\ batch' = todo \ {k}
      BY <1>2, <2>3 DEF NextTask, Least
    <3>2. /\ k \in DOMAIN plan /\ inHand' \in ToSet(plan)
          /\ inHand'.id \notin Accepted /\ inHand'.deps \subseteq Accepted
          /\ \A j \in batch' : /\ j \in DOMAIN plan /\ plan[j].id \notin Accepted
                               /\ plan[j].deps \subseteq Accepted /\ plan[j].id # inHand'.id
      <4> HIDE DEF todo
      <4>1. todo = (IF batch = {} THEN Ready ELSE batch)
        BY DEF todo
      <4> QED
        BY <1>2, <3>1, <4>1, TaskTaken
    <3> QED
      BY <1>0, <2>1, <3>2 DEF PassInv
  <2> QED
    BY <2>2, <2>3
<1>3. CASE Synthesize
  BY <1>0, <1>3, AcceptedKept DEF Synthesize, PassInv, Engaged
<1>4. CASE Review
  <2>0. stage = "review" /\ UNCHANGED <<plan, batch, inHand>> /\ Engaged
    BY <1>4 DEF Review, Engaged
  <2>1. CASE results' = results /\ stage' \in {"failed", "synthesis", "review"}
    BY <1>0, <2>0, <2>1, AcceptedKept DEF PassInv, Engaged
  <2>2. CASE ~(results' = results /\ stage' \in {"failed", "synthesis", "review"})
    <3> DEFINE r == [task |-> inHand, cited |-> cited, checked |-> Checked]
    <3>1. results' = Append(results, r) /\ stage' = "pass"
      BY <1>4, <2>2 DEF Review
    <3>2. r \in AcceptedResults /\ r.task = inHand
      BY <1>0, <2>0 DEF PipelineInv, FlowInv, CitedInv, AcceptedResults, Checked
    <3>3. results \in Seq(AcceptedResults)
      BY <1>0 DEF FlowInv
    <3>4. Accepted' = Accepted \cup {inHand.id}
      <4> HIDE DEF r
      <4> QED
        BY <3>1, <3>2, <3>3, AcceptedAppended
    <3>5. /\ Len(results) \in Nat /\ DOMAIN results = 1..Len(results)
          /\ DOMAIN results' = 1..(Len(results) + 1)
          /\ results'[Len(results) + 1].task = inHand
          /\ \A i \in DOMAIN results : results'[i] = results[i]
      <4> HIDE DEF r
      <4> QED
        BY <3>1, <3>2, <3>3
    <3>6. inHand.id \in Ids(plan) /\ inHand.id \notin Accepted /\ inHand.deps \subseteq Accepted
      BY <1>0, <2>0 DEF PassInv, ToSet, Ids
    <3>7. \A i \in DOMAIN results : results[i].task.id \in Accepted
      BY DEF Accepted, ToSet
    <3>8. Accepted = {results[j].task.id : j \in DOMAIN results}
      BY DEF Accepted, ToSet
    <3>9. \A i, j \in DOMAIN results' : results'[i].task.id = results'[j].task.id => i = j
      BY <1>0, <3>5, <3>6, <3>7 DEF PassInv
    <3>10. \A i \in DOMAIN results' :
             results'[i].task.deps \subseteq {results'[j].task.id : j \in 1..i - 1}
      <4> SUFFICES ASSUME NEW i \in DOMAIN results', NEW d \in results'[i].task.deps
                   PROVE  \E j \in 1..i - 1 : results'[j].task.id = d
        OBVIOUS
      <4>1. CASE i \in DOMAIN results
        <5>1. PICK j \in 1..i - 1 : results[j].task.id = d
          BY <1>0, <3>5, <4>1 DEF PassInv
        <5>2. j \in DOMAIN results
          BY <3>5, <4>1
        <5> QED
          BY <3>5, <5>1, <5>2
      <4>2. CASE i = Len(results) + 1
        <5>1. d \in Accepted
          BY <3>5, <3>6, <4>2
        <5>2. PICK j \in DOMAIN results : results[j].task.id = d
          BY <3>8, <5>1
        <5> QED
          BY <3>5, <4>2, <5>2
      <4> QED
        BY <3>5, <4>1, <4>2
    <3>11. Accepted' \subseteq Ids(plan) /\ ~Engaged'
      BY <1>0, <3>1, <3>4, <3>6 DEF PassInv, Engaged
    <3>12. \A k \in batch : /\ k \in DOMAIN plan /\ plan[k].id \notin Accepted'
                            /\ plan[k].deps \subseteq Accepted'
      BY <1>0, <2>0, <3>4 DEF PassInv
    <3> QED
      BY <2>0, <3>9, <3>10, <3>11, <3>12 DEF PassInv
  <2> QED
    BY <2>1, <2>2
<1>5. CASE PolicyTurns
  BY <1>0, <1>5, AcceptedKept DEF PolicyTurns, PassInv, Engaged
<1>6. ASSUME NEW who \in {"producer", "reviewer"}, ExecuteCall(who) PROVE PassInv'
  BY <1>0, <1>6, AcceptedKept DEF ExecuteCall, PassInv, Engaged
<1>7. ASSUME NEW who \in {"producer", "reviewer"}, EndCalls(who) PROVE PassInv'
  BY <1>0, <1>7, AcceptedKept DEF EndCalls, PassInv, Engaged
<1>8. CASE UNCHANGED pipelineVars
  BY <1>0, <1>8, AcceptedKept DEF pipelineVars, PassInv, Engaged
<1> QED
  BY <1>1, <1>2, <1>3, <1>4, <1>5, <1>6, <1>7, <1>8 DEF PipelineNext

\* What has completed depends on the invocations and the task in hand.
LEMMA CompletedKept ==
  ran' = ran /\ inHand' = inHand =>
    \A who : Completed(who)' = Completed(who) /\ (AllCompleted(who)' <=> AllCompleted(who))
BY DEF Completed, AllCompleted, CallsOf, ReviewTools, ToolsOf

\* Every step keeps the invocations.
LEMMA InvocationsKept == PipelineInv /\ [PipelineNext]_pipelineVars => InvocationsInv'
<1> SUFFICES ASSUME PipelineInv, [PipelineNext]_pipelineVars PROVE InvocationsInv'
  OBVIOUS
<1>0. FlowInv /\ PassInv /\ InvocationsInv
  BY DEF PipelineInv
<1>1. CASE ProposePlan
  <2>1. ran' = <<>> /\ stage' \in {"failed", "propose", "pass"}
    BY <1>0, <1>1 DEF ProposePlan, FlowInv
  <2> QED
    BY <2>1 DEF InvocationsInv, Engaged
<1>2. CASE NextTask
  <2>1. ran' = ran /\ Accepted' = Accepted /\ stage = "pass"
    BY <1>2, AcceptedKept DEF NextTask
  <2>2. CASE stage' = "reported" /\ UNCHANGED batch
    BY <1>0, <2>1, <2>2 DEF InvocationsInv, Engaged
  <2>3. CASE ~(stage' = "reported" /\ UNCHANGED batch)
    <3> DEFINE todo == IF batch = {} THEN Ready ELSE batch
    <3>1. PICK k \in todo : inHand' = plan[k] /\ batch' = todo \ {k} /\ stage' = "producer"
      BY <1>2, <2>3 DEF NextTask, Least
    <3>2. inHand'.id \notin Accepted
      <4> HIDE DEF todo
      <4>1. todo = (IF batch = {} THEN Ready ELSE batch)
        BY DEF todo
      <4> QED
        BY <1>2, <3>1, <4>1, TaskTaken
    <3>3. \A i \in DOMAIN ran : ran[i].task \in Accepted /\ ran[i].task # inHand'.id
      BY <1>0, <2>1, <3>2 DEF InvocationsInv
    <3>4. \A who : Completed(who)' = {}
      BY <2>1, <3>3 DEF Completed
    <3> QED
      BY <1>0, <2>1, <3>1, <3>3, <3>4 DEF InvocationsInv, Engaged
  <2> QED
    BY <2>2, <2>3
<1>3. CASE Synthesize
  <2>1. /\ UNCHANGED <<ran, inHand, results>> /\ stage = "synthesis" /\ stage' \in {"review", "failed"}
    BY <1>3 DEF Synthesize
  <2> QED
    BY <1>0, <2>1, CompletedKept, AcceptedKept DEF InvocationsInv, Engaged
<1>4. CASE Review
  <2>1. UNCHANGED <<ran, inHand>> /\ stage = "review"
    BY <1>4 DEF Review
  <2>2. CASE results' = results /\ stage' \in {"failed", "synthesis", "review"}
    BY <1>0, <2>1, <2>2, CompletedKept, AcceptedKept DEF InvocationsInv, Engaged
  <2>3. CASE ~(results' = results /\ stage' \in {"failed", "synthesis", "review"})
    <3> DEFINE r == [task |-> inHand, cited |-> cited, checked |-> Checked]
    <3>1. results' = Append(results, r) /\ stage' = "pass"
      BY <1>4, <2>3 DEF Review
    <3>2. r \in AcceptedResults /\ r.task = inHand /\ results \in Seq(AcceptedResults)
      BY <1>0, <2>1 DEF PipelineInv, FlowInv, CitedInv, AcceptedResults, Checked, Engaged
    <3>3. Accepted' = Accepted \cup {inHand.id}
      <4> HIDE DEF r
      <4> QED
        BY <3>1, <3>2, AcceptedAppended
    <3>4. \A i \in DOMAIN ran : ran[i].task \in Accepted'
      BY <1>0, <2>1, <3>3 DEF InvocationsInv, Engaged
    <3> QED
      BY <1>0, <2>1, <3>1, <3>4 DEF InvocationsInv, Engaged
  <2> QED
    BY <2>2, <2>3
<1>5. CASE PolicyTurns
  <2>1. UNCHANGED <<ran, inHand, results, stage, attempted>>
    BY <1>5 DEF PolicyTurns
  <2> QED
    BY <1>0, <2>1, CompletedKept, AcceptedKept DEF InvocationsInv, Engaged
<1>6. ASSUME NEW who \in {"producer", "reviewer"}, ExecuteCall(who) PROVE InvocationsInv'
  <2>0. stage = who /\ UNCHANGED <<inHand, results>> /\ Accepted' = Accepted
    BY <1>6, AcceptedKept DEF ExecuteCall
  <2>1. CASE stage' = "failed" /\ ran' = ran
    BY <1>0, <2>1 DEF InvocationsInv, Engaged
  <2>2. CASE ~(stage' = "failed" /\ ran' = ran)
    <3>1. PICK k \in Outstanding(who) :
            /\ attempted' = attempted \cup {Fingerprint(inHand.calls[k])}
            /\ Reserve(inHand.calls[k]) /\ UNCHANGED stage
            /\ ran' = Append(ran, [task |-> inHand.id, who |-> who, at |-> k, call |-> inHand.calls[k]])
      BY <1>6, <2>2 DEF ExecuteCall, Least
    <3> DEFINE r == [task |-> inHand.id, who |-> who, at |-> k, call |-> inHand.calls[k]]
               n == Len(ran) + 1
    <3>2. ran \in Seq(Invocations) /\ r \in Invocations
      <4>1. inHand \in Tasks /\ k \in DOMAIN inHand.calls
        BY <1>0, <2>0, <3>1 DEF FlowInv, Engaged, Outstanding, CallsOf
      <4> QED
        BY <1>0, <4>1 DEF FlowInv, Invocations, ToSet
    <3>3. /\ DOMAIN ran = 1..Len(ran) /\ DOMAIN ran' = 1..n /\ Len(ran) \in Nat
          /\ ran'[n] = r /\ \A i \in DOMAIN ran : ran'[i] = ran[i]
      <4> HIDE DEF r
      <4>1. ran' = Append(ran, r)
        BY <3>1 DEF r
      <4> QED
        BY <3>2, <4>1
    <3>4. \A i \in DOMAIN ran' : i \in DOMAIN ran \/ i = n
      BY <3>3
    <3>5. /\ r.task = inHand.id /\ r.who = who /\ r.at = k /\ r.call = inHand.calls[k]
          /\ Fingerprint(r.call) \notin attempted /\ attempted' = attempted \cup {Fingerprint(r.call)}
      BY <3>1 DEF Reserve
    <3> HIDE DEF r, n
    <3>6. \A i \in DOMAIN ran : ran[i].task = inHand.id /\ ran[i].who = who =>
            Fingerprint(ran[i].call) # Fingerprint(r.call)
      BY <1>0, <2>0, <3>5 DEF InvocationsInv, Completed
    <3>7. \A i, j \in DOMAIN ran' :
            (/\ ran'[i].task = ran'[j].task /\ ran'[i].who = ran'[j].who
             /\ Fingerprint(ran'[i].call) = Fingerprint(ran'[j].call))
              => i = j
      BY <1>0, <3>3, <3>4, <3>5, <3>6 DEF InvocationsInv
    <3>8. \A i \in DOMAIN ran' :
            \/ ran'[i].task \in Accepted
            \/ ran'[i].task = inHand.id /\ ran'[i].call = inHand.calls[ran'[i].at]
      BY <1>0, <2>0, <3>3, <3>4, <3>5 DEF InvocationsInv, Engaged
    <3>9. \A p : Completed(p)' = Completed(p) \cup (IF p = who THEN {n} ELSE {})
      <4> SUFFICES ASSUME NEW p PROVE Completed(p)' = Completed(p) \cup (IF p = who THEN {n} ELSE {})
        OBVIOUS
      <4>1. Completed(p)' = {i \in DOMAIN ran' : ran'[i].task = inHand.id /\ ran'[i].who = p}
        BY <2>0 DEF Completed
      <4>2. DOMAIN ran' = DOMAIN ran \cup {n}
        BY <3>3 DEF n
      <4>3. \A i \in DOMAIN ran : i \in Completed(p)' <=> i \in Completed(p)
        BY <3>3, <4>1, <4>2 DEF Completed
      <4>4. n \in Completed(p)' <=> p = who
        BY <3>3, <3>5, <4>1, <4>2
      <4>5. Completed(p) \subseteq DOMAIN ran /\ Completed(p)' \subseteq DOMAIN ran \cup {n}
        BY <4>1, <4>2 DEF Completed
      <4>6. n \notin DOMAIN ran
        BY <3>3 DEF n
      <4> QED
        BY <4>3, <4>4, <4>5, <4>6
    <3>10. \A i \in Completed(who)' : Fingerprint(ran'[i].call) \in attempted'
      <4>1. \A i \in Completed(who) : i \in DOMAIN ran /\ Fingerprint(ran[i].call) \in attempted
        BY <1>0, <2>0 DEF InvocationsInv, Completed
      <4> QED
        BY <3>3, <3>5, <3>9, <4>1
    <3>11. stage' = who
      BY <2>0, <3>1
    <3>12. who = "producer" => Completed("reviewer")' = {}
      BY <1>0, <2>0, <3>9 DEF InvocationsInv
    <3>13. who = "reviewer" => AllCompleted("producer")'
      <4> SUFFICES ASSUME who = "reviewer", NEW j \in CallsOf(inHand, "producer")
                   PROVE  \E i \in Completed("producer")' : ran'[i].call = inHand.calls[j]
        BY <2>0 DEF AllCompleted, CallsOf, ReviewTools, ToolsOf
      <4>1. PICK i \in Completed("producer") : ran[i].call = inHand.calls[j]
        BY <1>0, <2>0 DEF InvocationsInv, AllCompleted
      <4>2. i \in DOMAIN ran
        BY DEF Completed
      <4> QED
        BY <3>3, <3>9, <4>1, <4>2
    <3> QED
      BY <2>0, <3>7, <3>8, <3>10, <3>11, <3>12, <3>13 DEF InvocationsInv, Engaged
  <2> QED
    BY <2>1, <2>2
<1>7. ASSUME NEW who \in {"producer", "reviewer"}, EndCalls(who) PROVE InvocationsInv'
  <2>0. /\ stage = who /\ UNCHANGED <<inHand, results, ran>> /\ Outstanding(who) = {}
        /\ stage' \in {"failed", IF who = "producer" THEN "reviewer" ELSE "synthesis"}
    BY <1>7 DEF EndCalls
  <2>1. AllCompleted(who)
    <3> SUFFICES ASSUME NEW k \in CallsOf(inHand, who)
                 PROVE  \E i \in Completed(who) : ran[i].call = inHand.calls[k]
      BY DEF AllCompleted
    <3>1. PICK i \in Completed(who) : ran[i].at = k
      BY <2>0 DEF Outstanding
    <3>2. i \in DOMAIN ran /\ ran[i].task = inHand.id
      BY DEF Completed
    <3>3. inHand.id \notin Accepted
      BY <1>0, <2>0 DEF PassInv, Engaged
    <3>4. ran[i].call = inHand.calls[k]
      BY <1>0, <2>0, <3>1, <3>2, <3>3 DEF InvocationsInv, Engaged
    <3> QED
      BY <3>4
  <2>2. who = "reviewer" => AllCompleted("producer")
    BY <1>0, <2>0 DEF InvocationsInv
  <2>3. who = "producer" => Completed("reviewer") = {}
    BY <1>0, <2>0 DEF InvocationsInv
  <2> QED
    BY <1>0, <2>0, <2>1, <2>2, <2>3, CompletedKept, AcceptedKept DEF InvocationsInv, Engaged
<1>8. CASE UNCHANGED pipelineVars
  <2>1. UNCHANGED <<ran, inHand, results, stage, attempted>>
    BY <1>8 DEF pipelineVars
  <2> QED
    BY <1>0, <2>1, CompletedKept, AcceptedKept DEF InvocationsInv, Engaged
<1> QED
  BY <1>1, <1>2, <1>3, <1>4, <1>5, <1>6, <1>7, <1>8 DEF PipelineNext

\* Every step keeps what results cite grounded.
LEMMA CitedKept == PipelineInv /\ [PipelineNext]_pipelineVars => CitedInv'
<1> SUFFICES ASSUME PipelineInv, [PipelineNext]_pipelineVars PROVE CitedInv'
  OBVIOUS
<1>0. FlowInv /\ PassInv /\ CitedInv
  BY DEF PipelineInv
<1>1. results' = results /\ ran' = ran => AcceptedGrounded'
  BY <1>0 DEF CitedInv, AcceptedGrounded
<1>2. CASE ProposePlan
  BY <1>0, <1>1, <1>2 DEF ProposePlan, CitedInv
<1>3. CASE NextTask
  BY <1>0, <1>1, <1>3 DEF NextTask, CitedInv
<1>4. CASE Synthesize
  BY <1>0, <1>1, <1>4 DEF Synthesize, CitedInv
<1>5. CASE Review
  <2>0. stage = "review" /\ UNCHANGED <<ran, inHand, cited>>
    BY <1>5 DEF Review
  <2>1. CASE results' = results
    BY <1>0, <1>1, <2>0, <2>1 DEF CitedInv
  <2>2. CASE results' # results
    <3> DEFINE r == [task |-> inHand, cited |-> cited, checked |-> Checked]
    <3>1. results' = Append(results, r) /\ stage' = "pass" /\ cited \subseteq Checked /\ inHand.role # ReviewRole
      BY <1>5, <2>2 DEF Review, Acceptable
    <3>2. r \in AcceptedResults /\ r.task = inHand /\ r.cited = cited /\ results \in Seq(AcceptedResults)
      BY <1>0, <2>0 DEF FlowInv, CitedInv, AcceptedResults, Checked, Engaged
    <3>3. ToSet(results') = ToSet(results) \cup {r}
      <4> HIDE DEF r
      <4> QED
        BY <3>1, <3>2 DEF ToSet
    <3>4. inHand.paths \subseteq Discovered
      <4>1. inHand \in ToSet(plan) /\ plan \in AcceptedPlans
        BY <1>0, <2>0 DEF PassInv, FlowInv, Engaged, PlanAccepted
      <4> QED
        BY <4>1, TaskInContract DEF AcceptedPlans
    <3>5. cited # {} /\ cited \subseteq inHand.paths \cap Discovered
      BY <1>0, <2>0, <3>4 DEF CitedInv
    <3>6. \A path \in cited : \E x \in ToSet(ran) : /\ x.task = inHand.id /\ x.who = "reviewer"
                                                   /\ x.call.tool \in ReadTools /\ x.call.argument = path
      BY <3>1 DEF Checked, Observed, Completed, ToSet
    <3>7. ToSet(ran') = ToSet(ran)
      BY <2>0
    <3> HIDE DEF r
    <3>8. AcceptedGrounded'
      BY <1>0, <3>1, <3>2, <3>3, <3>5, <3>6, <3>7 DEF CitedInv, AcceptedGrounded
    <3> QED
      BY <1>0, <2>0, <3>1, <3>8 DEF CitedInv
  <2> QED
    BY <2>1, <2>2
<1>6. CASE PolicyTurns
  BY <1>0, <1>1, <1>6 DEF PolicyTurns, CitedInv
<1>7. ASSUME NEW who \in {"producer", "reviewer"}, ExecuteCall(who) PROVE CitedInv'
  <2>0. stage = who /\ UNCHANGED <<inHand, results, cited>> /\ stage' \in {who, "failed"}
    BY <1>7 DEF ExecuteCall
  <2>1. CASE ran' = ran
    BY <1>0, <1>1, <2>0, <2>1 DEF CitedInv
  <2>2. CASE ran' # ran
    <3>1. PICK k \in Outstanding(who) :
            ran' = Append(ran, [task |-> inHand.id, who |-> who, at |-> k, call |-> inHand.calls[k]])
      BY <1>7, <2>2 DEF ExecuteCall, Least
    <3> DEFINE r == [task |-> inHand.id, who |-> who, at |-> k, call |-> inHand.calls[k]]
    <3>2. ran \in Seq(Invocations) /\ r \in Invocations
      <4>1. inHand \in Tasks /\ k \in DOMAIN inHand.calls
        BY <1>0, <2>0, <3>1 DEF FlowInv, Engaged, Outstanding, CallsOf
      <4> QED
        BY <1>0, <4>1 DEF FlowInv, Invocations, ToSet
    <3>3. ToSet(ran) \subseteq ToSet(ran')
      <4> HIDE DEF r
      <4>1. ran' = Append(ran, r)
        BY <3>1 DEF r
      <4> QED
        BY <3>2, <4>1 DEF ToSet
    <3>4. ToSet(results') = ToSet(results)
      BY <2>0
    <3>5. AcceptedGrounded'
      BY <1>0, <3>3, <3>4 DEF CitedInv, AcceptedGrounded
    <3> QED
      BY <1>0, <2>0, <3>5 DEF CitedInv
  <2> QED
    BY <2>1, <2>2
<1>8. ASSUME NEW who \in {"producer", "reviewer"}, EndCalls(who) PROVE CitedInv'
  BY <1>0, <1>1, <1>8 DEF EndCalls, CitedInv
<1>9. CASE UNCHANGED pipelineVars
  BY <1>0, <1>1, <1>9 DEF pipelineVars, CitedInv
<1> QED
  BY <1>2, <1>3, <1>4, <1>5, <1>6, <1>7, <1>8, <1>9 DEF PipelineNext

\* What the budgets say of one step: a round fits in its budget, a task in its rounds, and
\* an accepted task is one of those of the plan.
LEMMA TaskFits ==
  ASSUME NEW r \in 1..ReviewRetries + 1, NEW c \in 0..ReviewRetries
  PROVE  /\ (r - 1) * RoundBudget \in Nat /\ (c + 1) * AnswerBudget \in Nat
         /\ (c + 2) * AnswerBudget
               = (c + 1) * AnswerBudget + AnswerBudget
         /\ (r - 1) * RoundBudget + (c + 2) * AnswerBudget <= r * RoundBudget
         /\ r * RoundBudget <= TaskBudget
         /\ r * RoundBudget \in Nat
<1> DEFINE E == AnswerBudget
           R == Attempts(ReviewRetries)
           W == RoundBudget
<1>1. E \in Nat /\ R \in Nat /\ W \in Nat /\ R = ReviewRetries + 1 /\ ReviewRetries \in Nat
  BY AttemptsType, BudgetType
<1>2. W = E + R * E /\ TaskBudget = R * W
  BY DEF RoundBudget, TaskBudget
<1> HIDE DEF E, R, W
<1>3. r - 1 \in Nat /\ r \in Nat /\ c + 1 \in Nat /\ c + 2 \in Nat /\ r <= R /\ c + 1 <= R
  BY <1>1
<1>4. (r - 1) * W \in Nat /\ (c + 1) * E \in Nat /\ r * W \in Nat /\ R * E \in Nat
  BY <1>1, <1>3, Products
<1>5. (c + 2) * E = (c + 1) * E + E
  <2>1. ((c + 1) + 1) * E = (c + 1) * E + E
    BY <1>1, <1>3, Products
  <2> QED
    BY <1>3, <2>1
<1>6. r * W = (r - 1) * W + W
  <2>1. ((r - 1) + 1) * W = (r - 1) * W + W
    BY <1>1, <1>3, Products
  <2> QED
    BY <1>3, <2>1
<1>7. (c + 1) * E <= R * E /\ r * W <= R * W
  BY <1>1, <1>3, Products
<1>8. (r - 1) * W + (c + 2) * E <= r * W
  BY <1>1, <1>2, <1>4, <1>5, <1>6, <1>7
<1> QED
  BY <1>2, <1>4, <1>5, <1>7, <1>8 DEF E, W

\* The tasks accepted, and the one in hand, are tasks of the plan.
LEMMA WithinBudget ==
  ASSUME PipelineInv, PlanAccepted
  PROVE  /\ proposed * ProposalBudget \in Nat /\ Len(results) * TaskBudget \in Nat
         /\ proposed * ProposalBudget + Len(results) * TaskBudget <= KickoffBudget
         /\ Engaged => proposed * ProposalBudget + Len(results) * TaskBudget + TaskBudget
                          <= KickoffBudget
<1> DEFINE A == ProposalBudget
           P == Attempts(PlanRetries)
           T == TaskBudget
           L == Len(results)
<1>1. A \in Nat /\ P \in Nat /\ T \in Nat /\ P = PlanRetries + 1
  BY AttemptsType, BudgetType
<1>2. proposed \in Nat /\ proposed <= P /\ L = Cardinality(Accepted) /\ L \in Nat
  BY <1>1, AttemptsType DEF PipelineInv, KickoffInv, FlowInv
<1>3. IsFiniteSet(Ids(plan)) /\ Cardinality(Ids(plan)) = Len(plan) /\ Len(plan) \in Nat
  BY TasksDistinct, ProposalType DEF PlanAccepted, AcceptedPlans
<1>4. L <= Len(plan)
  BY <1>2, <1>3, FS_Subset DEF PipelineInv, PassInv
<1>5. Engaged => L + 1 <= Len(plan)
  <2> SUFFICES ASSUME Engaged PROVE L + 1 <= Len(plan)
    OBVIOUS
  <2>1. inHand.id \in Ids(plan) /\ inHand.id \notin Accepted /\ Accepted \subseteq Ids(plan)
    BY DEF PipelineInv, PassInv, Ids, ToSet
  <2>2. Accepted # Ids(plan) /\ Cardinality(Accepted) <= Cardinality(Ids(plan))
        /\ (Cardinality(Accepted) = Cardinality(Ids(plan)) => Accepted = Ids(plan))
    BY <1>3, <2>1, FS_Subset
  <2> QED
    BY <1>2, <1>3, <2>2
<1>6. KickoffBudget = P * A + Len(plan) * T
  BY DEF KickoffBudget
<1> HIDE DEF A, P, T, L
<1>7. proposed * A <= P * A /\ proposed * A \in Nat /\ P * A \in Nat
  BY <1>1, <1>2, Products
<1>8. L * T \in Nat /\ Len(plan) * T \in Nat /\ L * T <= Len(plan) * T
  BY <1>1, <1>2, <1>3, <1>4, Products
<1>9. Engaged => L * T + T <= Len(plan) * T
  <2>1. (L + 1) * T = L * T + T
    BY <1>1, <1>2, Products
  <2> QED
    BY <1>1, <1>2, <1>3, <1>5, <2>1, Products, SMTT(60)
<1>10. Engaged => proposed * A + L * T + T <= KickoffBudget
  BY <1>1, <1>6, <1>7, <1>8, <1>9, SMTT(60)
<1>11. proposed * A + L * T <= KickoffBudget
  BY <1>6, <1>7, <1>8
<1> QED
  BY <1>7, <1>8, <1>10, <1>11 DEF A, L, T

\* However many candidates are passed over, a kick-off stays within all attempts of all.
LEMMA KickedOff ==
  ASSUME NEW calls \in Nat \ {0}, NEW retries \in Nat, kickoffs \in Nat,
         KickOff(calls, retries) \/ KickOffInVain(calls, retries)
  PROVE  kickoffs' \in Nat /\ kickoffs' <= kickoffs + calls * ModelCandidates * Attempts(retries)
<1> DEFINE A == Attempts(retries)
           K == calls * ModelCandidates
<1>1. A \in Nat \ {0} /\ K \in Nat \ {0}
  <2>1. A \in Nat \ {0} /\ ModelCandidates \in Nat \ {0}
    BY AttemptsType
  <2> HIDE DEF A
  <2> QED
    BY <2>1, Products
<1>2. ASSUME NEW n \in Nat, n <= K PROVE n * A \in Nat /\ n * A <= K * A
  <2> HIDE DEF A, K
  <2> QED
    BY <1>1, <1>2, Products
<1>3. CASE KickOff(calls, retries)
  <2>1. PICK passed \in 0..K - 1, n \in 1..A : kickoffs' = kickoffs + passed * A + n
    BY <1>3 DEF KickOff
  <2> HIDE DEF A, K
  <2>2. (passed + 1) * A = passed * A + A /\ passed * A \in Nat
    BY <1>1, Products
  <2>3. passed + 1 \in Nat /\ passed + 1 <= K
    BY <1>1
  <2>4. (passed + 1) * A <= K * A
    BY <1>2, <2>3
  <2>5. kickoffs' \in Nat /\ kickoffs' <= kickoffs + K * A
    <3>1. K * A \in Nat
      BY <1>1, Products
    <3> QED
      BY <1>1, <2>1, <2>2, <2>4, <3>1
  <2> QED
    BY <2>5 DEF A, K
<1>4. CASE KickOffInVain(calls, retries)
  <2>1. PICK passed \in 0..K : kickoffs' = kickoffs + passed * A
    BY <1>4 DEF KickOffInVain
  <2> HIDE DEF A, K
  <2>2. kickoffs' \in Nat /\ kickoffs' <= kickoffs + K * A
    <3>1. K * A \in Nat /\ passed \in Nat /\ passed <= K
      BY <1>1, Products
    <3>2. passed * A \in Nat /\ passed * A <= K * A
      BY <1>2, <3>1
    <3> QED
      BY <2>1, <3>1, <3>2
  <2> QED
    BY <2>2 DEF A, K
<1> QED
  BY <1>3, <1>4

\* What one proposal and one answer may cost.
LEMMA AskedOnce ==
  ASSUME kickoffs \in Nat
  PROVE  /\ KickOff(1, OutputRetries) \/ KickOffInVain(1, OutputRetries)
              => kickoffs' \in Nat /\ kickoffs' <= kickoffs + ProposalBudget
         /\ (KickOff(Attempts(ExecutionRetries), 0) \/ KickOffInVain(Attempts(ExecutionRetries), 0))
              => kickoffs' \in Nat /\ kickoffs' <= kickoffs + AnswerBudget
<1>1. /\ OutputRetries \in Nat /\ Attempts(ExecutionRetries) \in Nat \ {0}
      /\ ProposalBudget = 1 * ModelCandidates * Attempts(OutputRetries)
      /\ AnswerBudget = Attempts(ExecutionRetries) * ModelCandidates * Attempts(0)
  BY AttemptsType, BudgetType
<1>2. KickOff(1, OutputRetries) \/ KickOffInVain(1, OutputRetries)
        => kickoffs' \in Nat /\ kickoffs' <= kickoffs + 1 * ModelCandidates * Attempts(OutputRetries)
  BY <1>1, KickedOff
<1>3. (KickOff(Attempts(ExecutionRetries), 0) \/ KickOffInVain(Attempts(ExecutionRetries), 0))
        => /\ kickoffs' \in Nat
           /\ kickoffs' <= kickoffs + Attempts(ExecutionRetries) * ModelCandidates * Attempts(0)
  BY <1>1, KickedOff
<1> QED
  BY <1>1, <1>2, <1>3

\* Every step keeps within the budget of its stage.
LEMMA KickoffKept == PipelineInv /\ [PipelineNext]_pipelineVars => KickoffInv'
<1> SUFFICES ASSUME PipelineInv, [PipelineNext]_pipelineVars PROVE KickoffInv'
  OBVIOUS
<1> DEFINE A == ProposalBudget
           E == AnswerBudget
           T == TaskBudget
           L == Len(results)
<1>0. FlowInv /\ PassInv /\ KickoffInv
  BY DEF PipelineInv
<1>a. /\ A \in Nat \ {0} /\ E \in Nat \ {0} /\ T \in Nat /\ RoundBudget \in Nat
      /\ PlanRetries \in Nat /\ ReviewRetries \in Nat
  BY AttemptsType, BudgetType
<1>b. results' = results => Accepted' = Accepted
  BY AcceptedKept
<1>1. CASE ProposePlan
  <2>1. stage = "propose" /\ plan = <<>> /\ results = <<>> /\ results' = results /\ proposed' = proposed + 1
    BY <1>0, <1>1 DEF ProposePlan, FlowInv
  <2>2. UNCHANGED <<round, recheck>> /\ stage' \in {"propose", "pass", "failed"}
    BY <1>1 DEF ProposePlan
  <2>3. kickoffs' \in Nat /\ kickoffs' <= kickoffs + A
    <3>1. KickOff(1, OutputRetries) \/ KickOffInVain(1, OutputRetries)
      BY <1>1 DEF ProposePlan
    <3>2. kickoffs \in Nat
      BY <1>0 DEF KickoffInv
    <3> QED
      BY <3>1, <3>2, AskedOnce
  <2>4. L = 0 /\ L * T = 0 /\ proposed \in Nat /\ proposed <= PlanRetries /\ proposed * A \in Nat
    <3>1. L = 0 /\ proposed \in Nat /\ proposed <= PlanRetries
      BY <1>0, <1>a, <2>1 DEF KickoffInv
    <3> HIDE DEF A, T, L
    <3> QED
      BY <1>a, <3>1, Products
  <2>5. proposed' * A = proposed * A + A
    <3> HIDE DEF A
    <3> QED
      BY <1>a, <2>1, <2>4, Products
  <2>6. kickoffs <= proposed * A + L * T + 0
    BY <1>0, <2>1 DEF KickoffInv, Spent
  <2>7. kickoffs' <= proposed' * A
    <3> HIDE DEF A, T, L
    <3> QED
      BY <1>0, <1>a, <2>3, <2>4, <2>5, <2>6 DEF KickoffInv
  <2>8. Spent(0)'
    <3>1. L' = 0 /\ (L * T)' = 0
      BY <2>1, <2>4
    <3>2. proposed' * A \in Nat
      <4> HIDE DEF A
      <4> QED
        BY <1>a, <2>4, <2>5
    <3>3. kickoffs' <= proposed' * A + (L * T)' + 0
      <4> HIDE DEF A, T, L
      <4> QED
        BY <2>3, <2>7, <3>1, <3>2
    <3> QED
      BY <3>3 DEF Spent
  <2>9. KickoffsBounded'
    <3>1. Len(plan') \in Nat
      BY <1>1, <2>1, ProposalType DEF ProposePlan
    <3>2. KickoffBudget' = Attempts(PlanRetries) * A + Len(plan') * T
      BY DEF KickoffBudget
    <3>3. Attempts(PlanRetries) \in Nat /\ proposed' \in Nat /\ proposed' <= Attempts(PlanRetries)
      <4>1. Attempts(PlanRetries) \in Nat /\ Attempts(PlanRetries) = PlanRetries + 1
        BY AttemptsType
      <4> HIDE DEF A, T, L
      <4> QED
        BY <1>a, <2>1, <2>4, <4>1
    <3> HIDE DEF A, T
    <3>4. Len(plan') * T \in Nat /\ Attempts(PlanRetries) * A \in Nat
          /\ proposed' * A <= Attempts(PlanRetries) * A /\ proposed' * A \in Nat
      BY <1>a, <3>1, <3>3, Products
    <3>5. kickoffs' <= KickoffBudget'
      BY <2>3, <2>7, <3>2, <3>4
    <3> QED
      BY <3>5 DEF KickoffsBounded
  <2>10. stage' = "propose" => proposed' <= PlanRetries
    BY <1>1, <1>a, <2>1, <2>4 DEF ProposePlan, Attempts
  <2> HIDE DEF A, E, T, L
  <2> QED
    BY <1>0, <1>a, <1>b, <2>1, <2>2, <2>3, <2>4, <2>8, <2>9, <2>10 DEF KickoffInv, Engaged
<1>2. CASE ~ProposePlan /\ PlanAccepted
  <2>0. /\ proposed * A \in Nat /\ L * T \in Nat /\ kickoffs \in Nat
        /\ proposed * A + L * T <= KickoffBudget
        /\ Engaged => proposed * A + L * T + T <= KickoffBudget
    BY <1>0, <1>2, WithinBudget DEF KickoffInv
  <2>1. CASE NextTask
    <3>1. /\ UNCHANGED <<results, proposed, kickoffs, plan, recheck>> /\ stage = "pass"
          /\ \/ stage' = "producer" /\ round' = 1
             \/ stage' = "reported" /\ round' = round
      BY <2>1 DEF NextTask
    <3>2. Spent(0)' /\ KickoffsBounded'
      BY <1>0, <3>1 DEF KickoffInv, Spent, KickoffsBounded, KickoffBudget
    <3> QED
      BY <1>0, <1>a, <1>b, <3>1, <3>2 DEF KickoffInv, Engaged
  <2>2. CASE PolicyTurns \/ UNCHANGED pipelineVars
    <3>1. UNCHANGED <<stage, plan, results, proposed, kickoffs, round, recheck>>
      BY <2>2 DEF PolicyTurns, pipelineVars
    <3> QED
      BY <1>0, <1>b, <3>1 DEF KickoffInv, Engaged, Spent, KickoffsBounded, KickoffBudget
  <2>3. ASSUME NEW who \in {"producer", "reviewer"}, ExecuteCall(who) \/ EndCalls(who) PROVE KickoffInv'
    <3>1. /\ UNCHANGED <<plan, results, proposed, kickoffs, round, recheck>> /\ stage = who
          /\ stage' \in {"failed", "producer", "reviewer", "synthesis"}
      BY <2>3 DEF ExecuteCall, EndCalls
    <3>2. round' = 1 /\ Spent(0)' /\ KickoffsBounded'
      BY <1>0, <3>1 DEF KickoffInv, Spent, KickoffsBounded, KickoffBudget
    <3>3. (round' - 1) * RoundBudget = 0
      BY <1>a, <3>2, Products
    <3>4. Spent((round - 1) * RoundBudget)'
      BY <3>2, <3>3 DEF Spent
    <3> QED
      BY <1>0, <1>a, <1>b, <3>1, <3>2, <3>4 DEF KickoffInv, Engaged
  <2>4. CASE Synthesize
    <3>1. /\ UNCHANGED <<plan, results, proposed, round>> /\ stage = "synthesis" /\ recheck' = 0
          /\ stage' \in {"review", "failed"} /\ Engaged
      BY <2>4 DEF Synthesize, Engaged
    <3>2. kickoffs' \in Nat /\ kickoffs' <= kickoffs + E
      <4>1. KickOff(Attempts(ExecutionRetries), 0) \/ KickOffInVain(Attempts(ExecutionRetries), 0)
        BY <2>4 DEF Synthesize
      <4> QED
        BY <2>0, <4>1, AskedOnce
    <3>3. kickoffs <= proposed * A + L * T + (round - 1) * RoundBudget /\ round \in 1..ReviewRetries + 1
      BY <1>0, <3>1 DEF KickoffInv, Spent
    <3>4. /\ (round - 1) * RoundBudget \in Nat /\ (0 + 1) * E = E
          /\ (round - 1) * RoundBudget + E <= round * RoundBudget /\ round * RoundBudget <= T
          /\ round * RoundBudget \in Nat
      <4>1. 0 \in 0..ReviewRetries
        BY <1>a
      <4>2. /\ (round - 1) * RoundBudget \in Nat /\ (0 + 1) * E \in Nat
            /\ (0 + 2) * E = (0 + 1) * E + E
            /\ (round - 1) * RoundBudget + (0 + 2) * E <= round * RoundBudget
            /\ round * RoundBudget <= T /\ round * RoundBudget \in Nat
        BY <3>3, <4>1, TaskFits
      <4>3. (0 + 1) * E = E
        BY <1>a, Products
      <4> HIDE DEF E, T
      <4> QED
        BY <1>a, <4>2, <4>3
    <3>5. Spent((round - 1) * RoundBudget + (recheck + 1) * E)'
      <4>1. kickoffs' <= proposed * A + L * T + ((round - 1) * RoundBudget + (0 + 1) * E)
        <5> HIDE DEF A, E, T, L
        <5> QED
          BY <1>a, <2>0, <3>2, <3>3, <3>4
      <4> QED
        BY <3>1, <4>1 DEF Spent
    <3>6. KickoffsBounded'
      <4>1. kickoffs' <= KickoffBudget /\ KickoffBudget' = KickoffBudget
        <5>1. KickoffBudget \in Int
          BY <1>0, <1>2, BudgetType, Products, ProposalType DEF KickoffBudget, PlanAccepted, AcceptedPlans
        <5>2. KickoffBudget' = KickoffBudget
          BY <3>1 DEF KickoffBudget
        <5> HIDE DEF A, E, T, L
        <5> QED
          BY <1>a, <2>0, <3>1, <3>2, <3>3, <3>4, <5>1, <5>2
      <4> QED
        BY <4>1 DEF KickoffsBounded
    <3> QED
      BY <1>0, <1>a, <1>b, <3>1, <3>2, <3>5, <3>6 DEF KickoffInv, Engaged
  <2>5. CASE Review
    <3>1. UNCHANGED <<plan, proposed>> /\ stage = "review" /\ Engaged
      BY <2>5 DEF Review, Engaged
    <3>2. kickoffs' \in Nat /\ kickoffs' <= kickoffs + E
      <4>1. KickOff(Attempts(ExecutionRetries), 0) \/ KickOffInVain(Attempts(ExecutionRetries), 0)
        BY <2>5 DEF Review
      <4> QED
        BY <2>0, <4>1, AskedOnce
    <3>3. /\ kickoffs <= proposed * A + L * T + ((round - 1) * RoundBudget + (recheck + 1) * E)
          /\ round \in 1..ReviewRetries + 1 /\ recheck \in 0..ReviewRetries
      BY <1>0, <3>1 DEF KickoffInv, Spent
    <3>4. /\ (round - 1) * RoundBudget \in Nat /\ (recheck + 1) * E \in Nat
          /\ (recheck + 2) * E = (recheck + 1) * E + E
          /\ (round - 1) * RoundBudget + (recheck + 2) * E <= round * RoundBudget
          /\ round * RoundBudget <= T /\ round * RoundBudget \in Nat
      BY <3>3, TaskFits
    <3>5. kickoffs' <= proposed * A + L * T + ((round - 1) * RoundBudget + (recheck + 2) * E)
      <4> HIDE DEF A, E, T, L
      <4> QED
        BY <1>a, <2>0, <3>2, <3>3, <3>4
    <3>6. kickoffs' <= proposed * A + L * T + round * RoundBudget
      <4> HIDE DEF A, E, T, L
      <4> QED
        BY <1>a, <2>0, <3>2, <3>4, <3>5
    <3>7. kickoffs' <= proposed * A + L * T + T
      <4> HIDE DEF A, E, T, L
      <4> QED
        BY <1>a, <2>0, <3>2, <3>4, <3>6
    <3>8. KickoffsBounded'
      <4>1. KickoffBudget \in Int
        BY <1>0, <1>2, BudgetType, Products, ProposalType DEF KickoffBudget, PlanAccepted, AcceptedPlans
      <4>2. KickoffBudget' = KickoffBudget
        BY <3>1 DEF KickoffBudget
      <4>3. kickoffs' <= KickoffBudget
        <5> HIDE DEF A, E, T, L
        <5> QED
          BY <1>a, <2>0, <3>1, <3>2, <3>7, <4>1
      <4> QED
        BY <4>2, <4>3 DEF KickoffsBounded
    <3>9. CASE results' = results
      <4>1. \/ stage' = "failed" /\ UNCHANGED <<round, recheck>>
            \/ stage' = "synthesis" /\ round' = round + 1 /\ round < ReviewRetries + 1 /\ recheck' = recheck
            \/ stage' = "review" /\ round' = round /\ recheck' = recheck + 1 /\ recheck + 1 < ReviewRetries + 1
        <5>1. results # Append(results, [task |-> inHand, cited |-> cited, checked |-> Checked])
          <6>1. results \in Seq(AcceptedResults)
            BY <1>0 DEF FlowInv
          <6> QED
            BY <6>1
        <5> QED
          BY <2>5, <3>9, <5>1, AttemptsType DEF Review
      <4>2. stage' = "synthesis" => Spent((round - 1) * RoundBudget)'
        <5>1. stage' = "synthesis" => (round' - 1) * RoundBudget = round * RoundBudget
          BY <1>a, <3>3, <4>1
        <5> QED
          BY <3>1, <3>6, <3>9, <5>1 DEF Spent
      <4>3. stage' = "review" => Spent((round - 1) * RoundBudget + (recheck + 1) * E)'
        <5>1. stage' = "review" => (recheck' + 1) = recheck + 2 /\ round' = round
          BY <1>a, <3>3, <4>1
        <5> QED
          BY <3>1, <3>5, <3>9, <5>1 DEF Spent
      <4> QED
        <5>1. /\ round' \in 0..ReviewRetries + 1 /\ recheck' \in 0..ReviewRetries
              /\ Engaged' => round' \in 1..ReviewRetries + 1
          BY <1>a, <3>3, <4>1
        <5>2. IsFiniteSet(Accepted') /\ Cardinality(Accepted') = Len(results')
          BY <1>0, <1>b, <3>9 DEF KickoffInv
        <5>3. proposed' \in 0..PlanRetries + 1 /\ stage' \in {"failed", "synthesis", "review"}
          BY <1>0, <3>1, <4>1 DEF KickoffInv
        <5> HIDE DEF A, E, T, L
        <5>4. stage' = "review" => Spent((round - 1) * RoundBudget + (recheck + 1) * AnswerBudget)'
          BY <4>3 DEF E
        <5> QED
          BY <3>2, <3>8, <4>2, <5>1, <5>2, <5>3, <5>4 DEF KickoffInv, Engaged
    <3>10. CASE results' # results
      <4> DEFINE r == [task |-> inHand, cited |-> cited, checked |-> Checked]
      <4>1. results' = Append(results, r) /\ stage' = "pass" /\ UNCHANGED <<round, recheck>>
        BY <2>5, <3>10 DEF Review
      <4>2. r \in AcceptedResults /\ r.task = inHand /\ results \in Seq(AcceptedResults)
        BY <1>0, <3>1 DEF PipelineInv, FlowInv, CitedInv, AcceptedResults, Checked, Engaged
      <4>3. Len(results') = L + 1 /\ L \in Nat
        <5> HIDE DEF r
        <5> QED
          BY <4>1, <4>2
      <4>4. Accepted' = Accepted \cup {inHand.id}
        <5> HIDE DEF r
        <5> QED
          BY <4>1, <4>2, AcceptedAppended
      <4>5. IsFiniteSet(Accepted') /\ Cardinality(Accepted') = Len(results')
        <5>1. inHand.id \notin Accepted /\ IsFiniteSet(Accepted) /\ Cardinality(Accepted) = L
          BY <1>0, <3>1 DEF PassInv, KickoffInv
        <5> QED
          BY <4>3, <4>4, <5>1, FS_AddElement
      <4>6. Spent(0)'
        <5>1. (L + 1) * T = L * T + T
          <6> HIDE DEF T, L
          <6> QED
            BY <1>a, <4>3, Products
        <5>2. kickoffs' <= proposed * A + (L + 1) * T + 0
          <6> HIDE DEF A, T, L
          <6> QED
            BY <1>a, <2>0, <3>2, <3>7, <5>1
        <5> QED
          BY <3>1, <4>3, <5>2 DEF Spent
      <4> QED
        BY <1>0, <3>1, <3>2, <3>8, <4>1, <4>5, <4>6 DEF KickoffInv, Engaged
    <3> QED
      BY <3>9, <3>10
  <2> QED
    BY <1>2, <2>1, <2>2, <2>3, <2>4, <2>5 DEF PipelineNext
<1>3. CASE ~ProposePlan /\ ~PlanAccepted
  <2>1. UNCHANGED pipelineVars
    BY <1>0, <1>3 DEF FlowInv, Engaged, PipelineNext, NextTask, Synthesize, Review, PolicyTurns,
         ExecuteCall, EndCalls
  <2> QED
    BY <1>0, <1>b, <2>1 DEF pipelineVars, KickoffInv, Engaged, Spent, KickoffsBounded, KickoffBudget
<1> QED
  BY <1>1, <1>2, <1>3

-----------------------------------------------------------------------------
\* The invariant says what is required of the pipeline.
LEMMA PipelineImplied == PipelineInv => PlanCarriedOut
<1> SUFFICES ASSUME PipelineInv PROVE PlanCarriedOut
  OBVIOUS
<1>1. FlowInv /\ PassInv /\ InvocationsInv /\ CitedInv /\ KickoffInv
  BY DEF PipelineInv
<1>2. PipelineTypeOK
  BY <1>1 DEF FlowInv, PassInv, CitedInv, KickoffInv, PipelineTypeOK
<1>3. NeverSpins
  <2>1. stage = "pass" /\ Accepted # Ids(plan) => Ready # {}
    BY <1>1, SomeReady DEF FlowInv, PassInv
  <2> QED
    BY <1>1, <2>1 DEF PassInv, NeverSpins
<1>4. EvidenceComplete
  BY <1>1 DEF InvocationsInv, AllCompleted, EvidenceComplete
<1> QED
  BY <1>1, <1>2, <1>3, <1>4 DEF CitedInv, KickoffInv, PlanCarriedOut

\* In every run of the flow, whatever the models propose, cite and decide and whenever the
\* policy turns: an accepted plan never spins, nothing is synthesized before every accepted
\* call has completed once for its producer and its reviewer, what is accepted was read
\* again by another role, and the nested retries stay within their product.
THEOREM PlansCarriedOut == PipelineSpec => []PlanCarriedOut
<1>1. PipelineInit => PipelineInv
  BY PipelineInitially
<1>2. PipelineInv /\ [PipelineNext]_pipelineVars => PipelineInv'
  BY FlowKept, PassKept, InvocationsKept, CitedKept, KickoffKept DEF PipelineInv
<1>3. PipelineInv => PlanCarriedOut
  BY PipelineImplied
<1> QED
  BY <1>1, <1>2, <1>3, PTL DEF PipelineSpec

-----------------------------------------------------------------------------
\* What a claim consists of.
LEMMA ClaimType ==
  ASSUME NEW documents \in Sources, NEW c \in Claims(documents)
  PROVE  /\ c.document \in documents /\ c.rule \in c.document.rules
         /\ c.document.priority \in Int /\ c.rule.priority \in Int /\ c.rule.decision \in Decisions
         /\ IsFiniteSet(c.rule.scope.capability) /\ IsFiniteSet(c.rule.scope.effects)
         /\ c = [rule |-> c.rule, document |-> c.document]
BY PolicyAssumption DEF Claims, RulesOf

\* Selectors weigh as much as there are.
LEMMA WeightType == ASSUME NEW selectors, IsFiniteSet(selectors) PROVE Weight(selectors) \in Nat
<1>1. IsFiniteSet(selectors \ {"*"})
  BY FS_Difference
<1>2. Cardinality(selectors \ {"*"}) \in Nat
  BY <1>1, FS_CardinalityType
<1> QED
  BY <1>2 DEF Weight

\* Matches are ranked by three numbers.
LEMMA ScoreType ==
  ASSUME NEW documents \in Sources, NEW c \in Claims(documents)
  PROVE  Score(c) \in Int \X Int \X Int /\ Score(c)[1] = c.document.priority
<1>1. Specificity(c.rule.scope) \in Int
  <2>1. Weight(c.rule.scope.capability) \in Nat /\ Weight(c.rule.scope.effects) \in Nat
    BY ClaimType, WeightType
  <2> QED
    BY <2>1 DEF Specificity
<1> QED
  BY <1>1, ClaimType DEF Score

\* Two scores are equal or one outranks the other; equal scores outrank the same.
LEMMA RankTotal ==
  ASSUME NEW s \in Int \X Int \X Int, NEW t \in Int \X Int \X Int, ~Outranks(s, t)
  PROVE  s = t \/ (Outranks(t, s) /\ s[1] <= t[1])
BY DEF Outranks

\* A set of decisions with one element.
LEMMA OneVerdict ==
  ASSUME NEW V \in SUBSET Decisions, Cardinality(V) = 1
  PROVE  \E v \in Decisions : V = {v}
<1>1. IsFiniteSet(Decisions)
  <2>1. IsFiniteSet({"allow"}) /\ IsFiniteSet({"require_approval"}) /\ IsFiniteSet({"deny"})
    BY FS_Singleton
  <2>2. IsFiniteSet({"allow"} \cup {"require_approval"})
    BY <2>1, FS_Union
  <2>3. IsFiniteSet(({"allow"} \cup {"require_approval"}) \cup {"deny"})
    BY <2>1, <2>2, FS_Union
  <2> QED
    BY <2>3 DEF Decisions
<1>2. IsFiniteSet(V)
  BY <1>1, FS_Subset
<1>3. \E x : V = {x}
  BY <1>2, FS_Singleton
<1> QED
  BY <1>3

\* A rule that decides a request: what Granted says of one, at an instant.
Decides(c, r, now) ==
  /\ c.document.from <= now /\ now < c.document.until /\ Matches(r, c.rule.scope)
  /\ \A o \in Claims(sources) :
       (o.document.from <= now /\ now < o.document.until /\ Matches(r, o.rule.scope)
          /\ o.rule.decision # c.rule.decision)
         => \/ o.document.priority < c.document.priority
            \/ o.document.priority = c.document.priority /\ Outranks(Score(c), Score(o))

\* The winning rules agree.
Agreed(r, now, v) == Winners(r, now) # {} /\ \A c \in Winners(r, now) : c.rule.decision = v

\* The rule that decides is in force, selects the request, and no rule that decides
\* otherwise ranks as high.
LEMMA WinnerDecides ==
  ASSUME sources \in Sources, policy = sources, NEW r, NEW now,
         NEW v, Agreed(r, now, v)
  PROVE  \E c \in Claims(sources) : Decides(c, r, now) /\ c.rule.decision = v
<1>1. PICK c \in Winners(r, now) : c.rule.decision = v
  BY DEF Agreed
<1>2. /\ c \in Claims(sources) /\ InForce(c.document, now) /\ Matches(r, c.rule.scope)
      /\ \A o \in Candidates(r, now) : ~Outranks(Score(o), Score(c))
  BY DEF Winners, Candidates
<1>3. ASSUME NEW o \in Claims(sources), InForce(o.document, now), Matches(r, o.rule.scope),
             o.rule.decision # v
      PROVE  \/ o.document.priority < c.document.priority
             \/ o.document.priority = c.document.priority /\ Outranks(Score(c), Score(o))
  <2>1. o \in Candidates(r, now) /\ o \notin Winners(r, now)
    BY <1>3 DEF Candidates, Agreed
  <2>2. Score(o) # Score(c)
    BY <1>2, <2>1 DEF Winners
  <2>3. /\ Score(o) \in Int \X Int \X Int /\ Score(c) \in Int \X Int \X Int
        /\ Score(o)[1] = o.document.priority /\ Score(c)[1] = c.document.priority
    BY <1>2, <1>3, ScoreType
  <2>4. Outranks(Score(c), Score(o)) /\ Score(o)[1] <= Score(c)[1]
    BY <1>2, <2>1, <2>2, <2>3, RankTotal
  <2>5. o.document.priority \in Int /\ c.document.priority \in Int
    BY <1>2, <1>3, ClaimType
  <2> QED
    BY <2>3, <2>4, <2>5
<1> QED
  BY <1>1, <1>2, <1>3 DEF InForce, Decides

\* What is allowed has been granted, by a rule or by one that asks for an approval.
LEMMA AllowedGranted ==
  ASSUME sources \in Sources, policy = sources, NEW r, NEW given, NEW now,
         Evaluate(r, given, now).decision = "allow"
  PROVE  Granted(r, Evaluate(r, given, now))
<1> DEFINE W == Winners(r, now)
           V == {c.rule.decision : c \in W}
           e == Evaluate(r, given, now)
<1>1. V \in SUBSET Decisions
  BY ClaimType DEF Winners, Candidates
<1>2. W # {} /\ Cardinality(V) = 1 /\ e.at = now
  BY DEF Evaluate, Undecided
<1>3. PICK v \in Decisions : V = {v}
  <2> HIDE DEF V
  <2> QED
    BY <1>1, <1>2, OneVerdict
<1>4. v = IF e.approval THEN "require_approval" ELSE "allow"
  BY <1>2, <1>3 DEF Evaluate, Undecided
<1>5. PICK c \in Claims(sources) : Decides(c, r, now) /\ c.rule.decision = v
  <2>1. Agreed(r, now, v)
    BY <1>2, <1>3 DEF Agreed
  <2> HIDE DEF W, V, e
  <2> QED
    BY <2>1, WinnerDecides
<1>6. /\ {r.capability, "*"} \cap c.rule.scope.capability # {}
      /\ "*" \in c.rule.scope.effects \/ r.effects \subseteq c.rule.scope.effects
  BY <1>5 DEF Decides, Matches, Selects
<1> HIDE DEF e
<1> QED
  BY <1>2, <1>4, <1>5, <1>6 DEF Granted, Decides, e

\* The rules of documents are finitely many.
LEMMA ClaimsFinite == ASSUME NEW documents \in Sources PROVE IsFiniteSet(Claims(documents))
<1> DEFINE Rules == UNION {d.rules : d \in documents}
           ruleSets == [d \in documents |-> d.rules]
           Pairs == Rules \X documents
           claimOf == [x \in Pairs |-> [rule |-> x[1], document |-> x[2]]]
           Made == {claimOf[x] : x \in Pairs}
<1>1. IsFiniteSet(documents) /\ \A d \in documents : IsFiniteSet(d.rules)
  BY PolicyAssumption
<1>2. IsFiniteSet({d.rules : d \in documents})
  <2>1. ruleSets \in Surjection(documents, {d.rules : d \in documents})
    BY DEF Surjection
  <2> QED
    BY <1>1, <2>1, FS_Surjection
<1>3. IsFiniteSet(Rules)
  BY <1>1, <1>2, FS_UNION
<1>4. IsFiniteSet(Pairs)
  BY <1>1, <1>3, FS_Product
<1>5. IsFiniteSet(Made)
  <2>1. claimOf \in Surjection(Pairs, Made)
    BY DEF Surjection
  <2> HIDE DEF claimOf, Made, Pairs
  <2> QED
    BY <1>4, <2>1, FS_Surjection
<1>6. Claims(documents) \subseteq Made
  <2> SUFFICES ASSUME NEW c \in Claims(documents) PROVE c \in Made
    OBVIOUS
  <2>1. c.document \in documents /\ c.rule \in c.document.rules
        /\ c = [rule |-> c.rule, document |-> c.document]
    BY ClaimType
  <2>2. <<c.rule, c.document>> \in Pairs
    BY <2>1
  <2>3. claimOf[<<c.rule, c.document>>] = c
    BY <2>1, <2>2
  <2> HIDE DEF claimOf, Pairs
  <2> QED
    BY <2>2, <2>3
<1> HIDE DEF Made
<1> QED
  BY <1>5, <1>6, FS_Subset

\* Identifiers that do not collide count the rules.
LEMMA IdentifiersCount ==
  ASSUME sources \in Sources, ~Colliding
  PROVE  Cardinality({c.rule.id : c \in Claims(sources)}) = Cardinality(Claims(sources))
<1> DEFINE I == {c.rule.id : c \in Claims(sources)}
           f == [c \in Claims(sources) |-> c.rule.id]
<1>1. IsFiniteSet(Claims(sources))
  BY ClaimsFinite
<1>2. f \in Surjection(Claims(sources), I)
  BY DEF Surjection
<1>3. f \in Injection(Claims(sources), I)
  BY DEF Injection, IsInjective, Colliding
<1> HIDE DEF f, I
<1>4. Cardinality(I) = Cardinality(Claims(sources))
  BY <1>1, <1>2, <1>3, FS_Surjection
<1> QED
  BY <1>4 DEF I

\* A decision and its instant.
LEMMA EvaluateType ==
  ASSUME sources \in Sources, policy \in {{}, sources}, NEW r, NEW given, NEW now
  PROVE  /\ Evaluate(r, given, now).decision \in Decisions \cup {"conflict", "mismatch"}
         /\ Evaluate(r, given, now).at = now
<1> DEFINE V == {c.rule.decision : c \in Winners(r, now)}
<1>1. \A c \in Claims(policy) : c.rule.decision \in Decisions
  <2>1. CASE policy = {}
    BY <2>1 DEF Claims, RulesOf
  <2>2. CASE policy = sources
    BY <2>2, ClaimType
  <2> QED
    BY <2>1, <2>2
<1>2. V \in SUBSET Decisions
  BY <1>1 DEF Winners, Candidates
<1>3. Cardinality(V) = 1 => \E v \in Decisions : V = {v}
  <2> HIDE DEF V
  <2> QED
    BY <1>2, OneVerdict
<1>4. {"deny", "allow"} \subseteq Decisions
  BY DEF Decisions
<1> QED
  BY <1>3, <1>4 DEF Evaluate, Undecided

\* An approval that was used had not expired.
LEMMA ApprovalUsed ==
  ASSUME NEW r, NEW given, NEW now, Evaluate(r, given, now).approval
  PROVE  Evaluate(r, given, now).at < Evaluate(r, given, now).until
<1>1. \E g \in given : ActiveFor(g, r, now)
  BY DEF Evaluate, Undecided
<1>2. ActiveFor(CHOOSE g \in given : ActiveFor(g, r, now), r, now)
  BY <1>1
<1>3. /\ Evaluate(r, given, now).at = now
      /\ Evaluate(r, given, now).until = (CHOOSE g \in given : ActiveFor(g, r, now)).until
  BY DEF Evaluate, Undecided
<1> QED
  BY <1>2, <1>3 DEF ActiveFor

\* What was granted stays so: the configured documents do not change.
LEMMA GrantedKept == sources' = sources => \A r, d : Granted(r, d)' <=> Granted(r, d)
BY DEF Granted, Claims, RulesOf, Matches, Selects, Score, Outranks, Specificity, Weight

-----------------------------------------------------------------------------
\* What is decided rests on documents that were loaded without a collision.
PolicyInv ==
  /\ PolicyTypeOK /\ AllowedWasGranted /\ ApprovalInTime /\ NoAmbiguousPolicy
  /\ decided = [r \in Asked |-> decided[r]]
  /\ loading = "loaded" => ~Colliding
  /\ \A r \in Asked : decided[r].decision # "none" => loading = "loaded"

\* The initial state satisfies the invariant.
LEMMA PolicyInitially == PolicyInit => PolicyInv
BY PolicyAssumption DEF PolicyInit, PolicyInv, PolicyTypeOK, AllowedWasGranted, ApprovalInTime,
   NoAmbiguousPolicy, Undecided

\* Every step of the policy keeps the invariant.
LEMMA PolicyKept == PolicyInv /\ [PolicyNext]_policyVars => PolicyInv'
<1> SUFFICES ASSUME PolicyInv, [PolicyNext]_policyVars PROVE PolicyInv'
  OBVIOUS
<1>0. /\ sources \in Sources /\ sources # {} /\ Horizon \in Nat
      /\ Colliding' <=> (\E a, b \in Claims(sources') : a # b /\ a.rule.id = b.rule.id)
  BY PolicyAssumption DEF PolicyInv, PolicyTypeOK, Colliding, Claims, RulesOf
<1>1. CASE Load
  <2>1. /\ UNCHANGED <<sources, today, approvals, decided>> /\ loading = "unread" /\ policy = {}
        /\ \A r \in Asked : decided[r].decision = "none"
    BY <1>1 DEF Load, PolicyInv, PolicyTypeOK
  <2>2. Colliding' <=> Colliding
    BY <2>1 DEF Colliding, Claims, RulesOf
  <2>3. AllowedWasGranted' /\ ApprovalInTime' /\ NoAmbiguousPolicy'
    BY <2>1 DEF AllowedWasGranted, ApprovalInTime, NoAmbiguousPolicy, PolicyInv
  <2>4. PolicyTypeOK' /\ (loading' = "loaded" => ~Colliding)
    BY <1>0, <1>1, <2>1 DEF Load, PolicyInv, PolicyTypeOK
  <2> QED
    BY <2>1, <2>2, <2>3, <2>4 DEF PolicyInv
<1>2. ASSUME NEW r \in Asked, Decide(r) PROVE PolicyInv'
  <2>1. /\ UNCHANGED <<sources, policy, loading, today, approvals>> /\ loading = "loaded"
        /\ policy = sources
    BY <1>2 DEF Decide, PolicyInv, PolicyTypeOK
  <2>2. PICK given : decided' = [decided EXCEPT ![r] = Evaluate(r, given, today)]
    BY <1>2 DEF Decide
  <2> DEFINE e == Evaluate(r, given, today)
  <2>3. e.decision \in Decisions \cup {"conflict", "mismatch"} /\ e.at = today
    BY <1>0, <2>1, EvaluateType
  <2>4. e.decision = "allow" => Granted(r, e)
    BY <1>0, <2>1, AllowedGranted
  <2>5. e.approval => e.at < e.until
    BY ApprovalUsed
  <2>6. Colliding' <=> Colliding
    BY <2>1 DEF Colliding, Claims, RulesOf
  <2>7. Cardinality({c.rule.id : c \in Claims(sources)}) = Cardinality(Claims(sources))
    BY <1>0, <2>1, IdentifiersCount DEF PolicyInv
  <2>8. NoAmbiguousPolicy'
    BY <2>1, <2>7 DEF NoAmbiguousPolicy, Claims, RulesOf
  <2> HIDE DEF e
  <2>9. decided' = [q \in Asked |-> IF q = r THEN e ELSE decided[q]]
    BY <2>2 DEF PolicyInv, e
  <2>10. AllowedWasGranted'
    BY <2>1, <2>4, <2>9, GrantedKept DEF AllowedWasGranted, PolicyInv
  <2>11. ApprovalInTime'
    BY <2>5, <2>9 DEF ApprovalInTime, PolicyInv
  <2>12. PolicyTypeOK'
    BY <2>1, <2>3, <2>9 DEF PolicyTypeOK, PolicyInv
  <2> QED
    BY <2>1, <2>6, <2>8, <2>9, <2>10, <2>11, <2>12 DEF PolicyInv
<1>3. CASE Wait \/ (\E r \in Asked : Approve(r)) \/ UNCHANGED policyVars
  <2>1. /\ UNCHANGED <<sources, policy, loading, decided>> /\ today' \in 0..Horizon /\ today <= today'
    BY <1>0, <1>3 DEF Wait, Approve, policyVars, PolicyInv, PolicyTypeOK
  <2>2. \A g \in approvals' : g.request \in Asked /\ g.until \in 0..Horizon + 1
    BY <1>0, <1>3 DEF Wait, Approve, policyVars, PolicyInv, PolicyTypeOK
  <2>3. AllowedWasGranted'
    BY <2>1, GrantedKept DEF AllowedWasGranted, PolicyInv
  <2>4. ApprovalInTime'
    BY <2>1 DEF ApprovalInTime, PolicyInv
  <2>5. NoAmbiguousPolicy' /\ (Colliding' <=> Colliding)
    BY <2>1 DEF NoAmbiguousPolicy, PolicyInv, Colliding, Claims, RulesOf
  <2>6. PolicyTypeOK'
    <3>1. \A r \in Asked : decided[r].at \in 0..today'
      BY <1>0, <2>1 DEF PolicyInv, PolicyTypeOK
    <3> QED
      BY <2>1, <2>2, <3>1 DEF PolicyInv, PolicyTypeOK
  <2> QED
    BY <2>1, <2>3, <2>4, <2>5, <2>6 DEF PolicyInv
<1> QED
  BY <1>1, <1>2, <1>3 DEF PolicyNext

-----------------------------------------------------------------------------
\* Requests, plans and commands under one policy, in any order.
GovernedNext == (PolicyNext /\ UNCHANGED authorityVars) \/ AuthorityNext
GovernedSpec == PolicyInit /\ AuthorityInit /\ [][GovernedNext]_<<policyVars, authorityVars>>

\* What the policy says when it allows something without an approval.
AllowedAt(now) == [decision |-> "allow", at |-> now, approval |-> FALSE, until |-> -1]

\* A command that waits still has the scope it was allowed for, and its author.
PendingFounded ==
  \A i \in CommandIds : \A p \in pending[i] :
    /\ p.scope = ScopeOf(p.command) /\ Granted(p.scope, AllowedAt(p.at)) /\ p.at \in 0..today
    /\ NamesActor(p.command) /\ OwnsSession(p.command)
    /\ p.command.type \in StoredDefinition => changes[p.command.target] # {}

\* Sessions have been opened by their owners, and what was done was answered.
DeedsFounded ==
  /\ \A t \in OwnedTargets : owners[t] # NoOne =>
       \E o \in deeds : /\ o.command.type = "session.start" /\ o.command.target = t
                        /\ o.command.actor = owners[t]
  /\ \A d \in deeds : journal[d.id] = "completed"

AuthorityInv ==
  /\ AuthorityTypeOK /\ DeedsGranted /\ AuthoredByActor /\ PendingFounded /\ DeedsFounded
  /\ pending = [i \in CommandIds |-> pending[i]] /\ changes = [t \in OwnedTargets |-> changes[t]]

\* No command, or one.
LEMMA FewPending == \A x : Cardinality({}) <= 1 /\ Cardinality({x}) <= 1
<1>1. Cardinality({}) = 0
  BY FS_EmptySet
<1>2. \A x : Cardinality({x}) = 1
  BY FS_Singleton
<1> QED
  BY <1>1, <1>2

\* A governed step is a step of the policy, or leaves it alone.
LEMMA GovernedPolicy ==
  [GovernedNext]_<<policyVars, authorityVars>> => [PolicyNext]_policyVars
BY DEF GovernedNext, AuthorityNext, PolicyNext

\* The initial state satisfies the invariant.
LEMMA AuthorityInitially == AuthorityInit => AuthorityInv
<1> SUFFICES ASSUME AuthorityInit PROVE AuthorityInv
  OBVIOUS
<1>1. \A i \in CommandIds : pending[i] = {} /\ journal[i] = "none"
  BY DEF AuthorityInit
<1>2. \A i \in CommandIds : Cardinality(pending[i]) <= 1
  BY <1>1, FewPending
<1>3. journal \in [CommandIds -> Answers] /\ stops \in 0..MaxStops /\ deeds = {}
  BY AuthorityAssumption DEF AuthorityInit, Answers
<1>4. owners \in [OwnedTargets -> Actors \cup {NoOne}]
  BY DEF AuthorityInit
<1>5. AuthorityTypeOK
  BY <1>1, <1>2, <1>3, <1>4 DEF AuthorityTypeOK
<1> QED
  BY <1>5 DEF AuthorityInit, AuthorityInv, DeedsGranted, AuthoredByActor, PendingFounded, DeedsFounded

\* A command that is allowed is granted for its scope.
LEMMA AllowedNow ==
  ASSUME sources \in Sources, policy = sources, NEW r, NEW now,
         Evaluate(r, {}, now).decision = "allow"
  PROVE  Granted(r, AllowedAt(now))
<1>1. Evaluate(r, {}, now) = AllowedAt(now)
  BY DEF Evaluate, Undecided, AllowedAt
<1>2. Granted(r, Evaluate(r, {}, now))
  BY AllowedGranted
<1> QED
  BY <1>1, <1>2

\* Every step keeps what is recorded of commands.
LEMMA AuthorityKept ==
  PolicyInv /\ AuthorityInv /\ [GovernedNext]_<<policyVars, authorityVars>> => AuthorityInv'
<1> SUFFICES ASSUME PolicyInv, AuthorityInv, [GovernedNext]_<<policyVars, authorityVars>>
             PROVE  AuthorityInv'
  OBVIOUS
<1>1. /\ sources' = sources /\ today \in 0..Horizon /\ today' \in 0..Horizon /\ today <= today'
      /\ sources \in Sources /\ Horizon \in Nat
  BY GovernedPolicy, PolicyAssumption
     DEF PolicyInv, PolicyTypeOK, PolicyNext, Load, Wait, Decide, Approve, policyVars
<1>2. \A r, d : Granted(r, d)' <=> Granted(r, d)
  BY <1>1, GrantedKept
<1>3. CASE UNCHANGED authorityVars
  <2>1. UNCHANGED <<journal, pending, changes, owners, deeds, stops>>
    BY <1>3 DEF authorityVars
  <2>2. AuthorityTypeOK'
    BY <1>1, <2>1 DEF AuthorityInv, AuthorityTypeOK
  <2>3. DeedsGranted'
    BY <1>2, <2>1 DEF AuthorityInv, DeedsGranted
  <2>4. PendingFounded'
    <3>1. \A c : ScopeOf(c)' = ScopeOf(c) /\ (OwnsSession(c)' <=> OwnsSession(c)) /\ (NamesActor(c)' <=> NamesActor(c))
      BY <2>1 DEF ScopeOf, OwnsSession, NamesActor, StoredEffects, Named, CapabilityOf, BaseEffects
    <3>2. \A i \in CommandIds : \A p \in pending[i] : p.at \in 0..today'
      BY <1>1 DEF AuthorityInv, PendingFounded
    <3> QED
      BY <1>2, <2>1, <3>1, <3>2 DEF AuthorityInv, PendingFounded, AllowedAt
  <2> QED
    BY <2>1, <2>2, <2>3, <2>4 DEF AuthorityInv, AuthoredByActor, DeedsFounded
<1>4. ASSUME NEW i \in CommandIds, NEW c \in CommandRecords, SubmitCommand(i, c), UNCHANGED policyVars
      PROVE  AuthorityInv'
  <2>0. today' = today /\ policy = sources /\ journal[i] = "none" /\ UNCHANGED <<changes, owners, deeds, stops>>
        /\ Admissible(c)
    BY <1>4 DEF SubmitCommand, policyVars, PolicyInv, PolicyTypeOK, Unanswered
  <2>1. CASE journal' = [journal EXCEPT ![i] = "refused"] /\ UNCHANGED pending
    <3>1. pending[i] = {}
      BY <1>4 DEF SubmitCommand, Unanswered
    <3>2. journal' = [k \in CommandIds |-> IF k = i THEN "refused" ELSE journal[k]]
      BY <2>1 DEF AuthorityInv, AuthorityTypeOK
    <3>3. AuthorityTypeOK'
      BY <2>0, <2>1, <3>1, <3>2 DEF AuthorityInv, AuthorityTypeOK, Answers
    <3>4. \A k : ScopeOf(k)' = ScopeOf(k) /\ (OwnsSession(k)' <=> OwnsSession(k)) /\ (NamesActor(k)' <=> NamesActor(k))
      BY <2>0 DEF ScopeOf, OwnsSession, NamesActor, StoredEffects, Named, CapabilityOf, BaseEffects
    <3>5. PendingFounded' /\ DeedsGranted'
      BY <1>2, <2>0, <2>1, <3>4 DEF AuthorityInv, PendingFounded, DeedsGranted, AllowedAt
    <3>6. DeedsFounded'
      BY <2>0, <3>2 DEF AuthorityInv, DeedsFounded, AuthorityTypeOK
    <3> QED
      BY <2>0, <2>1, <3>3, <3>5, <3>6 DEF AuthorityInv, AuthoredByActor
  <2>2. CASE ~(journal' = [journal EXCEPT ![i] = "refused"] /\ UNCHANGED pending)
    <3> DEFINE q == [command |-> c, scope |-> ScopeOf(c), at |-> today]
    <3>1. /\ pending' = [pending EXCEPT ![i] = {q}] /\ UNCHANGED journal
          /\ Evaluate(ScopeOf(c), {}, today).decision = "allow"
      BY <1>4, <2>2 DEF SubmitCommand
    <3>2. Granted(ScopeOf(c), AllowedAt(today))
      BY <1>1, <2>0, <3>1, AllowedNow
    <3>3. q.command = c /\ q.scope = ScopeOf(c) /\ q.at = today
      OBVIOUS
    <3> HIDE DEF q
    <3>4. pending' = [k \in CommandIds |-> IF k = i THEN {q} ELSE pending[k]]
      BY <3>1 DEF AuthorityInv
    <3>5. AuthorityTypeOK'
      <4>1. \A k \in CommandIds : pending'[k] = IF k = i THEN {q} ELSE pending[k]
        BY <3>4
      <4>2. \A k \in CommandIds : Cardinality(pending'[k]) <= 1
        BY <4>1, FewPending DEF AuthorityInv, AuthorityTypeOK
      <4>3. \A k \in CommandIds : \A p \in pending'[k] : p.command \in CommandRecords
        BY <3>3, <4>1 DEF AuthorityInv, AuthorityTypeOK
      <4>4. \A k \in CommandIds : pending'[k] # {} => journal'[k] = "none"
        BY <2>0, <3>1, <4>1 DEF AuthorityInv, AuthorityTypeOK
      <4>5. /\ journal' \in [CommandIds -> Answers] /\ stops' \in 0..MaxStops
            /\ owners' \in [OwnedTargets -> Actors \cup {NoOne}]
            /\ \A d \in deeds' : d.id \in CommandIds /\ d.command \in CommandRecords /\ d.at \in 0..today'
        BY <2>0, <3>1 DEF AuthorityInv, AuthorityTypeOK
      <4> QED
        BY <4>2, <4>3, <4>4, <4>5 DEF AuthorityTypeOK
    <3>6. \A k : ScopeOf(k)' = ScopeOf(k) /\ (OwnsSession(k)' <=> OwnsSession(k)) /\ (NamesActor(k)' <=> NamesActor(k))
      BY <2>0 DEF ScopeOf, OwnsSession, NamesActor, StoredEffects, Named, CapabilityOf, BaseEffects
    <3>7. PendingFounded'
      <4> SUFFICES ASSUME NEW k \in CommandIds, NEW x \in pending'[k]
                   PROVE  /\ x.scope = ScopeOf(x.command) /\ Granted(x.scope, AllowedAt(x.at)) /\ x.at \in 0..today
                          /\ NamesActor(x.command) /\ OwnsSession(x.command)
                          /\ x.command.type \in StoredDefinition => changes[x.command.target] # {}
        BY <1>2, <2>0, <3>6 DEF PendingFounded, AllowedAt
      <4>1. CASE k = i
        <5>1. x = q
          BY <3>4, <4>1
        <5>2. today \in 0..today
          BY <1>1
        <5> QED
          BY <2>0, <3>2, <3>3, <5>1, <5>2 DEF Admissible, TargetKnown
      <4>2. CASE k # i
        <5>1. x \in pending[k]
          BY <3>4, <4>2
        <5> QED
          BY <5>1 DEF AuthorityInv, PendingFounded
      <4> QED
        BY <4>1, <4>2
    <3>8. DeedsGranted'
      BY <1>2, <2>0 DEF AuthorityInv, DeedsGranted
    <3> QED
      BY <2>0, <3>1, <3>4, <3>5, <3>7, <3>8, ZenonT(60) DEF AuthorityInv, AuthoredByActor, DeedsFounded
  <2> QED
    BY <2>1, <2>2
<1>5. ASSUME NEW i \in CommandIds, Execute(i), UNCHANGED policyVars PROVE AuthorityInv'
  <2>1. PICK p \in pending[i] :
          LET c == p.command IN
          /\ c.type = "change.plan" => changes[c.target] = {}
          /\ c.type = "session.start" => owners[c.target] = NoOne
          /\ changes' = IF c.type = "change.plan" THEN [changes EXCEPT ![c.target] = {c.variant}]
                       ELSE changes
          /\ owners' = IF c.type = "session.start" THEN [owners EXCEPT ![c.target] = c.named] ELSE owners
          /\ deeds' = deeds \cup {[id |-> i, command |-> c, effects |-> Does(c), at |-> p.at]}
          /\ journal' = [journal EXCEPT ![i] = "completed"]
          /\ pending' = Forget(i)
          /\ UNCHANGED stops
    BY <1>5 DEF Execute
  <2> DEFINE c == p.command
             deed == [id |-> i, command |-> c, effects |-> Does(c), at |-> p.at]
  <2>2. /\ c \in CommandRecords /\ c.target \in OwnedTargets /\ c.actor \in Actors /\ c.named \in Actors
        /\ journal[i] = "none" /\ p.at \in 0..today
    BY DEF AuthorityInv, AuthorityTypeOK, CommandRecords, PendingFounded
  <2>3. /\ p.scope = ScopeOf(c) /\ Granted(p.scope, AllowedAt(p.at))
        /\ NamesActor(c) /\ OwnsSession(c)
        /\ c.type \in StoredDefinition => changes[c.target] # {}
    BY DEF AuthorityInv, PendingFounded
  <2>4. /\ deed.id = i /\ deed.command = c /\ deed.effects = Does(c) /\ deed.at = p.at
        /\ deeds' = deeds \cup {deed} /\ today' = today /\ stops' = stops
    BY <1>5, <2>1 DEF policyVars
  <2>5. /\ journal' = [k \in CommandIds |-> IF k = i THEN "completed" ELSE journal[k]]
        /\ pending' = [k \in CommandIds |-> IF k = i THEN {} ELSE pending[k]]
    BY <2>1 DEF AuthorityInv, AuthorityTypeOK, Forget
  <2>6. /\ c.type = "change.plan" => changes[c.target] = {}
        /\ changes' = [t \in OwnedTargets |->
                         IF c.type = "change.plan" /\ t = c.target THEN {c.variant} ELSE changes[t]]
    BY <2>1 DEF AuthorityInv
  <2>7. /\ c.type = "session.start" => owners[c.target] = NoOne
        /\ owners' = [t \in OwnedTargets |->
                        IF c.type = "session.start" /\ t = c.target THEN c.named ELSE owners[t]]
    BY <2>1 DEF AuthorityInv, AuthorityTypeOK
  <2>8. "session.start" \in Authored /\ "session.start" \notin Owned
    BY DEF Authored, Owned
  <2>9. Granted([capability |-> CapabilityOf(c), effects |-> Does(c) \cup Named(c)], AllowedAt(p.at))
    <3>1. ScopeOf(c) = [capability |-> CapabilityOf(c), effects |-> Does(c) \cup Named(c)]
      BY DEF ScopeOf, Does, StoredEffects
    <3> QED
      BY <2>3, <3>1
  <2>10. c.type = "session.start" => c.named = c.actor
    BY <2>3, <2>8 DEF NamesActor
  <2> HIDE DEF c, deed
  <2>11. AuthorityTypeOK'
    BY <1>1, <2>2, <2>4, <2>5, <2>7, FewPending DEF AuthorityInv, AuthorityTypeOK, Answers
  <2>12. DeedsGranted'
    <3> SUFFICES ASSUME NEW d \in deeds'
                 PROVE  Granted([capability |-> CapabilityOf(d.command), effects |-> d.effects \cup Named(d.command)],
                                AllowedAt(d.at))
      BY <1>2 DEF DeedsGranted, AllowedAt, CapabilityOf, Named
    <3>1. CASE d = deed
      BY <2>4, <2>9, <3>1
    <3>2. CASE d \in deeds
      BY <3>2 DEF AuthorityInv, DeedsGranted, AllowedAt
    <3> QED
      BY <2>4, <3>1, <3>2
  <2>13. c.type \in Owned => \E o \in deeds : /\ o.command.type = "session.start"
                                              /\ o.command.target = c.target /\ o.command.actor = c.actor
    <3> SUFFICES ASSUME c.type \in Owned
                 PROVE  \E o \in deeds : /\ o.command.type = "session.start"
                                         /\ o.command.target = c.target /\ o.command.actor = c.actor
      OBVIOUS
    <3>1. owners[c.target] = c.actor /\ c.actor # NoOne
      BY <2>2, <2>3, AuthorityAssumption DEF OwnsSession
    <3> QED
      BY <2>2, <3>1 DEF AuthorityInv, DeedsFounded
  <2>14. AuthoredByActor'
    BY <2>3, <2>4, <2>13 DEF AuthorityInv, AuthoredByActor, NamesActor
  <2>15. DeedsFounded'
    <3>1. ASSUME NEW t \in OwnedTargets, owners'[t] # NoOne
          PROVE  \E o \in deeds' : /\ o.command.type = "session.start" /\ o.command.target = t
                                   /\ o.command.actor = owners'[t]
      <4>1. CASE c.type = "session.start" /\ t = c.target
        BY <2>4, <2>7, <2>10, <4>1
      <4>2. CASE ~(c.type = "session.start" /\ t = c.target)
        BY <2>4, <2>7, <3>1, <4>2 DEF AuthorityInv, DeedsFounded
      <4> QED
        BY <4>1, <4>2
    <3>2. \A d \in deeds' : journal'[d.id] = "completed"
      BY <2>2, <2>4, <2>5 DEF AuthorityInv, AuthorityTypeOK, DeedsFounded
    <3> QED
      BY <3>1, <3>2 DEF DeedsFounded
  <2>16. PendingFounded'
    <3> SUFFICES ASSUME NEW k \in CommandIds, NEW x \in pending'[k]
                 PROVE  /\ x.scope = ScopeOf(x.command)' /\ Granted(x.scope, AllowedAt(x.at)) /\ x.at \in 0..today
                        /\ NamesActor(x.command) /\ OwnsSession(x.command)'
                        /\ x.command.type \in StoredDefinition => changes'[x.command.target] # {}
      BY <1>2, <2>4 DEF PendingFounded, AllowedAt, NamesActor
    <3>1. x \in pending[k] /\ x.command \in CommandRecords
      BY <2>5 DEF AuthorityInv, AuthorityTypeOK
    <3>2. /\ x.scope = ScopeOf(x.command) /\ Granted(x.scope, AllowedAt(x.at)) /\ x.at \in 0..today
          /\ NamesActor(x.command) /\ OwnsSession(x.command)
          /\ x.command.type \in StoredDefinition => changes[x.command.target] # {}
      BY <3>1 DEF AuthorityInv, PendingFounded
    <3>3. x.command.target \in OwnedTargets /\ x.command.actor \in Actors
      BY <3>1 DEF CommandRecords
    <3>4. x.command.type \in StoredDefinition => changes'[x.command.target] = changes[x.command.target]
      BY <2>6, <3>2, <3>3
    <3>5. ScopeOf(x.command)' = ScopeOf(x.command)
      BY <3>4 DEF ScopeOf, StoredEffects, Named, CapabilityOf, BaseEffects
    <3>6. OwnsSession(x.command)'
      BY <2>7, <3>2, <3>3, AuthorityAssumption DEF OwnsSession
    <3> QED
      BY <3>2, <3>4, <3>5, <3>6
  <2> QED
    BY <2>5, <2>6, <2>11, <2>12, <2>14, <2>15, <2>16 DEF AuthorityInv
<1>6. ASSUME \/ Stop
             \/ \E i \in CommandIds : ExecuteInVain(i),
             UNCHANGED policyVars
      PROVE  AuthorityInv'
  <2>1. /\ UNCHANGED <<journal, changes, owners, deeds>> /\ today' = today /\ stops' \in 0..MaxStops
        /\ pending' = [k \in CommandIds |-> pending'[k]]
        /\ \A k \in CommandIds : pending'[k] = pending[k] \/ pending'[k] = {}
    BY <1>6, AuthorityAssumption DEF Stop, ExecuteInVain, Forget, AuthorityInv, AuthorityTypeOK, policyVars
  <2>2. AuthorityTypeOK'
    BY <2>1, FewPending DEF AuthorityInv, AuthorityTypeOK
  <2>3. \A k : ScopeOf(k)' = ScopeOf(k) /\ (OwnsSession(k)' <=> OwnsSession(k)) /\ (NamesActor(k)' <=> NamesActor(k))
    BY <2>1 DEF ScopeOf, OwnsSession, NamesActor, StoredEffects, Named, CapabilityOf, BaseEffects
  <2>4. PendingFounded'
    BY <1>2, <2>1, <2>3 DEF AuthorityInv, PendingFounded, AllowedAt
  <2>5. DeedsGranted'
    BY <1>2, <2>1 DEF AuthorityInv, DeedsGranted
  <2> QED
    BY <2>1, <2>2, <2>4, <2>5 DEF AuthorityInv, AuthoredByActor, DeedsFounded
<1> QED
  BY <1>3, <1>4, <1>5, <1>6 DEF GovernedNext, AuthorityNext

\* Answers are never replaced, and what was refused is never done.
LEMMA JournalStays ==
  PolicyInv /\ AuthorityInv /\ AuthorityInv' /\ [GovernedNext]_<<policyVars, authorityVars>> =>
    [\A i \in CommandIds :
       /\ journal[i] # "none" => journal'[i] = journal[i]
       /\ journal[i] = "refused" => \A d \in deeds' : d.id # i]_<<policyVars, authorityVars>>
<1> SUFFICES ASSUME PolicyInv, AuthorityInv, AuthorityInv', GovernedNext, NEW i \in CommandIds
             PROVE  /\ journal[i] # "none" => journal'[i] = journal[i]
                    /\ journal[i] = "refused" => \A d \in deeds' : d.id # i
  OBVIOUS
<1>1. journal[i] # "none" => journal'[i] = journal[i]
  BY DEF GovernedNext, AuthorityNext, SubmitCommand, Unanswered, Execute, ExecuteInVain, Stop, authorityVars,
     AuthorityInv, AuthorityTypeOK
<1> QED
  BY <1>1 DEF AuthorityInv, DeedsFounded

\* Under any documents and for any requests, actors and commands: what is allowed, planned
\* or executed was granted by the documents in force when it was decided, approvals are not
\* used after they expired, records carry their author, and a refusal stays one.
THEOREM AuthorityAlwaysHolds == GovernedSpec => AuthorityHolds
<1>1. PolicyInit /\ AuthorityInit => PolicyInv /\ AuthorityInv
  BY PolicyInitially, AuthorityInitially
<1>2. PolicyInv /\ AuthorityInv /\ [GovernedNext]_<<policyVars, authorityVars>>
        => PolicyInv' /\ AuthorityInv'
  BY GovernedPolicy, PolicyKept, AuthorityKept
<1>3. PolicyInv => PolicyTypeOK /\ AllowedWasGranted /\ ApprovalInTime /\ NoAmbiguousPolicy
  BY DEF PolicyInv
<1>4. AuthorityInv => AuthorityTypeOK /\ DeedsGranted /\ AuthoredByActor
  BY DEF AuthorityInv
<1> QED
  BY <1>1, <1>2, <1>3, <1>4, JournalStays, PTL DEF GovernedSpec, AuthorityHolds, RefusedStays
=============================================================================
