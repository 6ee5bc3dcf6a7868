--------------------------- MODULE WorkerDelivery ----------------------------
(* One worker process and its delivery journal (WorkerProcess.run_once and     *)
(* WorkerRuntimeJournal, workers/process.py) against the daemon's lease,       *)
(* artifact and completion endpoints.  The queue, the other workers and the    *)
(* acceptance are WorkerCoordination's; here a claim either finds a task or    *)
(* not.  Any answer may be lost and the process may die anywhere: both end the *)
(* pass and leave what the journal holds.                                      *)
EXTENDS Naturals, FiniteSets

CONSTANTS
  MaxClaims,     \* bound: claim requests, each with a lease token of its own
  MaxRuns,       \* bound: model executions
  Outputs,       \* the artifacts one execution generates
  MaxUploads,    \* bound: uploads opened
  UploadQuota,   \* uploads max_result_bytes has room for on one lease
  MaxDeliveryFaults \* bound: lost answers, deaths and lost artifacts

ASSUME DeliveryAssumption ==
  /\ {MaxClaims, MaxRuns, MaxUploads, UploadQuota, MaxDeliveryFaults} \subseteq Nat
  /\ IsFiniteSet(Outputs)

Claims == 1..MaxClaims
UploadIds == 1..MaxUploads

VARIABLES
  journal,   \* pending-delivery.json
  passAt,    \* where the current pass of run_once is
  inHand,    \* the execution and the lease keeper's verdict the pass holds in memory
  lapsed,    \* the expiry the claim answer carried is over
  runs,      \* the claim each execution was for
  lease,     \* WorkerLeaseRow by claim, with what the clock says of it
  upload,    \* WorkerArtifactUploadRow and its artifact
  completion,\* WorkerCompletionRows
  submitted, \* submissions made, which number them
  kept,      \* history: the claims the journal has held a result of
  delSpent

delVars == <<journal, passAt, inHand, lapsed, runs, lease, upload, completion, submitted, kept, delSpent>>

NoUploads == [o \in Outputs |-> 0]
Blank == [stage |-> "none", claim |-> 0, run |-> 0, uploaded |-> NoUploads, submission |-> 0]
LeaseAlive(c) == lease[c].state \in {"leased", "executing"} /\ ~lease[c].over
Opened == {u \in UploadIds : upload[u].state # "none"}
Stage(s) == [journal EXCEPT !.stage = s]

DeliveryTypeOK ==
  /\ journal \in [stage : {"none", "requested", "claimed", "executed", "submitted"}, claim : 0..MaxClaims,
                  run : 0..MaxRuns, uploaded : [Outputs -> 0..MaxUploads], submission : Nat]
  /\ passAt \in {"down", "claim", "begin", "execute", "ran", "upload", "committing", "submit", "complete", "clear"}
  /\ inHand \in [run : 0..MaxRuns, lost : BOOLEAN, upload : 0..MaxUploads]
  /\ lapsed \in BOOLEAN
  /\ runs \in [1..MaxRuns -> 0..MaxClaims]
  /\ lease \in [Claims -> [state : {"none", "leased", "executing", "expired"}, over : BOOLEAN, renewed : BOOLEAN]]
  /\ upload \in [UploadIds -> [state : {"none", "staging", "committed", "gone"}, claim : 0..MaxClaims,
                               output : Outputs \cup {"none"}, run : 0..MaxRuns]]
  /\ completion \subseteq [id : Nat, claim : Claims, run : 1..MaxRuns, artifacts : SUBSET UploadIds,
                           state : {"delivered", "duplicate", "stale"}]
  /\ submitted \in Nat /\ kept \subseteq Claims /\ delSpent \in 0..MaxDeliveryFaults

Empty == [run |-> 0, lost |-> FALSE, upload |-> 0]

DeliveryInit ==
  /\ journal = Blank /\ passAt = "down" /\ inHand = Empty /\ lapsed = FALSE
  /\ runs = [r \in 1..MaxRuns |-> 0]
  /\ lease = [c \in Claims |-> [state |-> "none", over |-> FALSE, renewed |-> FALSE]]
  /\ upload = [u \in UploadIds |-> [state |-> "none", claim |-> 0, output |-> "none", run |-> 0]]
  /\ completion = {} /\ submitted = 0 /\ kept = {} /\ delSpent = 0

DeliveryFault == delSpent < MaxDeliveryFaults /\ delSpent' = delSpent + 1

\* The pass goes on, or its answer is lost and the next pass reads the journal.
Answered(phase) == passAt' = phase /\ UNCHANGED delSpent
AnswerLost == passAt' = "down" /\ DeliveryFault

-----------------------------------------------------------------------------
(* run_once.                                                                  *)

Unbound == {c \in Claims : lease[c].state = "none"}

\* A journaled request is repeated; its identity and token make it one claim.
NextRequest == IF journal.stage = "requested" THEN journal.claim ELSE CHOOSE c \in Unbound : \A d \in Unbound : c <= d

\* Mutant: a delivery with a result is never given up.
GivenUpWithoutResult == lapsed /\ journal.stage = "claimed"

\* The claim answer's own expiry decides, renewed or not.
GivenUp == lapsed

BeginPass ==
  /\ passAt = "down" /\ inHand' = Empty
  /\ \/ /\ journal.stage \in {"none", "requested"} /\ (journal.stage = "none" => Unbound # {})
        /\ journal' = [Blank EXCEPT !.stage = "requested", !.claim = NextRequest]
        /\ lapsed' = FALSE /\ passAt' = "claim"
     \/ /\ journal.stage = "submitted" /\ passAt' = "complete" /\ UNCHANGED <<journal, lapsed>>
     \/ /\ journal.stage \in {"claimed", "executed"} /\ UNCHANGED <<journal, lapsed>>
        /\ passAt' = IF GivenUp THEN "clear" ELSE "begin"
  /\ UNCHANGED <<runs, lease, upload, completion, submitted, kept, delSpent>>

\* claim_next answers a repeated request with the lease it bound.
Claim ==
  /\ passAt = "claim"
  /\ \/ /\ lease[journal.claim].state = "none"
        /\ lease' = [lease EXCEPT ![journal.claim].state = "leased"]
        /\ UNCHANGED lapsed
     \/ /\ lease[journal.claim].state # "none"
        /\ lapsed' = lease[journal.claim].over
        /\ UNCHANGED lease
  /\ \/ Answered("begin") /\ journal' = Stage("claimed")
     \/ AnswerLost /\ UNCHANGED journal
  /\ UNCHANGED <<inHand, runs, upload, completion, submitted, kept>>

NothingQueued ==
  /\ passAt = "claim" /\ lease[journal.claim].state = "none"
  /\ journal' = Blank /\ passAt' = "down"
  /\ UNCHANGED <<inHand, lapsed, runs, lease, upload, completion, submitted, kept, delSpent>>

\* The answer of begin_execution, or its refusal, which ends the pass.
BeginTask ==
  /\ passAt = "begin"
  /\ IF GivenUp THEN passAt' = "clear" /\ UNCHANGED <<lease, delSpent>>
     ELSE IF LeaseAlive(journal.claim)
     THEN /\ lease' = [lease EXCEPT ![journal.claim].state = "executing"]
          /\ Answered(IF journal.stage = "claimed" THEN "execute" ELSE "upload") \/ AnswerLost
     ELSE passAt' = "down" /\ UNCHANGED <<lease, delSpent>>
  /\ inHand' = [inHand EXCEPT !.run = journal.run]
  /\ UNCHANGED <<journal, lapsed, runs, upload, completion, submitted, kept>>

Execute ==
  /\ passAt = "execute"
  /\ \E r \in 1..MaxRuns :
       /\ runs[r] = 0 /\ \A q \in 1..(r - 1) : runs[q] # 0
       /\ runs' = [runs EXCEPT ![r] = journal.claim]
       /\ inHand' = [inHand EXCEPT !.run = r]
  /\ passAt' = "ran"
  /\ UNCHANGED <<journal, lapsed, lease, upload, completion, submitted, kept, delSpent>>

\* The execution is saved before anything of it is uploaded.
KeepExecution == [journal EXCEPT !.stage = "executed", !.run = inHand.run]

SaveExecution ==
  /\ passAt = "ran"
  /\ journal' = KeepExecution
  /\ kept' = kept \cup {journal.claim}
  /\ passAt' = "upload"
  /\ UNCHANGED <<inHand, lapsed, runs, lease, upload, completion, submitted, delSpent>>

-----------------------------------------------------------------------------
(* Uploading what the execution generated.                                    *)

Missing == {o \in Outputs : journal.uploaded[o] = 0}
Reserved(c) == Cardinality({u \in Opened : upload[u].claim = c})

\* register_artifact_upload reserves the size on the lease before any content.
OpenOutput(o) ==
  /\ passAt = "upload" /\ o \in Missing
  /\ IF LeaseAlive(journal.claim) /\ Reserved(journal.claim) < UploadQuota
     THEN LET u == Cardinality(Opened) + 1 IN
          /\ u \in UploadIds
          /\ upload' = [upload EXCEPT ![u] =
               [state |-> "staging", claim |-> journal.claim, output |-> o, run |-> inHand.run]]
          /\ inHand' = [inHand EXCEPT !.upload = u]
          /\ Answered("committing") \/ AnswerLost
     ELSE passAt' = "down" /\ UNCHANGED <<upload, inHand, delSpent>>
  /\ UNCHANGED <<journal, lapsed, runs, lease, completion, submitted, kept>>

\* complete_artifact_upload, and the artifact noted in the journal.
CommitOutput ==
  /\ passAt = "committing"
  /\ IF LeaseAlive(journal.claim)
     THEN /\ upload' = [upload EXCEPT ![inHand.upload].state = "committed"]
          /\ \/ /\ Answered("upload")
                /\ journal' = [journal EXCEPT !.uploaded[upload[inHand.upload].output] = inHand.upload]
             \/ AnswerLost /\ UNCHANGED journal
     ELSE passAt' = "down" /\ UNCHANGED <<upload, journal, delSpent>>
  /\ UNCHANGED <<inHand, lapsed, runs, lease, completion, submitted, kept>>

\* The lease keeper runs beside execution and uploads; what it met is seen at their end.
KeeperFailed == inHand.lost

UploadsDone ==
  /\ passAt = "upload" /\ Missing = {}
  /\ passAt' = IF KeeperFailed THEN "down" ELSE "submit"
  /\ UNCHANGED <<journal, inHand, lapsed, runs, lease, upload, completion, submitted, kept, delSpent>>

-----------------------------------------------------------------------------
(* Delivery.                                                                  *)

\* The submission's identity is saved before it is sent.
SavedSubmission(id) == [journal EXCEPT !.stage = "submitted", !.submission = id, !.run = inHand.run]

PrepareSubmission ==
  /\ passAt = "submit"
  /\ submitted' = submitted + 1
  /\ journal' = SavedSubmission(submitted + 1)
  /\ passAt' = "complete"
  /\ UNCHANGED <<inHand, lapsed, runs, lease, upload, completion, kept, delSpent>>

References == {journal.uploaded[o] : o \in Outputs}
Acceptable == \A u \in References : upload[u].state = "committed" /\ upload[u].claim = journal.claim

FirstFor(c) == ~ \E d \in completion : d.claim = c

\* deliver_completion: a submission already there is answered with its row.
DeliverResult ==
  /\ passAt = "complete"
  /\ IF \E d \in completion : d.id = journal.submission
     THEN Answered("clear") /\ UNCHANGED completion
     ELSE IF Acceptable
     THEN /\ completion' = completion \cup
               {[id |-> journal.submission, claim |-> journal.claim, run |-> journal.run, artifacts |-> References,
                 state |-> IF ~FirstFor(journal.claim) THEN "duplicate"
                           ELSE IF LeaseAlive(journal.claim) THEN "delivered" ELSE "stale"]}
          /\ Answered("clear") \/ AnswerLost
     ELSE passAt' = "down" /\ UNCHANGED <<completion, delSpent>>
  /\ UNCHANGED <<journal, inHand, lapsed, runs, lease, upload, submitted, kept>>

ClearJournal ==
  /\ passAt = "clear"
  /\ journal' = Blank /\ passAt' = "down"
  /\ UNCHANGED <<inHand, lapsed, runs, lease, upload, completion, submitted, kept, delSpent>>

-----------------------------------------------------------------------------
(* The lease keeper, time and faults.                                         *)

Keeping == passAt \in {"execute", "ran", "upload", "committing"}

Renew ==
  /\ Keeping /\ ~inHand.lost /\ LeaseAlive(journal.claim) /\ ~lease[journal.claim].renewed
  /\ lease' = [lease EXCEPT ![journal.claim].renewed = TRUE]
  /\ UNCHANGED <<journal, passAt, inHand, lapsed, runs, upload, completion, submitted, kept, delSpent>>

\* A heartbeat or renewal is refused for a lease that is gone, or its answer is lost.
KeeperFails ==
  /\ Keeping /\ ~inHand.lost
  /\ IF LeaseAlive(journal.claim) THEN DeliveryFault ELSE UNCHANGED delSpent
  /\ inHand' = [inHand EXCEPT !.lost = TRUE]
  /\ UNCHANGED <<journal, passAt, lapsed, runs, lease, upload, completion, submitted, kept>>

\* The expiry of the claim answer passes for the worker; a renewal moved the daemon's.
ClaimLapses ==
  /\ journal.stage \notin {"none", "requested"} /\ ~lapsed
  /\ lapsed' = TRUE
  /\ lease' = IF lease[journal.claim].renewed THEN lease ELSE [lease EXCEPT ![journal.claim].over = TRUE]
  /\ UNCHANGED <<journal, passAt, inHand, runs, upload, completion, submitted, kept, delSpent>>

LeaseRunsOut(c) ==
  /\ LeaseAlive(c) /\ (c = journal.claim /\ journal.stage # "requested" => lapsed)
  /\ lease' = [lease EXCEPT ![c].over = TRUE]
  /\ UNCHANGED <<journal, passAt, inHand, lapsed, runs, upload, completion, submitted, kept, delSpent>>

ExpireLease(c) ==
  /\ lease[c].state \in {"leased", "executing"} /\ lease[c].over
  /\ lease' = [lease EXCEPT ![c].state = "expired"]
  /\ UNCHANGED <<journal, passAt, inHand, lapsed, runs, upload, completion, submitted, kept, delSpent>>

ArtifactLost(u) ==
  /\ upload[u].state = "committed" /\ DeliveryFault
  /\ upload' = [upload EXCEPT ![u].state = "gone"]
  /\ UNCHANGED <<journal, passAt, inHand, lapsed, runs, lease, completion, submitted, kept>>

WorkerDies ==
  /\ passAt # "down" /\ DeliveryFault
  /\ passAt' = "down"
  /\ UNCHANGED <<journal, inHand, lapsed, runs, lease, upload, completion, submitted, kept>>

DeliveryPass ==
  \/ BeginPass \/ Claim \/ NothingQueued \/ BeginTask \/ Execute \/ SaveExecution
  \/ UploadsDone \/ CommitOutput \/ PrepareSubmission \/ DeliverResult \/ ClearJournal
  \/ \E o \in Outputs : OpenOutput(o)

DeliveryNext ==
  \/ DeliveryPass
  \/ Renew \/ KeeperFails \/ ClaimLapses \/ WorkerDies
  \/ \E c \in Claims : LeaseRunsOut(c) \/ ExpireLease(c)
  \/ \E u \in UploadIds : ArtifactLost(u)

\* `mishkan-worker run` repeats run_once and its service manager restarts it; time passes.
DeliveryFairness == WF_delVars(DeliveryPass) /\ WF_delVars(ClaimLapses)

DeliverySpec == DeliveryInit /\ [][DeliveryNext]_delVars /\ DeliveryFairness

-----------------------------------------------------------------------------
(* Properties.                                                                *)

\* A delivered completion carries one execution: what it references was uploaded
\* under its lease from the very run it reports, however often the pass was cut
\* (process.py:206-242).
EvidenceOfRun ==
  \A d \in completion : \A u \in d.artifacts : upload[u].claim = d.claim /\ upload[u].run = d.run

\* Repeated delivery adds no second completion for a claim (process.py:175-191).
CompletedOnce == \A d, e \in completion : d.claim = e.claim => d = e

\* A lease this worker holds is the one its journal names: lost answers never make
\* it forget a claim.  The exception is a renewed lease whose first expiry passed
\* while the process was down (process.py:175-187).
LeaseRemembered ==
  \A c \in Claims : LeaseAlive(c) /\ c # journal.claim =>
    lease[c].renewed \/ \E d \in completion : d.claim = c

\* "without rerunning CrewAI after a result exists": once a result of a claim has been in the
\* journal no execution starts for that claim, neither while the result is delivered nor after
\* the journal has given it up (process.py:206-217).
NoRerun ==
  [][ \A r \in 1..MaxRuns : runs'[r] # runs[r] => runs'[r] \notin kept ]_delVars

\* Every claim ends: the journal becomes free again, unless an artifact the pending
\* submission names is gone, or the bounds of the model are used up.
JournalFrees ==
  journal.stage # "none" ~>
    \/ journal.stage = "none"
    \/ journal.stage = "submitted" /\ ~Acceptable
    \/ \A r \in 1..MaxRuns : runs[r] # 0
    \/ Opened = UploadIds

\* A claim is executed once, delivered once with its own evidence, and ends.
DeliveryCompletes ==
  /\ [](DeliveryTypeOK /\ EvidenceOfRun /\ CompletedOnce /\ LeaseRemembered)
  /\ NoRerun
  /\ JournalFrees
=============================================================================
