------------------------------ MODULE Artifacts ------------------------------
(* DurableArtifactService (artifacts/service.py): uploads staged chunk by      *)
(* chunk, bodies published into a content-addressed store, manifests in SQL,   *)
(* working references with compare-and-swap, roots, garbage collection and     *)
(* reconciliation.  The database and the body store change in separate steps;  *)
(* a lock per storage reference orders the threads of one daemon, and a crash  *)
(* loses the locks and every operation in progress.                            *)
EXTENDS Naturals, FiniteSets

CONSTANTS
  Uploads,     \* upload sessions that may be opened
  Digests,     \* contents, hence storage references
  DigestOf,    \* the expected digest of each upload
  Arts,        \* artifact identifiers
  NoArt,
  Names,       \* working references
  Keeps,       \* kinds of explicit root in use, of {"hold", "pin", "cited"}
  Collections, \* artifact collections
  Chunks,      \* chunks of a complete upload
  MaxRevision, \* bound: revision of a working reference
  MaxPlans,    \* bound: plans, reads and collections begun
  MaxFaults    \* bound: crashes, damage, failed writes, expiries and rejections

ASSUME ArtifactsAssumption ==
  /\ Uploads # {} /\ DigestOf \in [Uploads -> Digests]
  /\ NoArt \notin Arts /\ {"free", "gc"} \cap Uploads = {}
  /\ Keeps \subseteq {"hold", "pin", "cited"}
  /\ Chunks \in Nat \ {0}
  /\ MaxRevision \in Nat /\ MaxPlans \in Nat /\ MaxFaults \in Nat

VARIABLES
  upload,     \* ArtifactUploadRow, with the artifact and the declared sources
  staged,     \* the staging file of each upload
  expired,    \* uploads not touched for staging_ttl_seconds
  body,       \* what the body store holds under each digest
  damaged,    \* digests whose body the outside world removed or altered
  artifact,   \* ArtifactRow; `origin` is history: the upload that made it
  workRef,    \* ArtifactReferenceRow
  kept,       \* holds, pins and the rows of other components that name it
  collection, \* ArtifactCollectionRow
  gcPlan,     \* ArtifactGCPlanRow of the last plan
  recPlan,    \* ArtifactReconciliationPlanRow of the last plan
  casLock,    \* who holds the lock of a storage reference
  commitAt,   \* where commit_upload is for each upload
  purging,    \* digests apply_gc still has to visit, reconciliation's phase,
              \* the artifact a reader looked up, the members a caller checked
  touched,    \* uploads updated since the reconciliation plan was made
  spent       \* plans and faults so far, for the bounds only

rowVars == <<upload, expired, artifact, workRef, kept, collection, gcPlan, recPlan, touched>>
fileVars == <<staged, body, damaged>>
threadVars == <<casLock, commitAt, purging>>
artVars == <<rowVars, fileVars, threadVars, spent>>

Lifecycles == {"none", "available", "missing", "corrupt", "tombstoned", "deleted"}

NoIssues == [uploads |-> {}, missing |-> {}, corrupt |-> {}, orphans |-> {},
             refs |-> {}, collections |-> {}]

AtRest == [gc |-> {}, rec |-> "idle", todo |-> {}, reading |-> NoArt, members |-> {}]

ArtifactsTypeOK ==
  /\ upload \in [Uploads -> [state : {"none", "staging", "committed", "aborted"},
                             offset : 0..Chunks, art : Arts \cup {NoArt}, sources : SUBSET Arts]]
  /\ staged \in [Uploads -> [there : BOOLEAN, chunks : 0..Chunks]]
  /\ expired \subseteq Uploads /\ touched \subseteq Uploads
  /\ body \in [Digests -> {"absent", "intact", "corrupt"}]
  /\ damaged \subseteq Digests
  /\ artifact \in [Arts -> [life : Lifecycles, digest : Digests, sources : SUBSET Arts,
                            origin : Uploads]]
  /\ workRef \in [Names -> [target : Arts \cup {NoArt}, revision : 0..MaxRevision]]
  /\ kept \in [Arts -> SUBSET Keeps]
  /\ collection \in [Collections -> SUBSET Arts]
  /\ gcPlan \in [state : {"none", "planned", "applied"}, candidates : SUBSET Arts]
  /\ recPlan.state \in {"none", "planned", "applied"}
  /\ casLock \in [Digests -> Uploads \cup {"free", "gc"}]
  /\ commitAt \in [Uploads -> {"idle", "locked", "published", "unlinked"}]
  /\ purging.gc \subseteq Digests /\ purging.rec \in {"idle", "validated", "marked"}
  /\ spent \in [plans : 0..MaxPlans, faults : 0..MaxFaults]

ArtifactsInit ==
  /\ upload = [u \in Uploads |-> [state |-> "none", offset |-> 0, art |-> NoArt, sources |-> {}]]
  /\ staged = [u \in Uploads |-> [there |-> FALSE, chunks |-> 0]]
  /\ expired = {} /\ touched = {}
  /\ body = [d \in Digests |-> "absent"]
  /\ damaged = {}
  /\ artifact = [a \in Arts |-> [life |-> "none", digest |-> CHOOSE d \in Digests : TRUE,
                                 sources |-> {}, origin |-> CHOOSE u \in Uploads : TRUE]]
  /\ workRef = [n \in Names |-> [target |-> NoArt, revision |-> 0]]
  /\ kept = [a \in Arts |-> {}]
  /\ collection = [c \in Collections |-> {}]
  /\ gcPlan = [state |-> "none", candidates |-> {}]
  /\ recPlan = [state |-> "none", issues |-> NoIssues]
  /\ casLock = [d \in Digests |-> "free"]
  /\ commitAt = [u \in Uploads |-> "idle"]
  /\ purging = AtRest
  /\ spent = [plans |-> 0, faults |-> 0]

Available == {a \in Arts : artifact[a].life = "available"}

Lifecycle(S, life) == [a \in Arts |-> IF a \in S THEN [artifact[a] EXCEPT !.life = life]
                                      ELSE artifact[a]]

PlanMade == spent.plans < MaxPlans /\ spent' = [spent EXCEPT !.plans = @ + 1]
ArtifactFault == spent.faults < MaxFaults /\ spent' = [spent EXCEPT !.faults = @ + 1]

-----------------------------------------------------------------------------
(* Uploads.                                                                   *)

OpenUpload(u, sources) ==
  /\ upload[u].state = "none"
  /\ sources \subseteq Available
  /\ upload' = [upload EXCEPT ![u].state = "staging", ![u].sources = sources]
  /\ staged' = [staged EXCEPT ![u] = [there |-> TRUE, chunks |-> 0]]
  /\ touched' = touched \cup {u}
  /\ UNCHANGED <<expired, artifact, workRef, kept, collection, gcPlan, recPlan,
                 body, damaged, threadVars, spent>>

\* The chunk reaches the staging file first.  When the write, the fsync or the
\* commit fails the cursor stays: the file may then be longer than the cursor,
\* and every later chunk is refused (the row's "uncertain" is rolled back with
\* the transaction that raises).
AppendChunk(u) ==
  /\ upload[u].state = "staging"
  /\ staged[u] = [there |-> TRUE, chunks |-> upload[u].offset]
  /\ upload[u].offset < Chunks
  /\ staged' = [staged EXCEPT ![u].chunks = @ + 1]
  /\ \/ /\ upload' = [upload EXCEPT ![u].offset = @ + 1]
        /\ expired' = expired \ {u} /\ touched' = touched \cup {u}
        /\ UNCHANGED spent
     \/ ArtifactFault /\ UNCHANGED <<upload, expired, touched>>
  /\ UNCHANGED <<artifact, workRef, kept, collection, gcPlan, recPlan, body, damaged, threadVars>>

AbortUpload(u) ==
  /\ upload[u].state \in {"staging", "aborted"}
  /\ upload' = [upload EXCEPT ![u].state = "aborted"]
  /\ staged' = [staged EXCEPT ![u].there = FALSE]
  /\ expired' = expired \ {u} /\ touched' = touched \cup {u}
  /\ UNCHANGED <<artifact, workRef, kept, collection, gcPlan, recPlan, body, damaged, threadVars, spent>>

UploadExpires(u) ==
  /\ upload[u].state \in {"staging", "aborted"} /\ u \notin expired
  /\ expired' = expired \cup {u}
  /\ ArtifactFault
  /\ UNCHANGED <<upload, artifact, workRef, kept, collection, gcPlan, recPlan, touched,
                 fileVars, threadVars>>

\* commit_upload takes the lock of the content, then reads the row.
CommitBegins(u) ==
  /\ commitAt[u] = "idle" /\ upload[u].state = "staging"
  /\ casLock[DigestOf[u]] = "free"
  /\ casLock' = [casLock EXCEPT ![DigestOf[u]] = u]
  /\ commitAt' = [commitAt EXCEPT ![u] = "locked"]
  /\ UNCHANGED <<rowVars, fileVars, purging, spent>>

Unlock(u) ==
  /\ casLock' = [casLock EXCEPT ![DigestOf[u]] = "free"]
  /\ commitAt' = [commitAt EXCEPT ![u] = "idle"]

\* A body already stored under the reference must match, in either backend.
ExistingMatches(d) == body[d] # "corrupt"

\* A verified copy is linked into place; it replaces nothing.
StoreBody(d) ==
  /\ ExistingMatches(d)
  /\ body' = [body EXCEPT ![d] = "intact"]
  /\ damaged' = damaged \ {d}

Publish(u) ==
  /\ commitAt[u] = "locked"
  /\ staged[u] = [there |-> TRUE, chunks |-> Chunks]
  /\ StoreBody(DigestOf[u])
  /\ commitAt' = [commitAt EXCEPT ![u] = "published"]
  /\ UNCHANGED <<rowVars, staged, casLock, purging, spent>>

Unstage(u) ==
  /\ commitAt[u] = "published" /\ staged[u].there
  /\ staged' = [staged EXCEPT ![u].there = FALSE]
  /\ commitAt' = [commitAt EXCEPT ![u] = "unlinked"]
  /\ UNCHANGED <<rowVars, body, damaged, casLock, purging, spent>>

\* A commit that died after unlinking the staging file finds the body instead.
ResumeCommit(u) ==
  /\ commitAt[u] = "locked" /\ ~staged[u].there
  /\ body[DigestOf[u]] = "intact"
  /\ commitAt' = [commitAt EXCEPT ![u] = "unlinked"]
  /\ UNCHANGED <<rowVars, fileVars, casLock, purging, spent>>

Finalize(u, a) ==
  /\ commitAt[u] = "unlinked"
  /\ upload[u].state = "staging"
  /\ artifact[a].life = "none" /\ a = CHOOSE b \in Arts : artifact[b].life = "none"
  /\ artifact' = [artifact EXCEPT ![a] = [life |-> "available", digest |-> DigestOf[u],
                                          sources |-> upload[u].sources, origin |-> u]]
  /\ upload' = [upload EXCEPT ![u].state = "committed", ![u].art = a]
  /\ expired' = expired \ {u} /\ touched' = touched \cup {u}
  /\ Unlock(u)
  /\ UNCHANGED <<workRef, kept, collection, gcPlan, recPlan, fileVars, purging, spent>>

\* Verification fails, the staging file vanished, or the row changed meanwhile.
CommitRefused(u) ==
  /\ \/ /\ commitAt[u] = "locked"
        /\ IF staged[u].there THEN staged[u].chunks < Chunks \/ body[DigestOf[u]] = "corrupt"
           ELSE body[DigestOf[u]] # "intact"
     \/ commitAt[u] = "published" /\ ~staged[u].there
     \/ commitAt[u] = "unlinked" /\ upload[u].state # "staging"
  /\ Unlock(u)
  /\ UNCHANGED <<rowVars, fileVars, purging, spent>>

\* The content inspector finds a secret: the upload is aborted and its file goes.
RejectSecretUpload(u) ==
  /\ commitAt[u] = "locked" /\ staged[u].there
  /\ upload' = [upload EXCEPT ![u].state = IF @ = "staging" THEN "aborted" ELSE @]
  /\ staged' = [staged EXCEPT ![u].there = FALSE]
  /\ expired' = expired \ {u} /\ touched' = touched \cup {u}
  /\ Unlock(u)
  /\ ArtifactFault
  /\ UNCHANGED <<artifact, workRef, kept, collection, gcPlan, recPlan, body, damaged, purging>>

-----------------------------------------------------------------------------
(* References, roots and reads.                                               *)

UpdateReference(n, a, expected) ==
  /\ a \in Available
  /\ workRef[n].revision = expected /\ expected < MaxRevision
  /\ workRef' = [workRef EXCEPT ![n] = [target |-> a, revision |-> expected + 1]]
  /\ UNCHANGED <<upload, expired, artifact, kept, collection, gcPlan, recPlan, touched,
                 fileVars, threadVars, spent>>

\* hold, pin, or a result, session, call or change set that names the artifact.
Keep(a, why) ==
  /\ artifact[a].life # "none" /\ why \notin kept[a]
  /\ kept' = [kept EXCEPT ![a] = @ \cup {why}]
  /\ UNCHANGED <<upload, expired, artifact, workRef, collection, gcPlan, recPlan, touched,
                 fileVars, threadVars, spent>>

ReleaseKeep(a, why) ==
  /\ why \in kept[a] /\ why # "cited"
  /\ kept' = [kept EXCEPT ![a] = @ \ {why}]
  /\ UNCHANGED <<upload, expired, artifact, workRef, collection, gcPlan, recPlan, touched,
                 fileVars, threadVars, spent>>

\* create_collection checks every member in one transaction of its own ...
CheckMembers(S) ==
  /\ purging.members = {} /\ S # {} /\ S \subseteq Available
  /\ purging' = [purging EXCEPT !.members = S]
  /\ PlanMade
  /\ UNCHANGED <<rowVars, fileVars, casLock, commitAt>>

\* ... and inserts the collection in another.
CreateCollection(c) ==
  /\ purging.members # {} /\ collection[c] = {}
  /\ collection' = [collection EXCEPT ![c] = purging.members]
  /\ purging' = [purging EXCEPT !.members = {}]
  /\ UNCHANGED <<upload, expired, artifact, workRef, kept, gcPlan, recPlan, touched,
                 fileVars, casLock, commitAt, spent>>

\* iter_bytes and body_path: look the manifest up ...
BeginRead(a) ==
  /\ purging.reading = NoArt /\ a \in Available
  /\ purging' = [purging EXCEPT !.reading = a]
  /\ PlanMade
  /\ UNCHANGED <<rowVars, fileVars, casLock, commitAt>>

\* ... then observe the body, and record what is wrong with it.
ObserveBody ==
  LET a == purging.reading
      seen == body[artifact[a].digest]
  IN /\ a # NoArt
     /\ artifact' = CASE seen = "absent"  -> Lifecycle({a}, "missing")
                      [] seen = "corrupt" -> Lifecycle({a}, "corrupt")
                      [] OTHER            -> artifact
     /\ purging' = [purging EXCEPT !.reading = NoArt]
     /\ UNCHANGED <<upload, expired, workRef, kept, collection, gcPlan, recPlan, touched,
                    fileVars, casLock, commitAt, spent>>

-----------------------------------------------------------------------------
(* Garbage collection.                                                        *)

DirectRoots ==
  {workRef[n].target : n \in Names} \cup {a \in Arts : kept[a] # {}}
    \cup UNION {collection[c] : c \in Collections}

\* Everything a root names or was derived from, however many steps away.
RootedIds ==
  {a \in Arts : \A S \in SUBSET Arts :
     (DirectRoots \ {NoArt}) \subseteq S /\ (\A b \in S : artifact[b].sources \subseteq S)
       => a \in S}

\* The watermark is the time of planning.
PlanGc ==
  /\ purging.gc = {}
  /\ gcPlan' = [state |-> "planned", candidates |-> Available \ RootedIds]
  /\ PlanMade
  /\ UNCHANGED <<upload, expired, artifact, workRef, kept, collection, recPlan, touched,
                 fileVars, threadVars>>

\* Mutant: a plan is applied as it was made.
AsPlanned(candidates) == TRUE

\* A plan is refused as a whole when a candidate has become a root since.
StillUnrooted(candidates) == candidates \cap RootedIds = {}

ApplyGc ==
  LET gone == gcPlan.candidates \cap Available
  IN /\ gcPlan.state = "planned"
     /\ StillUnrooted(gcPlan.candidates)
     /\ artifact' = Lifecycle(gone, "tombstoned")
     /\ gcPlan' = [gcPlan EXCEPT !.state = "applied"]
     /\ purging' = [purging EXCEPT !.gc = {artifact[a].digest : a \in gone}]
     /\ UNCHANGED <<upload, expired, workRef, kept, collection, recPlan, touched,
                    fileVars, casLock, commitAt, spent>>

\* A row in none of these states keeps the body of its digest.
LiveBody(d) == \E a \in Arts : artifact[a].digest = d /\ artifact[a].life = "available"

GcPurge(d) ==
  /\ d \in purging.gc /\ casLock[d] = "free"
  /\ IF LiveBody(d)
     THEN /\ purging' = [purging EXCEPT !.gc = @ \ {d}]
          /\ UNCHANGED <<body, casLock>>
     ELSE /\ body' = [body EXCEPT ![d] = "absent"]
          /\ casLock' = [casLock EXCEPT ![d] = "gc"]
          /\ UNCHANGED purging
  /\ UNCHANGED <<rowVars, staged, damaged, commitAt, spent>>

GcMarkDeleted(d) ==
  /\ casLock[d] = "gc"
  /\ artifact' = Lifecycle({a \in Arts : /\ artifact[a].digest = d
                                         /\ artifact[a].life = "tombstoned"}, "deleted")
  /\ casLock' = [casLock EXCEPT ![d] = "free"]
  /\ purging' = [purging EXCEPT !.gc = @ \ {d}]
  /\ UNCHANGED <<upload, expired, workRef, kept, collection, gcPlan, recPlan, touched,
                 fileVars, commitAt, spent>>

-----------------------------------------------------------------------------
(* Reconciliation: plan, validate, purge, mark, finish.                       *)

Unavailable(a, bad) == a \in bad \/ artifact[a].life # "available"

Observed(seen) == {a \in Available : body[artifact[a].digest] = seen}

Claimed(d) == \E a \in Arts : artifact[a].digest = d /\
                artifact[a].life \in {"available", "missing", "corrupt"}

PlanReconciliation ==
  LET bad == Observed("absent") \cup Observed("corrupt")
  IN /\ purging.rec = "idle"
     /\ recPlan' = [state |-> "planned", issues |->
          [uploads |-> {u \in expired : upload[u].state \in {"staging", "aborted"}},
           missing |-> Observed("absent"), corrupt |-> Observed("corrupt"),
           orphans |-> {d \in Digests : body[d] # "absent" /\ ~Claimed(d)},
           refs |-> {n \in Names : workRef[n].target # NoArt /\ Unavailable(workRef[n].target, bad)},
           collections |-> {c \in Collections : \E a \in collection[c] : Unavailable(a, bad)}]]
     /\ touched' = {}
     /\ PlanMade
     /\ UNCHANGED <<upload, expired, artifact, workRef, kept, collection, gcPlan,
                    fileVars, threadVars>>

\* What the plan says must still be so; otherwise the plan is refused.
PlanHolds ==
  LET i == recPlan.issues
      bad == i.missing \cup i.corrupt
  IN /\ \A a \in i.missing : body[artifact[a].digest] = "absent"
     /\ \A a \in i.corrupt : body[artifact[a].digest] = "corrupt"
     /\ \A d \in i.orphans : ~Claimed(d)
     /\ \A n \in i.refs : workRef[n].target # NoArt => Unavailable(workRef[n].target, bad)
     /\ \A c \in i.collections : collection[c] # {} => \E a \in collection[c] : Unavailable(a, bad)
     /\ \A u \in i.uploads : upload[u].state \in {"staging", "aborted"} /\ u \notin touched

ValidatePlan ==
  /\ recPlan.state = "planned" /\ purging.rec = "idle"
  /\ PlanHolds
  /\ purging' = [purging EXCEPT !.rec = "validated", !.todo = recPlan.issues.orphans]
  /\ UNCHANGED <<rowVars, fileVars, casLock, commitAt, spent>>

DeleteOrphan(d) ==
  /\ purging.rec = "validated" /\ d \in purging.todo /\ casLock[d] = "free"
  /\ body' = IF LiveBody(d) THEN body ELSE [body EXCEPT ![d] = "absent"]
  /\ purging' = [purging EXCEPT !.todo = @ \ {d}]
  /\ UNCHANGED <<rowVars, staged, damaged, casLock, commitAt, spent>>

MarkIssues ==
  LET i == recPlan.issues
  IN /\ purging.rec = "validated" /\ purging.todo = {}
     /\ artifact' = [a \in Arts |-> CASE a \in i.missing -> [artifact[a] EXCEPT !.life = "missing"]
                                      [] a \in i.corrupt -> [artifact[a] EXCEPT !.life = "corrupt"]
                                      [] OTHER -> artifact[a]]
     /\ workRef' = [n \in Names |-> IF n \in i.refs THEN [target |-> NoArt, revision |-> 0]
                                    ELSE workRef[n]]
     /\ collection' = [c \in Collections |-> IF c \in i.collections THEN {} ELSE collection[c]]
     /\ upload' = [u \in Uploads |-> IF u \in i.uploads THEN [upload[u] EXCEPT !.state = "aborted"]
                                     ELSE upload[u]]
     /\ purging' = [purging EXCEPT !.rec = "marked"]
     /\ UNCHANGED <<expired, kept, gcPlan, recPlan, touched, fileVars, casLock, commitAt, spent>>

FinishReconciliation ==
  /\ purging.rec = "marked"
  /\ staged' = [u \in Uploads |-> IF u \in recPlan.issues.uploads
                                  THEN [staged[u] EXCEPT !.there = FALSE] ELSE staged[u]]
  /\ recPlan' = [recPlan EXCEPT !.state = "applied"]
  /\ purging' = [purging EXCEPT !.rec = "idle"]
  /\ UNCHANGED <<upload, expired, artifact, workRef, kept, collection, gcPlan, touched,
                 body, damaged, casLock, commitAt, spent>>

-----------------------------------------------------------------------------
(* The environment.                                                           *)

DamageBody(d, how) ==
  /\ body[d] = "intact" /\ how \in {"absent", "corrupt"}
  /\ body' = [body EXCEPT ![d] = how]
  /\ damaged' = damaged \cup {d}
  /\ ArtifactFault
  /\ UNCHANGED <<rowVars, staged, threadVars>>

CrashArtifacts ==
  /\ <<casLock, commitAt, purging>> #
       <<[d \in Digests |-> "free"], [u \in Uploads |-> "idle"], AtRest>>
  /\ casLock' = [d \in Digests |-> "free"]
  /\ commitAt' = [u \in Uploads |-> "idle"]
  /\ purging' = AtRest
  /\ ArtifactFault
  /\ UNCHANGED <<rowVars, fileVars>>

ArtifactsNext ==
  \/ \E u \in Uploads :
       \/ \E S \in SUBSET Arts : OpenUpload(u, S)
       \/ AppendChunk(u) \/ AbortUpload(u) \/ UploadExpires(u)
       \/ CommitBegins(u) \/ Publish(u) \/ Unstage(u) \/ ResumeCommit(u)
       \/ (\E a \in Arts : Finalize(u, a)) \/ CommitRefused(u) \/ RejectSecretUpload(u)
  \/ \E a \in Arts :
       \/ \E n \in Names, r \in 0..MaxRevision : UpdateReference(n, a, r)
       \/ \E why \in Keeps : Keep(a, why) \/ ReleaseKeep(a, why)
       \/ BeginRead(a)
  \/ ObserveBody
  \/ (\E S \in SUBSET Arts : CheckMembers(S)) \/ (\E c \in Collections : CreateCollection(c))
  \/ PlanGc \/ ApplyGc \/ (\E d \in Digests : GcPurge(d) \/ GcMarkDeleted(d))
  \/ PlanReconciliation \/ ValidatePlan \/ (\E d \in Digests : DeleteOrphan(d))
  \/ MarkIssues \/ FinishReconciliation
  \/ (\E d \in Digests, how \in {"absent", "corrupt"} : DamageBody(d, how))
  \/ CrashArtifacts

ArtifactsSpec == ArtifactsInit /\ [][ArtifactsNext]_artVars

-----------------------------------------------------------------------------
(* Properties.                                                                *)

\* An artifact that is offered has its body in the store, whatever commit, garbage
\* collection, reconciliation and crashes interleave: only the outside world
\* can take it away.
AvailableHasBody ==
  \A a \in Available : body[artifact[a].digest] = "intact" \/ artifact[a].digest \in damaged

\* A retried or resumed commit never publishes the same upload twice.
OneArtifactPerUpload ==
  \A a, b \in Arts : artifact[a].life # "none" /\ artifact[b].life # "none"
                       /\ artifact[a].origin = artifact[b].origin => a = b

\* A working reference never points at collected content: the target checked by
\* update_reference is a root for every plan applied later.
ReferencesLive ==
  \A n \in Names : workRef[n].target # NoArt =>
    artifact[workRef[n].target].life \notin {"tombstoned", "deleted"}

\* Nothing that something retained was derived from is collected: a source is
\* never tombstoned while a derivation of it is held, pinned, named or referenced.
DerivationKept ==
  [][\A a, b \in Arts :
       /\ artifact[a].life = "available" /\ artifact'[a].life = "tombstoned"
       /\ artifact[b].life = "available" /\ a \in artifact[b].sources
       => kept[b] = {} /\ \A n \in Names : workRef[n].target # b]_artVars

\* What publication, garbage collection, reconciliation and crashes may never do to each
\* other: rows and bodies agree, and nothing is collected that is referenced or derived from.
ArtifactsKept ==
  /\ [](ArtifactsTypeOK /\ AvailableHasBody /\ OneArtifactPerUpload /\ ReferencesLive)
  /\ DerivationKept
=============================================================================
