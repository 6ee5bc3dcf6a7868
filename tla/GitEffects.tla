------------------------------ MODULE GitEffects ------------------------------
(* GovernedGitService (edits/git.py): stage, commit and the three pushes.  Each  *)
(* effect is a series of git processes: the base is observed, the command is     *)
(* run, HEAD and the remote branch are observed again, and the settlement is     *)
(* read off those observations.  Commands of the daemon on one repository wait   *)
(* for each other, the calls of planned runs do not, and people and other        *)
(* clones use git meanwhile.  A commit is a number; its parent is smaller.       *)
EXTENDS Naturals, FiniteSets

CONSTANTS
  GitCalls,     \* effects that may be under way at once
  GitPaths,     \* paths of the repository
  MaxCommits,   \* bound: commits ever made, here and elsewhere
  MaxByOthers,  \* bound: git commands of other people
  MaxGitFaults  \* bound: processes that fail, time out or lose their answer

ASSUME GitAssumption ==
  /\ MaxCommits \in Nat \ {0} /\ MaxByOthers \in Nat /\ MaxGitFaults \in Nat
  /\ "nobody" \notin GitCalls  \* other people, in Racing

Commits == 1..MaxCommits
RemoteModes == {"push", "force_with_lease", "force_push"}

VARIABLES
  head,     \* HEAD of the local branch
  index,    \* staged paths
  log,      \* the commits so far: parent and paths
  remoteBranch, \* the branch on the remote, 0 if there is none
  gitEffect, \* GitEffectRequest, progress and GitEffectResult of each call
  seenRemote, \* what the remote branch held since a call looked at it first
  gitSpent

gitVars == <<head, index, log, remoteBranch, gitEffect, seenRemote, gitSpent>>

\* What a request says beyond its mode: the paths, the lease and the exact base (0: none).
GitRequests ==
  {[mode |-> m, paths |-> P, lease |-> 0, base |-> b] :
     m \in {"stage", "commit"}, P \in (SUBSET GitPaths) \ {{}}, b \in {0} \cup Commits}
  \cup {[mode |-> m, paths |-> {}, lease |-> l, base |-> 0] : m \in RemoteModes, l \in 0..MaxCommits}
\* mode_fields_are_exact: a lease names the expected object, nothing else has one.
Valid(r) == (r.mode = "force_with_lease") <=> (r.lease # 0)

NoRequest == [mode |-> "stage", paths |-> {}, lease |-> 0, base |-> 0]
Unused == [pc |-> "idle", request |-> NoRequest, before |-> 0, ok |-> FALSE, after |-> 0,
           remoteBefore |-> 0, remoteAfter |-> 0, settlement |-> "none", raced |-> FALSE, made |-> 0]

GitTypeOK ==
  /\ head \in Commits /\ index \subseteq GitPaths /\ remoteBranch \in 0..MaxCommits
  /\ DOMAIN log \subseteq Commits /\ head \in DOMAIN log
  /\ \A c \in GitCalls :
       /\ gitEffect[c].pc \in {"idle", "based", "ready", "applied", "headed", "settled", "refused", "raised"}
       /\ gitEffect[c].settlement \in {"none", "completed", "absent", "uncertain"}
       /\ (gitEffect[c].pc = "settled") <=> (gitEffect[c].settlement # "none")
       /\ seenRemote[c] \subseteq 0..MaxCommits

GitInit ==
  /\ head = 1 /\ index = {} /\ log = [k \in {1} |-> [parent |-> 0, paths |-> {}]]
  /\ remoteBranch \in {0, 1}
  /\ gitEffect = [c \in GitCalls |-> Unused] /\ seenRemote = [c \in GitCalls |-> {}]
  /\ gitSpent = [others |-> 0, faults |-> 0]

Ancestors(k) ==
  LET upTo[j \in 0..MaxCommits] == IF j = 0 \/ j \notin DOMAIN log THEN {0} ELSE {j} \cup upTo[log[j].parent]
  IN  upTo[k]

Step(c, fields) == gitEffect' = [gitEffect EXCEPT ![c] = fields]
Fault == gitSpent.faults < MaxGitFaults /\ gitSpent' = [gitSpent EXCEPT !.faults = @ + 1]

\* The remote branch changes: every call under way will have had it in front of it.
PublishBranch(k) ==
  /\ remoteBranch' = k
  /\ seenRemote' = [c \in GitCalls |-> IF seenRemote[c] = {} THEN {} ELSE seenRemote[c] \cup {k}]
\* The index changes under a commit that has compared them already.
Racing(but) ==
  [c \in GitCalls |->
     IF c # but /\ gitEffect[c].pc = "ready" /\ gitEffect[c].request.mode = "commit"
       THEN [gitEffect[c] EXCEPT !.raced = TRUE] ELSE gitEffect[c]]

\* The repository, the branch and the exact base are verified.
CheckBase(c, r) ==
  /\ gitEffect[c].pc = "idle" /\ Valid(r) /\ r.lease \in {0} \cup DOMAIN log
  /\ Step(c, [Unused EXCEPT !.request = r, !.before = head,
                            !.pc = IF r.base \in {0, head} THEN "based" ELSE "refused"])
  /\ UNCHANGED <<head, index, log, remoteBranch, seenRemote, gitSpent>>

\* A commit compares the staged paths with the exact target; a push notes what the
\* remote branch holds (_remote_oid gives None for a lookup that fails).
CheckGitTarget(c) ==
  /\ gitEffect[c].pc = "based" /\ UNCHANGED <<head, index, log, remoteBranch>>
  /\ LET r == gitEffect[c].request IN
     IF r.mode \in RemoteModes
       THEN /\ \/ /\ Step(c, [gitEffect[c] EXCEPT !.pc = "ready", !.remoteBefore = remoteBranch])
                  /\ UNCHANGED gitSpent
               \/ remoteBranch # 0 /\ Step(c, [gitEffect[c] EXCEPT !.pc = "ready"]) /\ Fault
            /\ seenRemote' = [seenRemote EXCEPT ![c] = {remoteBranch}]
       ELSE /\ Step(c, [gitEffect[c] EXCEPT !.pc = IF r.mode = "commit" /\ index # r.paths THEN "refused"
                                                ELSE "ready"])
            /\ UNCHANGED <<seenRemote, gitSpent>>

\* git stages the paths of the request.
StagePaths(c) ==
  /\ gitEffect[c].pc = "ready" /\ gitEffect[c].request.mode = "stage"
  /\ index' = index \cup gitEffect[c].request.paths
  /\ gitEffect' = [Racing(c) EXCEPT ![c].pc = "applied", ![c].ok = TRUE]
  /\ UNCHANGED <<head, log, remoteBranch, seenRemote, gitSpent>>

\* git commits whatever is staged when it runs.
Made == Cardinality(DOMAIN log) + 1
Record(parent, paths) ==
  log' = [k \in DOMAIN log \cup {Made} |-> IF k = Made THEN [parent |-> parent, paths |-> paths] ELSE log[k]]
Commit(c) ==
  /\ gitEffect[c].pc = "ready" /\ gitEffect[c].request.mode = "commit"
  /\ IF index = {}
       THEN Step(c, [gitEffect[c] EXCEPT !.pc = "applied"]) /\ UNCHANGED <<head, index, log>>
       ELSE /\ Made \in Commits
            /\ Record(head, index) /\ head' = Made /\ index' = {}
            /\ gitEffect' = [Racing(c) EXCEPT ![c].pc = "applied", ![c].ok = TRUE, ![c].made = Made]
  /\ UNCHANGED <<remoteBranch, seenRemote, gitSpent>>

\* Mutant: the lease is given without the object it expects.
AcceptedUnnamed(r, old, new) ==
  CASE r.mode = "push" -> old \in Ancestors(new)
    [] OTHER -> TRUE

\* _argv: a push needs a fast-forward, a lease the exact object it names, force nothing.
Accepted(r, old, new) ==
  CASE r.mode = "push" -> old \in Ancestors(new)
    [] r.mode = "force_with_lease" -> old = r.lease \/ old = new
    [] OTHER -> TRUE

\* The branch is pushed to the authorized URL; the process may fail before or after
\* the remote took it.
Push(c) ==
  /\ gitEffect[c].pc = "ready" /\ gitEffect[c].request.mode \in RemoteModes
  /\ UNCHANGED <<head, index, log>>
  /\ \/ /\ Accepted(gitEffect[c].request, remoteBranch, head) /\ PublishBranch(head)
        /\ Step(c, [gitEffect[c] EXCEPT !.pc = "applied", !.ok = TRUE, !.made = head])
        /\ UNCHANGED gitSpent
     \/ /\ ~Accepted(gitEffect[c].request, remoteBranch, head)
        /\ Step(c, [gitEffect[c] EXCEPT !.pc = "applied"]) /\ UNCHANGED <<remoteBranch, seenRemote, gitSpent>>
     \/ /\ Fault /\ Step(c, [gitEffect[c] EXCEPT !.pc = "applied"])
        /\ \/ Accepted(gitEffect[c].request, remoteBranch, head) /\ PublishBranch(head)
           \/ UNCHANGED <<remoteBranch, seenRemote>>

\* TimeoutExpired leaves the command without a result, whatever git had done by then.
TimeOut(c) ==
  /\ gitEffect[c].pc = "ready" /\ gitEffect[c].request.mode \in RemoteModes /\ Fault
  /\ Step(c, [gitEffect[c] EXCEPT !.pc = "raised"])
  /\ \/ Accepted(gitEffect[c].request, remoteBranch, head) /\ PublishBranch(head)
     \/ UNCHANGED <<remoteBranch, seenRemote>>
  /\ UNCHANGED <<head, index, log>>

ReadHead(c) ==
  /\ gitEffect[c].pc = "applied"
  /\ Step(c, [gitEffect[c] EXCEPT !.pc = "headed", !.after = head])
  /\ UNCHANGED <<head, index, log, remoteBranch, seenRemote, gitSpent>>

\* EffectSettlement of a result whose last lookup gave `found`.
Settlement(e, found) ==
  IF e.request.mode \notin RemoteModes THEN IF e.ok THEN "completed" ELSE "absent"
  ELSE CASE found = e.after -> "completed"
         [] found # e.after /\ found = e.remoteBefore -> "absent"
         [] OTHER -> "uncertain"

SettleGit(c) ==
  /\ gitEffect[c].pc = "headed" /\ UNCHANGED <<head, index, log, remoteBranch, seenRemote>>
  /\ \E found \in {remoteBranch, 0} :
       /\ IF found = remoteBranch THEN UNCHANGED gitSpent
                                  ELSE Fault /\ gitEffect[c].request.mode \in RemoteModes
       /\ Step(c, [gitEffect[c] EXCEPT !.pc = "settled", !.remoteAfter = found,
                                    !.settlement = Settlement(gitEffect[c], found)])

\* Another person stages or commits here, or pushes from another clone.
Others ==
  /\ gitSpent.others < MaxByOthers /\ gitSpent' = [gitSpent EXCEPT !.others = @ + 1]
  /\ \/ /\ \E p \in GitPaths \ index : index' = index \cup {p}
        /\ gitEffect' = Racing("nobody") /\ UNCHANGED <<head, log, remoteBranch, seenRemote>>
     \/ /\ index # {} /\ Made \in Commits
        /\ Record(head, index) /\ head' = Made /\ index' = {}
        /\ gitEffect' = Racing("nobody") /\ UNCHANGED <<remoteBranch, seenRemote>>
     \/ /\ remoteBranch # 0 /\ Made \in Commits /\ Record(remoteBranch, {}) /\ PublishBranch(Made)
        /\ UNCHANGED <<head, index, gitEffect>>

GitNext ==
  \/ Others
  \/ \E c \in GitCalls :
       \/ \E r \in GitRequests : CheckBase(c, r)
       \/ CheckGitTarget(c) \/ StagePaths(c) \/ Commit(c) \/ Push(c) \/ TimeOut(c)
       \/ ReadHead(c) \/ SettleGit(c)

GitSpec == GitInit /\ [][GitNext]_gitVars

\* A push reported as completed put the reported target in front of the remote's
\* readers at some time during the call, also when HEAD moved between the push and
\* the observation of it.
CompletedReached ==
  \A c \in GitCalls :
    (gitEffect[c].settlement = "completed" /\ gitEffect[c].request.mode \in RemoteModes)
      => gitEffect[c].after \in seenRemote[c]

\* A completed commit holds exactly the paths it was authorized for, unless
\* somebody staged or committed after the staged paths were compared with them.
CommitExact ==
  \A c \in GitCalls :
    (gitEffect[c].settlement = "completed" /\ gitEffect[c].request.mode = "commit" /\ ~gitEffect[c].raced)
      => /\ gitEffect[c].made # 0 /\ log[gitEffect[c].made].paths = gitEffect[c].request.paths

\* No effect drops a commit from the remote branch unless it was authorized to force,
\* and a lease drops only what it names.
GuardedPush ==
  \A c \in GitCalls :
    (gitEffect[c].pc = "ready" /\ gitEffect'[c].pc \in {"applied", "raised"} /\ remoteBranch' # remoteBranch)
      => \/ remoteBranch \in Ancestors(remoteBranch')
         \/ gitEffect[c].request.mode = "force_push"
         \/ gitEffect[c].request.mode = "force_with_lease" /\ remoteBranch = gitEffect[c].request.lease
RemoteGuarded == [][GuardedPush]_gitVars

\* What the settlement of a git effect says is what happened to the repository, and no
\* effect drops a commit it was not authorized to drop.
GitFaithful ==
  /\ [](GitTypeOK /\ CompletedReached /\ CommitExact)
  /\ RemoteGuarded
=============================================================================
