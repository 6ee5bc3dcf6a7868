------------------------------ MODULE MCStores ------------------------------
(* The stores of the daemon side by side: the event outbox, artifacts, change  *)
(* sets, the Git repository they are published with, and the schema of the     *)
(* database.  They share no variable, so one of them moves per behaviour       *)
(* (`focus`): their state spaces add up instead of multiplying.                *)
EXTENDS EventOutbox, Artifacts, Edits, GitEffects, SchemaMigration
CONSTANTS r1, r2, h1, h2, p1, p2, s1, u1, u2, d1, a1, a2, n1, c1, f1, f2, k1, g1, g2, w1, w2

\* Every subscriber follows all runs; both uploads carry the same content.
FollowsAll == [s \in Readers |-> NoRun]
SameContent == [u \in Uploads |-> d1]

Operation(kind, p, d, want, keep) ==
  [kind |-> kind, path |-> p, dest |-> d, want |-> want, destWant |-> "absent", content |-> "y",
   match |-> want, retain |-> keep]
Exists(p) == [kind |-> "exists", path |-> p, token |-> "absent"]
HasToken(p, t) == [kind |-> "digest", path |-> p, token |-> t]

\* A write and a move whose validation fails unless somebody puts the source back; a
\* copy and a delete that succeed; a retained replacement and a directory to remove.
SomeEdits ==
  {[ops |-> <<Operation("write", f1, f1, "x", FALSE), Operation("move", f1, f2, "y", FALSE)>>,
    checks |-> {Exists(f1)}],
   [ops |-> <<Operation("copy", f1, f2, "x", FALSE), Operation("delete", f1, f1, "x", FALSE)>>,
    checks |-> {HasToken(f2, "x")}],
   [ops |-> <<Operation("replace", f1, f1, "x", TRUE), Operation("mkdir", f2, f2, "absent", FALSE)>>,
    checks |-> {Exists(f1), HasToken(f2, "absent")}]}

\* The uploads are alike, so it does not matter which of them is opened first.
InOrder == upload'[u1].state = "none" => upload'[u2].state = "none"

VARIABLE focus
storesVars == <<focus, outboxVars, artVars, editVars, gitVars, schemaVars>>

\* The stores at rest keep one initial state.
StoresInit ==
  /\ focus \in {"outbox", "artifacts", "edits", "git", "schema"}
  /\ IF focus = "schema" THEN TRUE ELSE original = BlankDatabase
  /\ IF focus = "git" THEN TRUE ELSE remoteBranch = 0
  /\ OutboxInit /\ ArtifactsInit /\ EditsInit /\ GitInit /\ SchemaInit
  /\ focus # "edits" => \A p \in Paths : files[p] = "absent"

StoresNext ==
  /\ UNCHANGED focus
  /\ \/ focus = "outbox" /\ UNCHANGED <<artVars, editVars, gitVars, schemaVars>> /\ OutboxNext
     \/ /\ focus = "artifacts" /\ UNCHANGED <<outboxVars, editVars, gitVars, schemaVars>>
        /\ ArtifactsNext /\ InOrder
     \/ focus = "edits" /\ UNCHANGED <<outboxVars, artVars, gitVars, schemaVars>> /\ EditsNext
     \/ focus = "git" /\ UNCHANGED <<outboxVars, artVars, editVars, schemaVars>> /\ GitNext
     \/ focus = "schema" /\ UNCHANGED <<outboxVars, artVars, editVars, gitVars>> /\ SchemaNext

StoresSpec ==
  /\ StoresInit /\ [][StoresNext]_storesVars
  /\ \A s \in Readers : WF_outboxVars(focus = "outbox" /\ (GapReported(s) \/ StreamPage(s)))
=============================================================================
