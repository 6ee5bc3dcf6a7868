-------------------------------- MODULE Edits --------------------------------
(* ChangeSetService (edits/service.py): exact filesystem change sets with a    *)
(* journal entry per operation.  An operation is observed, journaled with its  *)
(* before-token, preimage and expected after-token, re-checked, applied,       *)
(* verified and marked.  The daemon runs one apply per change set at a time    *)
(* (api.py keeps a lock per target); other change sets and other programs      *)
(* change the same paths meanwhile, and the daemon may die between any two     *)
(* steps.  A path's state is one token: its content, "dir" or "absent".        *)
EXTENDS Naturals, Sequences, FiniteSets

CONSTANTS
  Paths, Contents,   \* workspace paths and file contents
  Definitions,       \* the change sets a client may plan
  Sets,              \* change set identifiers
  MaxForeign,        \* bound: changes by other programs
  MaxEditFaults      \* bound: deaths of the daemon and failing system calls

Tokens == Contents \cup {"absent", "dir"}

ASSUME EditsAssumption ==
  /\ MaxForeign \in Nat /\ MaxEditFaults \in Nat
  /\ \A d \in Definitions : Len(d.ops) > 0

VARIABLES
  files,     \* the workspace
  changeSet, \* ChangeSetRow: definition and state
  journal,   \* ChangeOperationRow per position
  at,        \* the thread that applies the change set: where it is and what it read
  raced,     \* paths others changed where the running operation does not look again
  others,    \* paths others changed since the change set was planned
  torn,      \* operations whose rollback was interrupted, their entry still applied
  editSpent

editVars == <<files, changeSet, journal, at, raced, others, torn, editSpent>>

Pairing(op) == op.kind \in {"move", "copy"}
Footprint(op) == IF Pairing(op) THEN {op.path, op.dest} ELSE {op.path}

\* _operation_token: what the operation's paths hold now.
OperationToken(op) == [p \in Footprint(op) |-> files[p]]

Resting == [pc |-> "idle", pos |-> 1, before |-> "absent"]
EditPhases == {"idle", "next", "observed", "prepared", "checked", "linked", "effected", "mismatch",
               "validate", "undo", "restoring", "relinked", "restored"}
EditStates == {"none", "planned", "applying", "applied", "verified", "rollback_pending",
               "rolled_back", "conflict", "uncertain"}

EditsTypeOK ==
  /\ files \in [Paths -> Tokens]
  /\ \A c \in Sets :
       /\ changeSet[c].state \in EditStates
       /\ changeSet[c].state # "none" => changeSet[c].def \in Definitions
       /\ \A i \in DOMAIN journal[c] :
            journal[c][i].state \in {"pending", "prepared", "applied", "rolled_back"}
       /\ at[c].pc \in EditPhases /\ at[c].before \in Tokens
       /\ at[c].pc # "idle" => at[c].pos \in 0..Len(changeSet[c].def.ops) + 1
  /\ raced \in [Sets -> SUBSET Paths] /\ others \in [Sets -> SUBSET Paths]
  /\ \A c \in Sets : torn[c] \subseteq DOMAIN journal[c]
  /\ editSpent \in [foreign : 0..MaxForeign, faults : 0..MaxEditFaults]

Pending == [state |-> "pending", before |-> <<>>, preimage |-> "absent", after |-> <<>>]

EditsInit ==
  /\ files \in [Paths -> Contents \cup {"absent"}]
  /\ changeSet = [c \in Sets |-> [state |-> "none", def |-> CHOOSE d \in Definitions : TRUE]]
  /\ journal = [c \in Sets |-> <<>>]
  /\ at = [c \in Sets |-> Resting]
  /\ raced = [c \in Sets |-> {}] /\ others = raced /\ torn = raced
  /\ editSpent = [foreign |-> 0, faults |-> 0]

Ops(c) == changeSet[c].def.ops
Op(c) == Ops(c)[at[c].pos]
Entry(c) == journal[c][at[c].pos]

ToPhase(c, pc) == at' = [at EXCEPT ![c].pc = pc]
SetState(c, state) == changeSet' = [changeSet EXCEPT ![c].state = state]
Finish(c, state) == SetState(c, state) /\ at' = [at EXCEPT ![c] = Resting]

\* The files become f; whoever did not do it did not see it.
Put(by, f) ==
  LET new == {p \in Paths : f[p] # files[p]}
      Unseen(c) == at[c].pc \in {"observed", "checked", "linked", "restoring", "relinked"}
  IN /\ files' = f
     /\ others' = [c \in Sets |-> IF c = by THEN others[c] ELSE others[c] \cup new]
     /\ raced' = [c \in Sets |-> IF c # by /\ Unseen(c) THEN raced[c] \cup new ELSE raced[c]]

-----------------------------------------------------------------------------
(* Planning and the start of apply.                                           *)

\* _validate_scope refuses paths outside the declared scopes: definitions that
\* reach the journal stay inside them.
PlanChange(c, d) ==
  /\ changeSet[c].state = "none"
  /\ changeSet' = [changeSet EXCEPT ![c] = [state |-> "planned", def |-> d]]
  /\ journal' = [journal EXCEPT ![c] = [i \in 1..Len(d.ops) |-> Pending]]
  /\ UNCHANGED <<files, at, raced, others, torn, editSpent>>

\* apply may be called in any state.
ApplyBegins(c) ==
  /\ at[c].pc = "idle" /\ changeSet[c].state # "none"
  /\ SetState(c, "applying")
  /\ at' = [at EXCEPT ![c] = [Resting EXCEPT !.pc = "next"]]
  /\ UNCHANGED <<files, journal, raced, others, torn, editSpent>>

\* reconcile: apply for an unfinished change set, the stored result otherwise.
ReconcileChange(c) ==
  /\ changeSet[c].state \in {"applying", "uncertain", "rollback_pending"}
  /\ ApplyBegins(c)

-----------------------------------------------------------------------------
(* One operation.                                                             *)

\* _recover_prepared: compare reality with both recorded tokens.
RecoverPrepared(c) ==
  CASE OperationToken(Op(c)) = Entry(c).after -> "applied"
    [] OperationToken(Op(c)) # Entry(c).after ->
         IF OperationToken(Op(c)) = Entry(c).before THEN "retry" ELSE "conflict"

\* _check_precondition and _check_destination_precondition: an exact token, where
\* digest, revision and blob differ only in how the token is computed; a
\* replacement also needs its match.
PreconditionsHold(op) ==
  /\ files[op.path] = op.want
  /\ Pairing(op) => files[op.dest] = op.destWant
  /\ op.kind = "replace" => files[op.path] = op.match

\* The step of the loop that only reads: skip what is applied, settle what was
\* prepared by an interrupted apply, check the preconditions of the rest.
ObserveOperation(c) ==
  /\ at[c].pc = "next" /\ at[c].pos <= Len(Ops(c))
  /\ \/ Entry(c).state = "applied"
        /\ at' = [at EXCEPT ![c].pos = @ + 1]
        /\ UNCHANGED <<changeSet, journal, raced>>
     \/ Entry(c).state = "prepared" /\ RecoverPrepared(c) = "applied"
        /\ journal' = [journal EXCEPT ![c][at[c].pos].state = "applied"]
        /\ at' = [at EXCEPT ![c].pos = @ + 1]
        /\ UNCHANGED <<changeSet, raced>>
     \/ Entry(c).state = "prepared" /\ RecoverPrepared(c) = "conflict"
        /\ Finish(c, "conflict") /\ UNCHANGED <<journal, raced>>
     \/ /\ \/ Entry(c).state \in {"pending", "rolled_back"}
           \/ Entry(c).state = "prepared" /\ RecoverPrepared(c) = "retry"
        /\ IF PreconditionsHold(Op(c))
           THEN /\ at' = [at EXCEPT ![c].pc = "observed", ![c].before = files[Op(c).path]]
                /\ raced' = [raced EXCEPT ![c] = {}]
                /\ UNCHANGED changeSet
           ELSE Finish(c, "conflict") /\ UNCHANGED raced
        /\ UNCHANGED journal
  /\ UNCHANGED <<files, others, torn, editSpent>>

\* _expected_state_token, from what the paths hold now.
ExpectedAfter(op) ==
  CASE op.kind = "mkdir"  -> [p \in Footprint(op) |-> "dir"]
    [] op.kind = "delete" -> [p \in Footprint(op) |-> "absent"]
    [] op.kind = "move"   -> [p \in Footprint(op) |-> IF p = op.dest THEN files[op.path] ELSE "absent"]
    [] op.kind = "copy"   -> [p \in Footprint(op) |-> files[op.path]]
    [] OTHER              -> [p \in Footprint(op) |-> op.content]

\* _prepare: the before-token is read again here, the preimage is the content
\* read when the preconditions were checked.
PrepareOperation(c) ==
  /\ at[c].pc = "observed"
  /\ journal' = [journal EXCEPT ![c][at[c].pos] =
                   [state |-> "prepared", before |-> OperationToken(Op(c)),
                    preimage |-> at[c].before, after |-> ExpectedAfter(Op(c))]]
  /\ ToPhase(c, "prepared")
  /\ UNCHANGED <<files, changeSet, raced, others, torn, editSpent>>

\* The `expected_before` comparison of _atomic_write, _delete_at, _mkdir_at and
\* _move_or_copy_at; a destination must be absent whatever its precondition said.
CheckTarget(c) ==
  /\ at[c].pc = "prepared"
  /\ IF /\ OperationToken(Op(c)) = Entry(c).before
        /\ Pairing(Op(c)) => files[Op(c).dest] = "absent" /\ files[Op(c).path] \in Contents
        /\ Op(c).kind = "mkdir" => files[Op(c).path] = "absent"
        /\ Op(c).kind = "delete" => files[Op(c).path] # "absent"
     THEN ToPhase(c, "checked") /\ UNCHANGED changeSet
     ELSE Finish(c, "conflict")
  /\ UNCHANGED <<files, journal, raced, others, torn, editSpent>>

\* Mutant: an effect that replaces what it finds.
AdmittedAnyway(op) == TRUE

\* link and mkdir refuse what is there, link and unlink what is not; a rename replaces.
Admitted(op) ==
  CASE op.kind = "mkdir"  -> files[op.path] = "absent"
    [] op.kind = "delete" -> files[op.path] # "absent"
    [] op.kind = "move"   -> files[op.dest] = "absent" /\ files[op.path] # "absent"
    [] op.kind = "copy"   -> files[op.dest] = "absent"
    [] OTHER              -> TRUE

\* One rename, mkdir, unlink or link; a move is a link, then an unlink.
ApplyOperation(c) ==
  /\ at[c].pc = "checked"
  /\ IF Admitted(Op(c))
     THEN /\ Put(c, IF Op(c).kind = "move" THEN [files EXCEPT ![Op(c).dest] = files[Op(c).path]]
                    ELSE [p \in Paths |-> IF p \in Footprint(Op(c)) /\ ~(Op(c).kind = "copy" /\ p = Op(c).path)
                                           THEN Entry(c).after[p] ELSE files[p]])
          /\ ToPhase(c, IF Op(c).kind = "move" THEN "linked" ELSE "effected")
          /\ UNCHANGED changeSet
     ELSE Finish(c, "conflict") /\ UNCHANGED <<files, raced, others>>
  /\ UNCHANGED <<journal, torn, editSpent>>

UnlinkSource(c) ==
  /\ at[c].pc = "linked"
  /\ IF files[Op(c).path] = "absent" THEN Finish(c, "conflict") /\ UNCHANGED <<files, raced, others>>
     ELSE /\ Put(c, [files EXCEPT ![Op(c).path] = "absent"])
          /\ ToPhase(c, "effected") /\ UNCHANGED changeSet
  /\ UNCHANGED <<journal, torn, editSpent>>

\* The exact verification and _mark_applied.
VerifyOperation(c) ==
  /\ at[c].pc = "effected"
  /\ IF OperationToken(Op(c)) = Entry(c).after
     THEN /\ journal' = [journal EXCEPT ![c][at[c].pos].state = "applied"]
          /\ at' = [at EXCEPT ![c].pos = @ + 1, ![c].pc = "next"]
          /\ UNCHANGED changeSet
     ELSE /\ SetState(c, "rollback_pending") /\ ToPhase(c, "mismatch") /\ UNCHANGED journal
  /\ UNCHANGED <<files, raced, others, torn, editSpent>>

\* The tokens compared before a restore and again in it: a path that no longer holds
\* what the operation left is a conflict, a retained operation stays.
Settles(c) ==
  IF OperationToken(Op(c)) # Entry(c).after THEN Finish(c, "conflict") /\ UNCHANGED raced
  ELSE IF Op(c).retain THEN Finish(c, "uncertain") /\ UNCHANGED raced
  ELSE ToPhase(c, "restoring") /\ raced' = [raced EXCEPT ![c] = {}] /\ UNCHANGED changeSet

\* _rollback_one looks a second time; what reads as expected after all is restored,
\* this operation only.
RollbackOne(c) ==
  /\ at[c].pc = "mismatch"
  /\ Settles(c)
  /\ UNCHANGED <<files, journal, others, torn, editSpent>>

-----------------------------------------------------------------------------
(* Validations and rollback.                                                  *)

AllApplied(c) ==
  /\ at[c].pc = "next" /\ at[c].pos = Len(Ops(c)) + 1
  /\ SetState(c, "applied")
  /\ ToPhase(c, "validate")
  /\ UNCHANGED <<files, journal, raced, others, torn, editSpent>>

\* _run_validations: exists, absent and exact digests.
ValidationsPass(c) ==
  \A v \in changeSet[c].def.checks :
    IF v.kind = "exists" THEN files[v.path] # "absent" ELSE files[v.path] = v.token

Validate(c) ==
  /\ at[c].pc = "validate"
  /\ IF ValidationsPass(c) THEN Finish(c, "verified")
     ELSE /\ SetState(c, "rollback_pending")
          /\ at' = [at EXCEPT ![c].pc = "undo", ![c].pos = Len(Ops(c))]
  /\ UNCHANGED <<files, journal, raced, others, torn, editSpent>>

\* _rollback_applied, from the last operation to the first.
Undo(c) ==
  /\ at[c].pc = "undo"
  /\ IF at[c].pos = 0 THEN Finish(c, "rolled_back") /\ UNCHANGED raced
     ELSE IF Entry(c).state # "applied"
     THEN at' = [at EXCEPT ![c].pos = @ - 1] /\ UNCHANGED <<raced, changeSet>>
     ELSE Settles(c)
  /\ UNCHANGED <<files, journal, others, torn, editSpent>>

\* An operation whose restore was begun and whose entry still says applied.
Begun(c) ==
  IF at[c].pc \in {"relinked", "restored"} /\ Entry(c).state = "applied" THEN {at[c].pos} ELSE {}

\* What the restore's own call refuses: a link over a file, an unlink of nothing.
Restorable(op, entry) ==
  CASE op.kind = "copy" -> files[op.dest] # "absent"
    [] op.kind = "move" -> files[op.path] = "absent" /\ files[op.dest] # "absent"
    [] op.kind \notin {"copy", "move"} /\ entry.preimage = "absent" -> files[op.path] # "absent"
    [] op.kind \notin {"copy", "move"} /\ entry.preimage = "dir" -> files[op.path] = "absent"
    [] OTHER -> TRUE

\* _restore_operation: the preimage or nothing is put back, a copy deleted, a move
\* linked back to its source.
RestoreOperation(c) ==
  /\ at[c].pc = "restoring"
  /\ IF ~Restorable(Op(c), Entry(c)) THEN Finish(c, "conflict") /\ UNCHANGED <<files, raced, others>>
     ELSE /\ Put(c, CASE Op(c).kind = "copy" -> [files EXCEPT ![Op(c).dest] = "absent"]
                      [] Op(c).kind = "move" -> [files EXCEPT ![Op(c).path] = files[Op(c).dest]]
                      [] OTHER               -> [files EXCEPT ![Op(c).path] = Entry(c).preimage])
          /\ ToPhase(c, IF Op(c).kind = "move" THEN "relinked" ELSE "restored")
          /\ UNCHANGED changeSet
  /\ UNCHANGED <<journal, torn, editSpent>>

\* The second half of undoing a move; a destination removed meanwhile fails it.
UnlinkDestination(c) ==
  /\ at[c].pc = "relinked"
  /\ IF files[Op(c).dest] = "absent"
     THEN /\ torn' = [torn EXCEPT ![c] = @ \cup Begun(c)]
          /\ Finish(c, "conflict") /\ UNCHANGED <<files, raced, others>>
     ELSE /\ Put(c, [files EXCEPT ![Op(c).dest] = "absent"])
          /\ ToPhase(c, "restored") /\ UNCHANGED <<changeSet, torn>>
  /\ UNCHANGED <<journal, editSpent>>

\* _mark_rolled_back; _rollback_one leaves the entry prepared and is done.
MarkRolledBack(c) ==
  /\ at[c].pc = "restored"
  /\ IF Entry(c).state = "applied"
     THEN /\ journal' = [journal EXCEPT ![c][at[c].pos].state = "rolled_back"]
          /\ at' = [at EXCEPT ![c].pc = "undo", ![c].pos = @ - 1]
          /\ UNCHANGED changeSet
     ELSE Finish(c, "rolled_back") /\ UNCHANGED journal
  /\ UNCHANGED <<files, raced, others, torn, editSpent>>

-----------------------------------------------------------------------------
(* Faults and other programs.                                                 *)

EditFault == editSpent.faults < MaxEditFaults /\ editSpent' = [editSpent EXCEPT !.faults = @ + 1]

\* How apply ends when a system call fails: every path is reached inside
\* _parent_descriptor, which makes an OSError a MishkanError, hence a conflict; the
\* artifact store, read for a preimage or written with one or with the diff, lets it
\* through, hence uncertain.
FailedAs(c) ==
  {"conflict"} \cup
  (IF \/ at[c].pc \in {"observed", "validate"}
      \/ at[c].pc \in {"undo", "mismatch"} /\ ~Pairing(Op(c)) /\ Entry(c).preimage \in Contents
   THEN {"uncertain"} ELSE {})

\* A call fails before an effect, between the two halves of a move or of its undoing, or
\* in the fsync after an effect; the journal entry stays as it is.
SystemCallFails(c) ==
  /\ at[c].pc # "idle"
  /\ at[c].pc # "validate" => at[c].pos \in DOMAIN Ops(c)
  /\ at[c].pc = "next" => Entry(c).state # "applied"
  /\ at[c].pc = "undo" => Entry(c).state = "applied"
  /\ EditFault
  /\ \E state \in FailedAs(c) : Finish(c, state)
  /\ torn' = [torn EXCEPT ![c] = @ \cup Begun(c)]
  /\ UNCHANGED <<files, journal, raced, others>>

ServiceDies ==
  /\ EditFault
  /\ at' = [c \in Sets |-> Resting]
  /\ torn' = [c \in Sets |-> torn[c] \cup Begun(c)]
  /\ UNCHANGED <<files, changeSet, journal, raced, others>>

ForeignEdit(p, t) ==
  /\ editSpent.foreign < MaxForeign /\ files[p] # t
  /\ editSpent' = [editSpent EXCEPT !.foreign = @ + 1]
  /\ Put("others", [files EXCEPT ![p] = t])
  /\ UNCHANGED <<changeSet, journal, at, torn>>

ChangeStep(c) ==
  \/ ObserveOperation(c) \/ PrepareOperation(c) \/ CheckTarget(c) \/ ApplyOperation(c)
  \/ UnlinkSource(c) \/ VerifyOperation(c) \/ RollbackOne(c) \/ AllApplied(c) \/ Validate(c)
  \/ Undo(c) \/ RestoreOperation(c) \/ UnlinkDestination(c) \/ MarkRolledBack(c)

EditsNext ==
  \/ \E c \in Sets : \/ \E d \in Definitions : PlanChange(c, d)
                     \/ ApplyBegins(c) \/ ReconcileChange(c) \/ ChangeStep(c) \/ SystemCallFails(c)
  \/ ServiceDies
  \/ \E p \in Paths, t \in Contents \cup {"absent"} : ForeignEdit(p, t)

EditsSpec == EditsInit /\ [][EditsNext]_editVars

-----------------------------------------------------------------------------
(* Properties.                                                                *)

\* What an effect may replace: what the precondition named, no destination; a restore,
\* what the operation left.
Replaced(c, p) ==
  IF at[c].pc \in {"restoring", "relinked"} THEN Entry(c).after[p]
  ELSE IF p = Op(c).path THEN Op(c).want ELSE "absent"

\* The effects that refuse a path which is there already.
Makes(c, p) ==
  \/ at[c].pc = "checked" /\ (Op(c).kind = "mkdir" \/ (Pairing(Op(c)) /\ p = Op(c).dest))
  \/ at[c].pc = "restoring" /\ Op(c).kind = "move" /\ p = Op(c).path

\* An operation and its restore replace only that: what others wrote to the paths since
\* then survives, but in the short windows in which the service does not look again
\* (preconditions to before-token, last comparison to effect), and there too when the
\* path is made by a link or a mkdir, which replaces nothing.
ForeignKept ==
  [][\A c \in Sets : at[c].pc \in {"checked", "linked", "restoring", "relinked"} =>
       \A p \in Footprint(Op(c)) : at'[c].pc # at[c].pc /\ files'[p] # files[p] =>
         \/ files[p] = Replaced(c, p)
         \/ p \in raced[c] /\ ~Makes(c, p)]_editVars

LastOn(c, i, p) == \A j \in DOMAIN Ops(c) : j > i => p \notin Footprint(Ops(c)[j])
\* An operation none of whose paths others changed: what they put at a move's destination
\* is carried to its source by the restore.
Undisturbed(c, i) == Footprint(Ops(c)[i]) \cap others[c] = {}
FirstOn(c, i, p) == \A j \in DOMAIN Ops(c) : j < i => p \notin Footprint(Ops(c)[j])

\* A change set is verified only if every path holds what its last operation was to
\* leave there, whatever crash or failing call interrupted it, unless others changed a
\* path of that operation.  The one exception is the code's: a rollback interrupted between a restore and
\* its journal entry, or inside the undoing of a move, leaves the entry applied, a later
\* apply skips it, and the path then holds what it left or what was there before it.
VerifiedInEffect ==
  [][\A c \in Sets : changeSet'[c].state = "verified" /\ changeSet[c].state # "verified" =>
       \A i \in DOMAIN Ops(c) : Undisturbed(c, i) => \A p \in Footprint(Ops(c)[i]) :
         LastOn(c, i, p) => \/ files[p] = journal[c][i].after[p]
                            \/ i \in torn[c] /\ files[p] = journal[c][i].before[p]]_editVars

\* A change set that failed its validations and was rolled back left every path as
\* its first operation found it, unless others changed a path of that operation.
RollbackRestores ==
  [][\A c \in Sets : at[c].pc = "undo" /\ changeSet'[c].state = "rolled_back" =>
       \A i \in DOMAIN Ops(c) : Undisturbed(c, i) => \A p \in Footprint(Ops(c)[i]) :
         FirstOn(c, i, p) => files[p] = journal[c][i].before[p]]_editVars

\* A change set leaves what it says it left, applied, verified or rolled back, and what
\* others wrote meanwhile.
EditsFaithful ==
  /\ []EditsTypeOK
  /\ ForeignKept
  /\ VerifiedInEffect
  /\ RollbackRestores
=============================================================================
