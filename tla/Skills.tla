-------------------------------- MODULE Skills --------------------------------
(* The versions of skills, the pointer to the active one, invocations and      *)
(* learning: skills/repository.py, service.py, learning.py, catalog.py and     *)
(* inspection.py, with the skill commands of the daemon.                       *)
(*                                                                             *)
(* A command locks its target, one version; the pointer and the version it     *)
(* pointed at belong to no lock.  A repository method reads its rows before    *)
(* its transaction writes any, so a command is read in one step and written in *)
(* a later one.                                                                *)
EXTENDS Naturals, FiniteSets

CONSTANTS
  Versions,    \* version records that may be registered
  NameOf,      \* the skill of a version
  NumberOf,    \* its semantic version
  Harmful,     \* packages the inspection profile quarantines
  ToolsOf,     \* the tools a version requires
  Fallback,    \* the fallback tools of a tool
  Learned,     \* the version a learning request would register
  SkillHands,  \* threads that serve skill commands
  NoVersion,
  MaxSkillRevision \* bound: revision of a version

ASSUME SkillsAssumption ==
  /\ Learned \in Versions /\ NoVersion \notin Versions
  /\ MaxSkillRevision \in Nat /\ MaxSkillRevision >= 2

VARIABLES
  version,    \* SkillVersionRow
  pointer,    \* SkillActiveVersionRow of each skill
  order,      \* the command each thread carries out
  overridden, \* versions whose quarantine a decision overrode
  wasActive,  \* versions the pointer has named
  invoked,    \* the invocation under way
  used,       \* versions with a recorded hit or partial use
  learning    \* state of the learning request

skillVars == <<version, pointer, order, overridden, wasActive, invoked, used, learning>>

Names == {NameOf[v] : v \in Versions}
Tools == UNION {ToolsOf[v] \cup UNION {Fallback[t] : t \in ToolsOf[v]} : v \in Versions}
VersionStates == {"absent", "candidate", "eligible", "quarantined", "staged", "rejected", "active",
                  "superseded", "archived"}
Dispositions == {"allow", "deny", "require_review"}
LearningStates == {"none", "requested", "researching", "reviewing", "registered", "inspected",
                   "proposed", "refused", "failed"}
Ops == {"decide", "archive", "reactivate", "pin", "unpin"}
NoOrder == [phase |-> "none"]
NoUse == [name |-> "none"]
Absent == [state |-> "absent", inspection |-> "none", revision |-> 0, pinned |-> FALSE]
Present == {v \in Versions : version[v].state # "absent"}

\* Beside the types: a semantic version names one record.
SkillsTypeOK ==
  /\ version \in [Versions -> [state : VersionStates, inspection : {"none", "clean", "quarantined"},
                               revision : 0..MaxSkillRevision, pinned : BOOLEAN]]
  /\ pointer \in [Names -> Versions \cup {NoVersion}]
  /\ \A h \in SkillHands : order[h].phase \in {"none", "read"}
  /\ overridden \subseteq Versions /\ used \subseteq Versions /\ learning \in LearningStates
  /\ \A v, w \in Present : v # w => <<NameOf[v], NumberOf[v]>> # <<NameOf[w], NumberOf[w]>>

SkillsInit ==
  /\ version = [v \in Versions |-> Absent] /\ pointer = [n \in Names |-> NoVersion]
  /\ order = [h \in SkillHands |-> NoOrder] /\ overridden = {} /\ wasActive = {}
  /\ invoked = NoUse /\ used = {} /\ learning = "none"

\* The target's lock.
Locked(v) == \E h \in SkillHands : order[h].phase = "read" /\ order[h].version = v
Bump(row) == [row EXCEPT !.revision = @ + 1]
Verdict(v) == IF v \in Harmful THEN "quarantined" ELSE "clean"

-----------------------------------------------------------------------------
(* skill.version.register.                                                    *)

\* register_candidate, by a command or by learning.
Enter(v) ==
  /\ version[v].state = "absent"
  /\ \A w \in Present : NameOf[w] = NameOf[v] => NumberOf[w] # NumberOf[v]
  /\ version' = [version EXCEPT ![v].state = "candidate", ![v].revision = 1]

\* inspect_entries and record_inspection.
Seal(v) ==
  /\ version[v].state = "candidate" /\ version[v].inspection = "none" /\ version[v].revision = 1
  /\ version' = [version EXCEPT ![v] =
       [Bump(version[v]) EXCEPT !.inspection = Verdict(v),
                                !.state = IF v \in Harmful THEN "quarantined" ELSE "eligible"]]

RegisterCandidate(v) ==
  /\ v # Learned /\ Enter(v)
  /\ UNCHANGED <<pointer, order, overridden, wasActive, invoked, used, learning>>

\* The registering command's second transaction.  Its lock is lost when the daemon dies in
\* between; the same command then finds the candidate again.
Inspect(v) ==
  /\ v # Learned /\ ~Locked(v) /\ Seal(v)
  /\ UNCHANGED <<pointer, order, overridden, wasActive, invoked, used, learning>>

-----------------------------------------------------------------------------
(* skill.version.decide, archive, restore, reset, pin and unpin.              *)

\* Where a decision takes a version it finds.
Target(o, row) ==
  IF o.op # "decide"
  THEN CASE o.op = "archive" -> "archived"
         [] o.op \in {"pin", "unpin"} -> row.state
         [] o.op = "reactivate" -> "active"
  ELSE LET held == row.inspection = "quarantined" /\ ~o.override
       IN  CASE o.disposition = "deny" -> "rejected"
             [] o.disposition # "deny" /\ held -> "quarantined"
             [] o.disposition = "require_review" /\ ~held -> "staged"
             [] OTHER -> "active"

\* Mutant: a version is decided before its inspection.
PermittedUninspected(o, row) ==
  /\ o.op = "archive" => ~row.pinned
  /\ o.op = "reactivate" => row.inspection # "none" /\ (row.inspection = "quarantined" => o.override)

\* What each method requires of the row it reads.  decide takes a version in any state.
Permitted(o, row) ==
  /\ o.op = "decide" => row.inspection # "none"
  /\ o.op = "archive" => ~row.pinned
  /\ o.op = "reactivate" => row.inspection # "none" /\ (row.inspection = "quarantined" => o.override)

Commands ==
  {c \in [op : Ops, disposition : Dispositions, override : BOOLEAN] :
     /\ c.op # "decide" => c.disposition = "allow"
     /\ c.override => c.op \in {"decide", "reactivate"}}

\* The reads of a method.  A command whose author saw another revision or another active
\* version than it reads here is refused and changes nothing.
ReadRows(h, v, command) ==
  LET row == version[v]
      at == pointer[NameOf[v]]
      image == [Bump(row) EXCEPT !.state = Target(command, row),
                                 !.pinned = CASE command.op = "pin" -> TRUE
                                              [] command.op = "unpin" -> FALSE
                                              [] OTHER -> row.pinned]
  IN /\ order[h] = NoOrder /\ v \in Present /\ ~Locked(v)
     /\ \A w \in {v, at} \ {NoVersion} : version[w].revision < MaxSkillRevision
     /\ Permitted(command, row)
     /\ order' = [order EXCEPT ![h] =
          [phase |-> "read", version |-> v, op |-> command.op, override |-> command.override,
           row |-> image, at |-> at,
           prior |-> IF at = NoVersion THEN Absent
                     ELSE [Bump(version[at]) EXCEPT !.state = "superseded"]]]
     /\ UNCHANGED <<version, pointer, overridden, wasActive, invoked, used, learning>>

Activates(o) == o.op \in {"decide", "reactivate"} /\ o.row.state = "active"

\* _activate_pointer: an insert when no pointer was read, an update of the row otherwise;
\* either fails, and the whole transaction with it, when the row is there or is gone.
\* The rows written are the images of what was read.
WriteRows(h) ==
  /\ order[h].phase = "read"
  /\ LET o == order[h]
         v == o.version
         n == NameOf[v]
         fails == Activates(o) /\ ((o.at = NoVersion) # (pointer[n] = NoVersion))
         rows == IF Activates(o) /\ o.at \notin {NoVersion, v}
                 THEN [version EXCEPT ![v] = o.row, ![o.at] = o.prior]
                 ELSE [version EXCEPT ![v] = o.row]
         moved == CASE Activates(o) -> [pointer EXCEPT ![n] = v]
                    [] o.op = "archive" /\ o.at = v -> [pointer EXCEPT ![n] = NoVersion]
                    [] OTHER -> pointer
     IN IF fails THEN UNCHANGED <<version, pointer, overridden, wasActive>>
        ELSE /\ version' = rows /\ pointer' = moved
             /\ overridden' = IF o.override THEN overridden \cup {v} ELSE overridden
             /\ wasActive' = IF Activates(o) THEN wasActive \cup {v} ELSE wasActive
  /\ order' = [order EXCEPT ![h] = NoOrder]
  /\ UNCHANGED <<invoked, used, learning>>

-----------------------------------------------------------------------------
(* skill.invoke.                                                              *)

\* select_skill_metadata: every required tool is there, or one of its fallbacks.
Outcome(v, available) ==
  IF ToolsOf[v] \subseteq available THEN "hit"
  ELSE IF \A t \in ToolsOf[v] \ available : Fallback[t] \cap available # {} THEN "partial"
  ELSE "miss"

\* A named skill is resolved through its pointer, automatic selection through the states.
Candidates(n) ==
  ({pointer[n]} \ {NoVersion}) \cup {v \in Versions : NameOf[v] = n /\ version[v].state = "active"}

\* _resolve reads the version once; its immutable package is loaded later.
ResolveUse(n, available) ==
  /\ invoked = NoUse
  /\ \E v \in Candidates(n) : /\ Outcome(v, available) # "miss"
                              /\ invoked' = [name |-> n, version |-> v]
  /\ UNCHANGED <<version, pointer, order, overridden, wasActive, used, learning>>

RecordUse ==
  /\ invoked # NoUse
  /\ used' = used \cup {invoked.version} /\ invoked' = NoUse
  /\ UNCHANGED <<version, pointer, order, overridden, wasActive, learning>>

-----------------------------------------------------------------------------
(* skill.learn.                                                               *)

\* Every stage is a transaction; registered and inspected are the two between reviewing
\* and proposed, in which the request's record does not change.
Learn ==
  /\ CASE learning = "none" -> learning' = "requested" /\ UNCHANGED version
       [] learning = "requested" -> learning' = "researching" /\ UNCHANGED version
       [] learning = "researching" -> learning' = "reviewing" /\ UNCHANGED version
       [] learning = "reviewing" -> \/ learning' = "refused" /\ UNCHANGED version
                                    \/ learning' = "registered" /\ Enter(Learned)
       [] learning = "registered" -> learning' = "inspected" /\ Seal(Learned)
       [] learning = "inspected" -> learning' = "proposed" /\ UNCHANGED version
       [] OTHER -> FALSE
  /\ UNCHANGED <<pointer, order, overridden, wasActive, invoked, used>>

\* _mark_failed: a stage raised; what was registered stays.
LearnFails ==
  /\ learning \in {"requested", "researching", "reviewing", "registered", "inspected"}
  /\ learning' = "failed"
  /\ UNCHANGED <<version, pointer, order, overridden, wasActive, invoked, used>>

SkillsNext ==
  \/ Learn \/ LearnFails \/ RecordUse
  \/ \E v \in Versions : RegisterCandidate(v) \/ Inspect(v)
  \/ \E n \in Names, available \in SUBSET Tools : ResolveUse(n, available)
  \/ \E h \in SkillHands : \/ WriteRows(h)
                           \/ \E v \in Versions, c \in Commands : ReadRows(h, v, c)

-----------------------------------------------------------------------------
(* Properties.                                                                *)

\* No version becomes active, by decision, restore or reset, and none is pointed at
\* without its inspection and, if that quarantined it, an explicit override; neither do
\* the stale images other commands write take the inspection away (decide, reactivate).
ActiveInspected ==
  \A v \in Versions :
    version[v].state = "active" \/ pointer[NameOf[v]] = v =>
      /\ version[v].inspection # "none"
      /\ version[v].inspection = "quarantined" => v \in overridden

\* A use that is recorded is of a version that was activated, whatever decisions came
\* between resolving and loading it (_resolve, invoke).
UsedWereActivated == used \subseteq wasActive

\* A settled learning request stays as it was settled (_mark_failed).
SettledLearningStays ==
  [][(learning \in {"proposed", "refused", "failed"}) => learning' = learning]_skillVars

\* What is active or used went through inspection and activation, and settled learning
\* stays settled.
SkillsGoverned ==
  /\ [](SkillsTypeOK /\ ActiveInspected /\ UsedWereActivated)
  /\ SettledLearningStays
=============================================================================
