---------------------------- MODULE CommandPromise ----------------------------
(***************************************************************************)
(* What the application command ledger promises its clients about one      *)
(* command identity: it is admitted at most once, its effect happens at    *)
(* most once and only while it is admitted, an accepted receipt proves the *)
(* effect, and a settled receipt never changes.                            *)
(***************************************************************************)
CONSTANT Commands

VARIABLES
  outcome,    \* outcome[c]: what the ledger knows of command c
  performed   \* performed[c]: how often c's effect happened

promiseVars == <<outcome, performed>>

PromiseInit ==
  /\ outcome = [c \in Commands |-> "none"]
  /\ performed = [c \in Commands |-> 0]

Admit(c) ==
  /\ outcome[c] = "none"
  /\ outcome' = [outcome EXCEPT ![c] = "reserved"]
  /\ UNCHANGED performed

Perform(c) ==
  /\ outcome[c] = "reserved" /\ performed[c] = 0
  /\ performed' = [performed EXCEPT ![c] = 1]
  /\ UNCHANGED outcome

Confirm(c) ==
  /\ outcome[c] = "reserved" /\ performed[c] = 1
  /\ outcome' = [outcome EXCEPT ![c] = "accepted"]
  /\ UNCHANGED performed

Refuse(c) ==
  /\ outcome[c] \in {"none", "reserved"}
  /\ outcome' = [outcome EXCEPT ![c] = "refused"]
  /\ UNCHANGED performed

\* A state mutation commits together with its receipt.
Mutate(c) ==
  /\ outcome[c] = "none" /\ performed[c] = 0
  /\ outcome' = [outcome EXCEPT ![c] = "accepted"]
  /\ performed' = [performed EXCEPT ![c] = 1]

PromiseNext ==
  \E c \in Commands : Admit(c) \/ Perform(c) \/ Confirm(c) \/ Refuse(c) \/ Mutate(c)

PromiseSpec == PromiseInit /\ [][PromiseNext]_promiseVars
=============================================================================
