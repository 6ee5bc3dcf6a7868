----------------------------- MODULE MCRecovery -----------------------------
(* What a run that is cancelled and a lease that is lost leave behind.  They   *)
(* are followed in behaviours of their own (`focus`): the daemon's flow on     *)
(* planned calls, or the worker's leases on tasks the flow does not execute.   *)
EXTENDS MCRuns

RecoveryInit ==
  \/ focus = "flow" /\ Init /\ NothingPlaced
  \/ focus = "leases" /\ CoordinationInit

RecoveryNext ==
  /\ UNCHANGED focus
  /\ \/ focus = "flow" /\ UNCHANGED coordinationVars /\ LifecycleNext
     \/ focus = "leases" /\ Next

\* The fairness of LifecycleFairSpec and of FairSpec, of the part that moves.
RecoverySpec ==
  /\ RecoveryInit /\ [][RecoveryNext]_runsVars
  /\ WF_lifecycleVars(focus = "flow" /\ FlowStep)
  /\ WF_lifecycleVars(focus = "flow" /\ \E r \in Runs : RecoverEnd(r))
  /\ WF_vars(focus = "leases" /\ Tick) /\ WF_vars(focus = "leases" /\ ExpireLeases)
=============================================================================
