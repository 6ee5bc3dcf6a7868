------------------------------- MODULE MCRuns -------------------------------
(* The durable rows of a run under their two writers.  A behaviour follows     *)
(* (`focus`) the daemon's flow over a chain of two tasks with planned calls,   *)
(* or two workers that lease its first task while nothing else executes.       *)
EXTENDS WorkerCoordination, TLC

CONSTANTS r1, t1, t2, c1, c2, w1, w2

MCRunOf == [t \in Tasks |-> r1]
MCChain == [t \in Tasks |-> IF t = t2 THEN {t1} ELSE {}]
MCCapacity == [w \in Workers |-> 1]
MCCompatible == [t \in Tasks |-> Workers]
MCPreferred == [t \in Tasks |-> None]
MCRank == [t \in Tasks |-> IF t = t2 THEN 1 ELSE 0]

\* Nothing tells the workers apart: no task prefers one.
WorkerSymmetry == Permutations(Workers)

\* The first task of the chain has a stateful planned call, the second a read-only one.
OwnCall == [c \in Calls |-> IF c = c2 THEN t2 ELSE t1]

VARIABLE focus
runsVars == <<focus, vars>>

RunsInit ==
  \/ focus = "flow" /\ Init /\ NothingPlaced
  \/ focus = "leases" /\ CoordinationInit

RunsNext ==
  /\ UNCHANGED focus
  /\ \/ focus = "flow" /\ UNCHANGED coordinationVars /\ LifecycleNext
     \/ focus = "leases" /\ Next /\ placement'[t2] = "none" /\ attempts'[t2] = 0

RunsSpec == RunsInit /\ [][RunsNext]_runsVars
=============================================================================
