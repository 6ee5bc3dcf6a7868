---------------------------- MODULE MCScheduling ----------------------------
(* Instances of Scheduling for TLC. *)
EXTENDS Scheduling

CONSTANTS s1, s2, m1

\* Every schedule has the same mission target, hence the same overlap key.
OneTarget == [s \in Schedules |-> "project"]
=============================================================================
