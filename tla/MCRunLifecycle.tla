---- MODULE MCRunLifecycle ----
(* Small instances of RunLifecycle: one run of two tasks in a chain, the first *)
(* with a stateful planned call and the second with a read-only one.           *)
EXTENDS RunLifecycle

CONSTANTS r1, t1, t2, c1, c2

MCRunOf == [t \in Tasks |-> r1]
MCDependsOn == [t \in Tasks |-> IF t = t2 THEN {t1} ELSE {}]
MCTaskOf == [c \in Calls |-> IF c = c2 THEN t2 ELSE t1]
====
