--------------------------- MODULE MCTaskLifecycle ---------------------------
(* Two tasks, one stage and one machine: a stage listing one or both       *)
(* tasks, a machine holding one back from removal, and refused writes.     *)
EXTENDS TaskLifecycle, TLC

CONSTANTS t1, t2, s1, m1

====
