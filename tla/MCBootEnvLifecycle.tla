------------------------- MODULE MCBootEnvLifecycle -------------------------
(* Two bootenvs, one an "-install" bootenv, two OSes of which one has an   *)
(* install repo, one machine and one stage: enough for two bootenvs of the *)
(* same OS, a reference of each kind, and a tree shared or not.            *)
EXTENDS BootEnvLifecycle, TLC

CONSTANTS b1, b2, o1, o2, m1, s1

MCInstall == [n \in {b1, b2} |-> n = b2]

====
