------------------------- MODULE MCRequestTracker -------------------------
(* Three RequestTrackers with the lock lists the code declares, restricted *)
(* to the four prefixes below:                                             *)
(*   pref  - prefLockMap["create"]    (preference.go 230)                  *)
(*   benv  - bootEnvLockMap["create"] (bootenv.go 657)                     *)
(*   task  - taskLockMap["actions"]   (task.go 194)                        *)
EXTENDS RequestTracker, TLC

CONSTANTS pref, benv, task, k1, v1, v2

MCPrefixes == {"bootenvs", "preferences", "stages", "tasks"}
\* sort.Strings order
MCRank == [p \in MCPrefixes |->
             CASE p = "bootenvs" -> 1 [] p = "preferences" -> 2
               [] p = "stages" -> 3   [] p = "tasks" -> 4]
MCDeclared == [t \in {pref, benv, task} |->
                 CASE t = pref -> <<"preferences", "bootenvs", "stages">>
                   [] t = benv -> <<"stages", "bootenvs", "tasks">>
                   [] t = task -> <<"tasks">>]
MCKeys == {"", k1}
\* a patch leaves the key alone
MCPatchKeysSame == [k \in MCKeys |-> {k}]
\* a patch may rewrite the key field (e.g. replace /Name)
MCPatchKeysAny == [k \in MCKeys |-> MCKeys]
MCSymmetry == Permutations({v1, v2})
=============================================================================
