-------------------------- MODULE BootEnvLifecycle --------------------------
(***************************************************************************)
(* The life of BootEnv objects in backend/bootenv.go as seen by the       *)
(* objects that refer to them by name: Machines and Stages (their BootEnv *)
(* field), the defaultBootEnv and unknownBootEnv preferences, and the      *)
(* per-OS dynamic trees a bootenv installs in the virtual filesystem.      *)
(*                                                                         *)
(* Every write of a bootenv runs inside RequestTracker.Do under            *)
(* bootEnvLockMap, which holds stages, bootenvs and machines; a preference *)
(* write holds bootenvs and stages (prefLockMap).  The writes of this      *)
(* module are therefore serialised and each is one atomic step: the        *)
(* RequestTracker module shows the lock exclusion that justifies it.       *)
(*                                                                         *)
(* A bootenv is abstracted to the two fields the hooks branch on,          *)
(* OnlyUnknown and OS.Name.  It has one architecture (amd64), so          *)
(* PathFor("", arch) is "/" + OS.Name, plus "/install" for a name ending   *)
(* in "-install".  A write refused by the RequestTracker's early returns,  *)
(* by BeforeSave's validation or by the backing store changes nothing and  *)
(* is a stuttering step.                                                   *)
(***************************************************************************)
EXTENDS FiniteSets

CONSTANTS
    Names,      \* bootenv names (keys of the bootenvs prefix)
    OSes,       \* values of OS.Name
    RepoOSes,   \* OSes served by an InstallSource repo of the global profile
    Install,    \* Install[n]: the name n ends in "-install"
    OUValues,   \* the values of OnlyUnknown a write may carry
    Machines,
    Stages,
    None,       \* an empty BootEnv field or an unset preference
    Absent      \* no bootenv under that key

PrefKeys == {"defaultBootEnv", "unknownBootEnv"}

\* A stored bootenv as the hooks see it.
Rec == [ou : OUValues, os : OSes]

ASSUME BELAssumption ==
    /\ IsFiniteSet(Names)
    /\ RepoOSes \subseteq OSes
    /\ Install \in [Names -> BOOLEAN]
    /\ OUValues \subseteq BOOLEAN
    /\ None \notin Names
    /\ Absent \notin Rec

VARIABLES
    benv,        \* the bootenvs index: name -> stored bootenv
    machineRef,  \* Machine.BootEnv
    stageRef,    \* Stage.BootEnv
    stageSeen,   \* what the stage's last validation found under its BootEnv
    pref,        \* the two bootenv preferences
    trees        \* dynamic trees registered in the virtual filesystem

vars == <<benv, machineRef, stageRef, stageSeen, pref, trees>>

Paths == OSes \X BOOLEAN

TypeOK ==
    /\ benv \in [Names -> Rec \cup {Absent}]
    /\ machineRef \in [Machines -> Names \cup {None}]
    /\ stageRef \in [Stages -> Names \cup {None}]
    /\ stageSeen \in [Stages -> Rec \cup {Absent}]
    /\ pref \in [PrefKeys -> Names \cup {None}]
    /\ trees \subseteq Paths

Init ==
    /\ benv = [n \in Names |-> Absent]
    /\ machineRef = [m \in Machines |-> None]
    /\ stageRef = [s \in Stages |-> None]
    /\ stageSeen = [s \in Stages |-> Absent]
    /\ pref = [k \in PrefKeys |-> None]
    /\ trees = {}

-----------------------------------------------------------------------------
(* Helpers of bootenv.go.                                                  *)

\* Variant: the path segments joined in the wrong order.
PathForSwapped(n, os) == <<Install[n], os>>

\* PathFor("", "amd64"): the OS directory, with "/install" for an install
\* bootenv.
PathFor(n, os) == <<os, Install[n]>>

\* fillInstallRepos: an InstallSource repo whose only OS is the bootenv's
\* binds the architecture and adds a lookaside for the bootenv's tree.
Lookasides(n, r) == IF r.os \in RepoOSes THEN {PathFor(n, r.os)} ELSE {}

\* The names the index holds.
Stored == {n \in Names : benv[n] # Absent}

\* A stage resolves its BootEnv by name in the bootenvs index.
Lookup(n) == IF n \in Names THEN benv[n] ELSE Absent

-----------------------------------------------------------------------------
(* Writes: RequestTracker.Create / Update / Save of a bootenv.  store.*     *)
(* runs BeforeSave (Validate), writes the backing store and runs AfterSave *)
(* before the RequestTracker's idx.Add: during AfterSave the index still   *)
(* holds the previous object.                                              *)

\* AfterSave: revalidate every stage whose BootEnv is the name (it looks
\* the name up in the index as it still is), then AddDynamicTree.
AfterSave(n, r) ==
    /\ stageSeen' = [s \in Stages |-> IF stageRef[s] = n THEN benv[n] ELSE stageSeen[s]]
    /\ trees' = trees \cup Lookasides(n, r)

Write(n, r) ==
    /\ AfterSave(n, r)
    /\ benv' = [benv EXCEPT ![n] = r]
    /\ UNCHANGED <<machineRef, stageRef, pref>>

Create(n, r) ==
    /\ benv[n] = Absent
    /\ Write(n, r)

\* Update and Patch (a patch that keeps the name).
Update(n, r) ==
    /\ benv[n] # Absent
    /\ Write(n, r)

\* Save checks neither existence nor absence.
Save(n, r) == Write(n, r)

-----------------------------------------------------------------------------
(* RequestTracker.Remove: store.Remove runs BeforeDelete, deletes from the *)
(* backing store and runs AfterDelete, all before idx.Remove.              *)

\* Variant: BeforeDelete without the stages loop.
BeforeDeleteNoStages(n) ==
    LET b          == benv[n]
        prefToFind == IF b.ou THEN "unknownBootEnv" ELSE "defaultBootEnv"
    IN  \/ pref[prefToFind] = n
        \/ ~b.ou /\ \E m \in Machines : machineRef[m] = n

\* BeforeDelete returns StillInUseError: the one preference it looks at
\* names the bootenv, or (only when OnlyUnknown is false) a machine or a
\* stage refers to it.
BeforeDelete(n) ==
    LET b          == benv[n]
        prefToFind == IF b.ou THEN "unknownBootEnv" ELSE "defaultBootEnv"
    IN  \/ pref[prefToFind] = n
        \/ ~b.ou /\ \E m \in Machines : machineRef[m] = n
        \/ ~b.ou /\ \E s \in Stages : stageRef[s] = n

\* AfterDelete: for an OnlyUnknown bootenv, count the bootenvs of the same
\* OS in the index (which still holds this one) and drop the tree when the
\* count is zero.
AfterDelete(n) ==
    LET b      == benv[n]
        sameOS == {m \in Names : benv[m] # Absent /\ benv[m].os = b.os}
    IN  trees' = IF b.ou /\ Cardinality(sameOS) = 0
                    THEN trees \ {PathFor(n, b.os)}
                    ELSE trees

Remove(n) ==
    /\ benv[n] # Absent
    /\ ~BeforeDelete(n)
    /\ AfterDelete(n)
    /\ benv' = [benv EXCEPT ![n] = Absent]
    /\ UNCHANGED <<machineRef, stageRef, stageSeen, pref>>

-----------------------------------------------------------------------------
(* The referring objects.  Their code (Machine, Stage, DataTracker.SetPrefs)*)
(* is outside this repository; each write validates the reference.         *)

\* A machine's BootEnv must name an existing bootenv.
SetMachineBootEnv(m, n) ==
    /\ n \in {None} \cup Stored
    /\ machineRef' = [machineRef EXCEPT ![m] = n]
    /\ UNCHANGED <<benv, stageRef, stageSeen, pref, trees>>

\* A stage may name any bootenv; its validation records what it found.
SetStageBootEnv(s, n) ==
    /\ stageRef' = [stageRef EXCEPT ![s] = n]
    /\ stageSeen' = [stageSeen EXCEPT ![s] = Lookup(n)]
    /\ UNCHANGED <<benv, machineRef, pref, trees>>

\* unknownBootEnv must name an OnlyUnknown bootenv, defaultBootEnv one
\* that is not.
SetPref(k, n) ==
    /\ n \in {None} \cup {x \in Stored : benv[x].ou = (k = "unknownBootEnv")}
    /\ pref' = [pref EXCEPT ![k] = n]
    /\ UNCHANGED <<benv, machineRef, stageRef, stageSeen, trees>>

Next ==
    \/ \E n \in Names, r \in Rec : Create(n, r) \/ Update(n, r) \/ Save(n, r)
    \/ \E n \in Names : Remove(n)
    \/ \E m \in Machines, n \in Names \cup {None} : SetMachineBootEnv(m, n)
    \/ \E s \in Stages, n \in Names \cup {None} : SetStageBootEnv(s, n)
    \/ \E k \in PrefKeys, n \in Names \cup {None} : SetPref(k, n)

Spec == Init /\ [][Next]_vars

-----------------------------------------------------------------------------
(* Properties.                                                              *)

(* Spec invariant 4 and testable property 9: Remove of a bootenv succeeds *)
(* only when no preference, machine or stage names it.  BeforeDelete      *)
(* checks one preference, and machines and stages only when OnlyUnknown   *)
(* is false, so an update that sets OnlyUnknown opens the guard.           *)
DeleteGuard ==
    [][\A n \in Names :
         benv[n] # Absent /\ benv'[n] = Absent =>
            /\ \A k \in PrefKeys : pref[k] # n
            /\ \A m \in Machines : machineRef[m] # n
            /\ \A s \in Stages : stageRef[s] # n]_vars

(* Spec 4.5 and property 8: saving a bootenv revalidates the stages that  *)
(* name it, so a stage's last validation saw the bootenv as it is stored. *)
(* AfterSave runs before idx.Add and so shows the stages the old object.  *)
StageCascade ==
    \A s \in Stages : stageRef[s] \in Names => stageSeen[s] = benv[stageRef[s]]

(* Spec Lifecycle: deleting the last bootenv of an OS prunes that OS's    *)
(* dynamic tree.  AfterDelete counts the OS's bootenvs while the index    *)
(* still holds the one being deleted.                                      *)
TreePruned ==
    [][\A n \in Names :
         /\ benv[n] # Absent /\ benv'[n] = Absent
         /\ ~\E m \in Names : benv'[m] # Absent /\ benv'[m].os = benv[n].os
         => PathFor(n, benv[n].os) \notin trees']_vars

=============================================================================
