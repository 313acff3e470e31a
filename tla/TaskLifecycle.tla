---------------------------- MODULE TaskLifecycle ----------------------------
(***************************************************************************)
(* Tasks (backend/task.go) and the stages and machines that list them by  *)
(* name.  A task write runs in one rt.Do under taskLockMap, which holds   *)
(* stages and machines too, and is one atomic step here: store.* runs      *)
(* BeforeSave, whose Validate queues one rt.RunAfter thunk per stage that  *)
(* lists the task, then writes the store and the index; the RequestTracker *)
(* runs the queued thunks when the body ends, before it unlocks.  So the   *)
(* stages are revalidated against the index as the write left it, and are  *)
(* revalidated too when BeforeSave refuses the task.                       *)
(*                                                                         *)
(* A task is abstracted to what Validate and BeforeSave decide and write:  *)
(* whether it is Useable (its fields and its templates merged), and its    *)
(* two exit-code features.                                                 *)
(***************************************************************************)
CONSTANTS
    Names,      \* task names
    Stages,
    Machines,
    Absent      \* no task under that name

\* A task as written: Useable after Validate, and the features
\* sane-exit-codes and original-exit-codes.
Rec == [useable : BOOLEAN, sane : BOOLEAN, orig : BOOLEAN]

ASSUME TaskAssumption == Absent \notin Rec

VARIABLES
    tasks,         \* the tasks index
    stageTasks,    \* Stage.Tasks, as a set of names
    stageSeen,     \* the tasks a stage's last validation found
    machineTasks   \* the tasks a machine lists

vars == <<tasks, stageTasks, stageSeen, machineTasks>>

\* What a stage's validation finds for the tasks it lists.
View(s, tk) == [n \in Names |-> IF n \in stageTasks[s] THEN tk[n] ELSE Absent]

TypeOK ==
    /\ tasks \in [Names -> Rec \cup {Absent}]
    /\ stageTasks \in [Stages -> SUBSET Names]
    /\ stageSeen \in [Stages -> [Names -> Rec \cup {Absent}]]
    /\ machineTasks \in [Machines -> SUBSET Names]

Init ==
    /\ tasks = [n \in Names |-> Absent]
    /\ stageTasks = [s \in Stages |-> {}]
    /\ stageSeen = [s \in Stages |-> [n \in Names |-> Absent]]
    /\ machineTasks = [m \in Machines |-> {}]

-----------------------------------------------------------------------------
(* Writes: RequestTracker.Create / Update / Save of a task.                 *)

\* Variant: the stored copy has its validation cleared, as SaveClean's
\* copy has.
StampedClean(r) == [sane |-> r.sane, orig |-> r.orig \/ ~r.sane]

\* BeforeSave: a task without sane-exit-codes gets original-exit-codes.
Stamped(r) == [r EXCEPT !.orig = @ \/ ~r.sane]

\* The stages Validate queues a revalidation for: those listing the name.
Listing(n) == {s \in Stages : n \in stageTasks[s]}

\* Variant: the stages revalidated against the index before the write,
\* as a hook that does not defer to rt.RunAfter would.
TaskWriteEarly(n, r) ==
    /\ tasks' = IF r.useable THEN [tasks EXCEPT ![n] = Stamped(r)] ELSE tasks
    /\ stageSeen' = [s \in Stages |->
                       IF s \in Listing(n) THEN View(s, tasks) ELSE stageSeen[s]]
    /\ UNCHANGED <<stageTasks, machineTasks>>

\* BeforeSave refuses a task that is not Useable (422) and the write stops
\* there; either way the thunks Validate queued then revalidate the stages
\* listing the task against the index.
TaskWrite(n, r) ==
    /\ tasks' = IF r.useable THEN [tasks EXCEPT ![n] = Stamped(r)] ELSE tasks
    /\ stageSeen' = [s \in Stages |->
                       IF s \in Listing(n) THEN View(s, tasks') ELSE stageSeen[s]]
    /\ UNCHANGED <<stageTasks, machineTasks>>

Create(n, r) ==
    /\ tasks[n] = Absent
    /\ TaskWrite(n, r)

Update(n, r) ==
    /\ tasks[n] # Absent
    /\ TaskWrite(n, r)

Save(n, r) == TaskWrite(n, r)

-----------------------------------------------------------------------------
(* RequestTracker.Remove of a task.                                         *)

\* Variant: BeforeDelete without the stages.
BeforeDeleteNoStages(n) == \E m \in Machines : n \in machineTasks[m]

\* BeforeDelete: StillInUseError when a machine or a stage has the task.
BeforeDelete(n) ==
    \/ \E m \in Machines : n \in machineTasks[m]
    \/ \E s \in Stages : n \in stageTasks[s]

Remove(n) ==
    /\ tasks[n] # Absent
    /\ ~BeforeDelete(n)
    /\ tasks' = [tasks EXCEPT ![n] = Absent]
    /\ UNCHANGED <<stageTasks, stageSeen, machineTasks>>

-----------------------------------------------------------------------------
(* The listing objects, whose code is outside this repository: a stage may *)
(* list any names and validates itself against the index when written.     *)

SetStageTasks(s, T) ==
    /\ stageTasks' = [stageTasks EXCEPT ![s] = T]
    /\ stageSeen' = [stageSeen EXCEPT ![s] =
                       [n \in Names |-> IF n \in T THEN tasks[n] ELSE Absent]]
    /\ UNCHANGED <<tasks, machineTasks>>

SetMachineTasks(m, T) ==
    /\ machineTasks' = [machineTasks EXCEPT ![m] = T]
    /\ UNCHANGED <<tasks, stageTasks, stageSeen>>

Next ==
    \/ \E n \in Names, r \in Rec : Create(n, r) \/ Update(n, r) \/ Save(n, r)
    \/ \E n \in Names : Remove(n)
    \/ \E s \in Stages, T \in SUBSET Names : SetStageTasks(s, T)
    \/ \E m \in Machines, T \in SUBSET Names : SetMachineTasks(m, T)

Spec == Init /\ [][Next]_vars

-----------------------------------------------------------------------------
(* Properties.                                                              *)

(* Spec 4.5 cascade and invariant 5: a stage's last validation saw every  *)
(* task it lists as the index holds it now.  Task writes revalidate the   *)
(* listing stages in RunAfter thunks, after the write, and BeforeDelete   *)
(* refuses to remove a task a stage lists.                                 *)
TaskStageCascade ==
    \A s \in Stages : stageSeen[s] = View(s, tasks)

=============================================================================
