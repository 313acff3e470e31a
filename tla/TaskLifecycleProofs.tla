------------------------- MODULE TaskLifecycleProofs -------------------------
(***************************************************************************)
(* Proofs about TaskLifecycle: type correctness and the stage cascade, for *)
(* every number of tasks, stages and machines.                            *)
(***************************************************************************)
EXTENDS TaskLifecycle, TLAPS

LEMMA StampedType ==
    ASSUME NEW r \in Rec
    PROVE  Stamped(r) \in Rec
BY DEF Stamped, Rec

LEMMA TypeStep == TypeOK /\ [Next]_vars => TypeOK'
<1> SUFFICES ASSUME TypeOK, [Next]_vars PROVE TypeOK'
  OBVIOUS
<1>1. ASSUME NEW n \in Names, NEW r \in Rec, TaskWrite(n, r) PROVE TypeOK'
  <2>1. tasks' \in [Names -> Rec \cup {Absent}]
    BY <1>1, StampedType DEF TaskWrite, TypeOK
  <2>2. \A s \in Stages : View(s, tasks') \in [Names -> Rec \cup {Absent}]
    BY <2>1 DEF View
  <2>3. QED
    BY <1>1, <2>1, <2>2 DEF TaskWrite, TypeOK
<1>2. CASE \E n \in Names, r \in Rec : Create(n, r) \/ Update(n, r) \/ Save(n, r)
  BY <1>1, <1>2 DEF Create, Update, Save
<1>3. CASE \E n \in Names : Remove(n)
  BY <1>3 DEF Remove, TypeOK
<1>4. CASE \E s \in Stages, T \in SUBSET Names : SetStageTasks(s, T)
  BY <1>4 DEF SetStageTasks, TypeOK
<1>5. CASE \E m \in Machines, T \in SUBSET Names : SetMachineTasks(m, T)
  BY <1>5 DEF SetMachineTasks, TypeOK
<1>6. CASE UNCHANGED vars
  BY <1>6 DEF vars, TypeOK
<1>7. QED
  BY <1>2, <1>3, <1>4, <1>5, <1>6 DEF Next

(* Every reachable state is well typed: BeforeSave's stamp keeps a task a *)
(* task, and the stage validations record tasks or Absent.                 *)
THEOREM TypeCorrect == Spec => []TypeOK
<1>1. Init => TypeOK
  BY DEF Init, TypeOK
<1>2. QED
  BY <1>1, TypeStep, PTL DEF Spec

-----------------------------------------------------------------------------
IInv == TypeOK /\ TaskStageCascade

\* A write of one name changes no stage's view of the names it does not
\* list.
LEMMA ViewFrame ==
    ASSUME TypeOK, NEW n \in Names, NEW s \in Stages, n \notin stageTasks[s],
           NEW tk \in [Names -> Rec \cup {Absent}],
           \A x \in Names \ {n} : tk[x] = tasks[x]
    PROVE  View(s, tk) = View(s, tasks)
BY DEF View, TypeOK

LEMMA IInvStep == IInv /\ [Next]_vars => IInv'
<1> SUFFICES ASSUME IInv, [Next]_vars PROVE IInv'
  OBVIOUS
<1>0. TypeOK'
  BY TypeStep DEF IInv
<1>1. ASSUME NEW n \in Names, NEW r \in Rec, TaskWrite(n, r)
      PROVE  TaskStageCascade'
  <2> SUFFICES ASSUME NEW s \in Stages PROVE stageSeen'[s] = View(s, tasks')
    BY <1>1 DEF TaskStageCascade, TaskWrite, View
  <2>1. \A x \in Names \ {n} : tasks'[x] = tasks[x]
    BY <1>1 DEF TaskWrite, IInv, TypeOK
  <2>3. CASE s \in Listing(n)
    BY <1>1, <2>3 DEF TaskWrite
  <2>4. CASE s \notin Listing(n)
    <3>1. n \notin stageTasks[s]
      BY <2>4 DEF Listing
    <3>2. tasks' \in [Names -> Rec \cup {Absent}]
      BY <1>0 DEF TypeOK
    <3>3. View(s, tasks') = View(s, tasks)
      BY <2>1, <3>1, <3>2, ViewFrame DEF IInv
    <3>4. QED
      BY <1>1, <2>4, <3>3 DEF TaskWrite, IInv, TaskStageCascade
  <2>5. QED
    BY <2>3, <2>4
<1>2. CASE \E n \in Names, r \in Rec : Create(n, r) \/ Update(n, r) \/ Save(n, r)
  BY <1>0, <1>1, <1>2 DEF Create, Update, Save, IInv
<1>3. CASE \E n \in Names : Remove(n)
  <2> PICK n \in Names : Remove(n)
    BY <1>3
  <2> SUFFICES ASSUME NEW s \in Stages PROVE stageSeen'[s] = View(s, tasks')
    BY <1>0 DEF Remove, IInv, TaskStageCascade, View
  <2>1. n \notin stageTasks[s]
    BY DEF Remove, BeforeDelete
  <2>2. tasks' \in [Names -> Rec \cup {Absent}]
    BY <1>0 DEF TypeOK
  <2>3. View(s, tasks') = View(s, tasks)
    BY <2>1, <2>2, ViewFrame DEF Remove, IInv, TypeOK
  <2>4. QED
    BY <2>3 DEF Remove, View, IInv, TaskStageCascade
<1>4. CASE \E s \in Stages, T \in SUBSET Names : SetStageTasks(s, T)
  BY <1>0, <1>4 DEF SetStageTasks, IInv, TaskStageCascade, View, TypeOK
<1>5. CASE \E m \in Machines, T \in SUBSET Names : SetMachineTasks(m, T)
  BY <1>0, <1>5 DEF SetMachineTasks, IInv, TaskStageCascade, View
<1>6. CASE UNCHANGED vars
  BY <1>6 DEF vars, IInv, TaskStageCascade, View, TypeOK
<1>7. QED
  BY <1>2, <1>3, <1>4, <1>5, <1>6 DEF Next

(* Spec 4.5 and invariant 5, for every number of tasks, stages and        *)
(* machines: every stage's last validation saw the tasks it lists as the  *)
(* index holds them, because task writes revalidate the listing stages    *)
(* after the write and BeforeDelete keeps listed tasks.                    *)
THEOREM CascadeHolds == Spec => []TaskStageCascade
<1>1. Init => IInv
  BY DEF Init, IInv, TypeOK, TaskStageCascade, View
<1>2. IInv => TaskStageCascade
  BY DEF IInv
<1>3. IInv /\ [Next]_vars => IInv'
  BY IInvStep
<1>4. QED
  BY <1>1, <1>2, <1>3, PTL DEF Spec
=============================================================================
