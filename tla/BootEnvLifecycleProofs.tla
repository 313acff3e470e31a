----------------------- MODULE BootEnvLifecycleProofs -----------------------
(***************************************************************************)
(* Proofs about BootEnvLifecycle: type correctness for every instance.    *)
(* The delete guard holds only while no bootenv is OnlyUnknown, a case the *)
(* code does not exclude, so it stays a property TLC checks.               *)
(***************************************************************************)
EXTENDS BootEnvLifecycle, TLAPS

LEMMA PathType ==
    ASSUME NEW n \in Names, NEW os \in OSes
    PROVE  PathFor(n, os) \in Paths
BY BELAssumption DEF PathFor, Paths

LEMMA TypeStep == TypeOK /\ [Next]_vars => TypeOK'
<1> SUFFICES ASSUME TypeOK, [Next]_vars PROVE TypeOK'
  OBVIOUS
<1>1. ASSUME NEW n \in Names, NEW r \in Rec, Write(n, r) PROVE TypeOK'
  <2>1. Lookasides(n, r) \subseteq Paths
    BY PathType DEF Lookasides, Rec
  <2>2. stageSeen' \in [Stages -> Rec \cup {Absent}]
    BY <1>1 DEF Write, AfterSave, TypeOK
  <2>3. QED
    BY <1>1, <2>1, <2>2 DEF Write, AfterSave, TypeOK
<1>2. CASE \E n \in Names, r \in Rec : Create(n, r) \/ Update(n, r) \/ Save(n, r)
  BY <1>1, <1>2 DEF Create, Update, Save
<1>3. CASE \E n \in Names : Remove(n)
  BY <1>3 DEF Remove, AfterDelete, TypeOK
<1>4. CASE \E m \in Machines, n \in Names \cup {None} : SetMachineBootEnv(m, n)
  BY <1>4 DEF SetMachineBootEnv, TypeOK
<1>5. CASE \E s \in Stages, n \in Names \cup {None} : SetStageBootEnv(s, n)
  BY <1>5 DEF SetStageBootEnv, Lookup, TypeOK
<1>6. CASE \E k \in PrefKeys, n \in Names \cup {None} : SetPref(k, n)
  BY <1>6 DEF SetPref, TypeOK
<1>7. CASE UNCHANGED vars
  BY <1>7 DEF vars, TypeOK
<1>8. QED
  BY <1>2, <1>3, <1>4, <1>5, <1>6, <1>7 DEF Next

(* Every reachable state is well typed, for every instance of the         *)
(* constants: the hooks and the referring writes stay within their types.  *)
THEOREM TypeCorrect == Spec => []TypeOK
<1>1. Init => TypeOK
  BY DEF Init, TypeOK
<1>2. QED
  BY <1>1, TypeStep, PTL DEF Spec

=============================================================================
