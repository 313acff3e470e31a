-------------------------- MODULE BootEnvArchProofs --------------------------
(***************************************************************************)
(* Proofs about BootEnvArch for every bootenv, environment and set of     *)
(* supported arches.  Validate is a function of the bootenv and the        *)
(* environment, which no step changes, so the outcome recorded is always  *)
(* Validate's of the current state; the theorem rests on that.             *)
(***************************************************************************)
EXTENDS BootEnvArch, WellFoundedInduction, TLAPS

\* The outcome is none yet, or Validate's.
Recorded == out = NotYet \/ out = Validate(be, env)

\* Recorded is inductive on its own: no step changes the bootenv or the
\* environment, and BeforeSave records Validate's outcome for them.
LEMMA RecordedInit == Init => Recorded
BY DEF Init, Recorded

LEMMA RecordedStep == Recorded /\ [Next]_vars => Recorded'
<1> SUFFICES ASSUME Recorded, [Next]_vars PROVE Recorded'
  OBVIOUS
<1>1. CASE BeforeSave
  BY <1>1 DEF Recorded, BeforeSave
<1>2. CASE UNCHANGED vars
  BY <1>2 DEF Recorded, vars
<1>. QED
  BY <1>1, <1>2 DEF Next

\* Spec invariant 2 and regenArches: a bootenv Validate made Available
\* has an OS.Name when it netboots and a kernel for each of its arches.
THEOREM AvailableSaneHolds == Spec => []AvailableSane
<1>1. Recorded => AvailableSane
  BY DEF Recorded, AvailableSane, Validate, KernelError
<1>. QED
  BY <1>1, RecordedInit, RecordedStep, PTL DEF Spec

-----------------------------------------------------------------------------
(* Type correctness.  fillInstallRepos binds the repo of least index among *)
(* the usable ones; that one exists because < is well founded on Nat.     *)

\* A nonempty set of repo indices has a least element.
LEMMA LeastIndex ==
    ASSUME NEW U \in SUBSET Nat, U # {}
    PROVE  \E i \in U : \A j \in U : i <= j
<1>1. \E x \in U : \A y \in U : ~(<<y, x>> \in OpToRel(<, Nat))
  BY NatLessThanWellFounded, WFMin
<1>2. ASSUME NEW x \in U, NEW y \in U, ~(<<y, x>> \in OpToRel(<, Nat))
      PROVE  x <= y
  <2>1. <<y, x>> \in Nat \X Nat
    OBVIOUS
  <2>2. ~(y < x)
    BY <1>2, <2>1 DEF OpToRel
  <2>. QED
    BY <2>2
<1>. QED
  BY <1>1, <1>2

\* The repo fillInstallRepos binds is usable.
LEMMA FirstUsable ==
    ASSUME NEW b \in BootEnvs, NEW e \in Envs, Usable(b, e) # {}
    PROVE  (CHOOSE i \in Usable(b, e) : \A j \in Usable(b, e) : i <= j) \in Usable(b, e)
<1>1. Usable(b, e) \subseteq Nat
  <2>1. PICK n \in 0 .. MaxRepos : e.repos \in [1 .. n -> Repos]
    BY ArchAssumption DEF Envs
  <2>2. DOMAIN e.repos = 1 .. n
    BY <2>1
  <2>3. Usable(b, e) \subseteq DOMAIN e.repos
    BY DEF Usable
  <2>4. 1 .. n \subseteq Nat
    BY ArchAssumption
  <2>. QED
    BY <2>2, <2>3, <2>4
<1>2. \E i \in Usable(b, e) : \A j \in Usable(b, e) : i <= j
  BY <1>1, LeastIndex
<1>. QED
  BY <1>2

\* ArchFor resolves to an arch of realArches, or to "".
LEMMA ArchForType ==
    ASSUME NEW b \in BootEnvs, NEW a
    PROVE  /\ ArchFor(b, a) # "" => ArchFor(b, a) = Canon(a) /\ Canon(a) \in RealArches(b)
           /\ RealArches(b) \subseteq Arches
<1>1. DOMAIN b.sup \subseteq SupArches
  BY DEF BootEnvs
<1>. QED
  BY <1>1, ArchAssumption DEF ArchFor, RealArches, Arches

LEMMA ValidateType ==
    ASSUME NEW b \in BootEnvs, NEW e \in Envs
    PROVE  Validate(b, e) \in Outcomes
<1>1. FillInstallRepos(b, e) \subseteq Arches
  <2>1. CASE ~NetBoot(b) \/ ~b.os \/ Usable(b, e) = {}
    BY <2>1 DEF FillInstallRepos
  <2>2. CASE ~(~NetBoot(b) \/ ~b.os \/ Usable(b, e) = {})
    <3> DEFINE first == CHOOSE i \in Usable(b, e) : \A j \in Usable(b, e) : i <= j
    <3>1. first \in Usable(b, e)
      BY <2>2, FirstUsable
    <3>2. ArchFor(b, e.repos[first].arch) \in Arches
      BY <3>1, ArchForType DEF Usable
    <3>. QED
      BY <2>2, <3>2 DEF FillInstallRepos
  <2>. QED
    BY <2>1, <2>2
<1>. QED
  BY <1>1 DEF Validate, Outcomes

(* For every set of supported arches and every bound on the repos, the    *)
(* outcome Validate records has its type: in particular fillInstallRepos   *)
(* binds only canonical arches the bootenv has, never an unresolved one.   *)
THEOREM TypeCorrect == Spec => []TypeOK
<1>1. Init => TypeOK
  BY DEF Init, TypeOK
<1>2. TypeOK /\ [Next]_vars => TypeOK'
  BY ValidateType DEF TypeOK, Next, BeforeSave, vars
<1>. QED
  BY <1>1, <1>2, PTL DEF Spec

=============================================================================
