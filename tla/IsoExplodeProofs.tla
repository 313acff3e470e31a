--------------------------- MODULE IsoExplodeProofs ---------------------------
(***************************************************************************)
(* Proofs about IsoExplode for every set of arches and checksums, every   *)
(* bound on the saves, either loop-variable semantics, and whether or not  *)
(* explode_iso.sh may fail part way.                                        *)
(***************************************************************************)
EXTENDS IsoExplode, FiniteSetTheorems, TLAPS

\* The part of the type invariant the proof needs; the bound on
\* extractions is not needed.
Typed ==
    /\ canary \in [Arches -> Shas \cup {NoSha, None}]
    /\ tree \in [Arches -> Shas \cup {None, Partial}]
    /\ pending \subseteq Workers
    /\ saves \in 0 .. MaxSaves

\* A canary with a checksum sits next to the tree of the ISO with that
\* checksum; an empty one next to a complete tree; either may instead sit
\* next to the partial tree of a failed run.
CanaryTree ==
    \A a \in Arches :
        /\ canary[a] \in Shas => tree[a] \in {canary[a], Partial}
        /\ canary[a] = NoSha => tree[a] \in Shas \cup {Partial}

\* IsoExploders makes a worker only for an arch whose ISO is on disk.
PendingIso == \A w \in pending : Iso[w.arch] # None

IInv == Typed /\ CanaryTree /\ PendingIso

LEMMA IInvInit == Init => IInv
BY IsoAssumption DEF Init, IInv, Typed, CanaryTree, PendingIso

\* The workers a save starts are well formed and have an ISO.
LEMMA StartedWorkers ==
    ASSUME NEW s \in 1 .. MaxSaves, NEW last \in Arches
    PROVE  /\ IsoExploders(s, last) \subseteq Workers
           /\ \A w \in IsoExploders(s, last) : Iso[w.arch] # None
BY IsoAssumption DEF IsoExploders, Workers, Captured

LEMMA IInvStep == IInv /\ [Next]_vars => IInv'
<1> SUFFICES ASSUME IInv, [Next]_vars PROVE IInv'
  OBVIOUS
<1>1. CASE ExplodeIsos
  <2>1. PICK last \in Arches : pending' = pending \cup IsoExploders(saves + 1, last)
    BY <1>1 DEF ExplodeIsos
  <2>2. saves + 1 \in 1 .. MaxSaves /\ saves' = saves + 1
    BY <1>1, IsoAssumption DEF ExplodeIsos, IInv, Typed
  <2>3. Typed'
    BY <1>1, <2>1, <2>2, StartedWorkers DEF ExplodeIsos, IInv, Typed
  <2>4. PendingIso'
    BY <2>1, <2>2, StartedWorkers DEF IInv, PendingIso
  <2>5. CanaryTree'
    BY <1>1 DEF ExplodeIsos, IInv, CanaryTree
  <2>. QED
    BY <2>3, <2>4, <2>5 DEF IInv
<1>2. ASSUME NEW w \in pending, explodeISO(w)
      PROVE  IInv'
  <2>1. w \in Workers /\ w.arch \in Arches /\ Iso[w.arch] \in Shas
    BY IsoAssumption DEF IInv, Typed, PendingIso, Workers
  <2>2. pending' = pending \ {w} /\ saves' = saves
    BY <1>2 DEF explodeISO
  <2>3. PendingIso'
    BY <2>2 DEF IInv, PendingIso
  <2>4. CASE w.sha \notin {NoSha, Iso[w.arch]} /\ UNCHANGED <<canary, tree, extractions>>
    BY <2>2, <2>3, <2>4 DEF IInv, Typed, CanaryTree
  <2>6. CASE w.sha \in {NoSha, Iso[w.arch]} /\ Extract(w)
             /\ tree' = [tree EXCEPT ![w.arch] = Partial] /\ UNCHANGED canary
    <3>1. Typed'
      BY <2>1, <2>2, <2>6 DEF IInv, Typed
    <3>2. CanaryTree'
      BY <2>1, <2>6 DEF IInv, Typed, CanaryTree
    <3>. QED
      BY <2>3, <3>1, <3>2 DEF IInv
  <2>5. CASE w.sha \in {NoSha, Iso[w.arch]} /\ Extract(w)
             /\ canary' = [canary EXCEPT ![w.arch] = w.sha]
             /\ tree' = [tree EXCEPT ![w.arch] = Iso[w.arch]]
    <3>1. canary' = [canary EXCEPT ![w.arch] = w.sha]
          /\ tree' = [tree EXCEPT ![w.arch] = Iso[w.arch]]
      BY <2>5
    <3>2. w.sha \in Shas \cup {NoSha}
      BY <2>1, <2>5
    <3>3. Typed'
      BY <2>1, <2>2, <3>1, <3>2 DEF IInv, Typed
    <3>4. CanaryTree'
      <4>1. {None, Partial, NoSha} \cap Shas = {}
        BY IsoAssumption
      <4>2. CASE w.sha = NoSha
        BY <2>1, <3>1, <4>1, <4>2 DEF IInv, Typed, CanaryTree
      <4>3. CASE w.sha = Iso[w.arch]
        BY <2>1, <3>1, <4>1, <4>3 DEF IInv, Typed, CanaryTree
      <4>. QED
        BY <2>5, <4>2, <4>3
    <3>. QED
      BY <2>3, <3>3, <3>4 DEF IInv
  <2>. QED
    BY <1>2, <2>4, <2>5, <2>6 DEF explodeISO, Extract
<1>3. CASE UNCHANGED vars
  BY <1>3 DEF vars, IInv, Typed, CanaryTree, PendingIso
<1>. QED
  BY <1>1, <1>2, <1>3 DEF Next

(* Whether or not explode_iso.sh may fail, and whichever archInfo the     *)
(* closures read: a canary IsoExploders trusts sits next to a complete     *)
(* tree of an ISO with the declared checksum, unless a failed run left the *)
(* tree partial under it.                                                   *)
THEOREM CanaryTruthfulHolds == Spec => []CanaryTruthfulUnlessFailed
<1>1. IInv => CanaryTruthfulUnlessFailed
  BY IsoAssumption DEF IInv, Typed, CanaryTree, CanaryTruthfulUnlessFailed
<1>2. Spec => []IInv
  BY IInvStep, IInvInit, PTL DEF Spec
<1>. QED
  BY <1>1, <1>2, PTL

-----------------------------------------------------------------------------
(* The bound on extractions, whether or not the script may fail.  Each    *)
(* save starts at most one worker per arch, and each worker runs the      *)
(* script at most once, so an arch's extractions and its pending workers  *)
(* together never outnumber the saves.                                     *)

\* The saves of the workers of P for arch a; SavesOf(a): those of the
\* pending workers.
SavesIn(P, a) == {w.save : w \in {v \in P : v.arch = a}}

SavesOf(a) == SavesIn(pending, a)

Counted ==
    /\ extractions \in [Arches -> Nat]
    /\ \A w \in pending : w.save <= saves
    /\ \A v, w \in pending : v.save = w.save /\ v.arch = w.arch => v = w
    /\ \A a \in Arches : extractions[a] + Cardinality(SavesOf(a)) <= saves

TInv == Typed /\ Counted

LEMMA SavesInFinite ==
    ASSUME NEW P \in SUBSET Workers, NEW a
    PROVE  /\ IsFiniteSet(SavesIn(P, a))
           /\ Cardinality(SavesIn(P, a)) \in Nat
<1>1. SavesIn(P, a) \subseteq 1 .. MaxSaves
  BY DEF SavesIn, Workers
<1>2. IsFiniteSet(1 .. MaxSaves)
  BY IsoAssumption, FS_Interval
<1>3. IsFiniteSet(SavesIn(P, a))
  BY <1>1, <1>2, FS_Subset
<1>. QED
  BY <1>3, FS_CardinalityType

\* Typed is kept by every step, failing script runs included.
LEMMA TypedStep == Typed /\ [Next]_vars => Typed'
<1> SUFFICES ASSUME Typed, [Next]_vars PROVE Typed'
  OBVIOUS
<1>1. CASE ExplodeIsos
  <2>1. PICK last \in Arches : pending' = pending \cup IsoExploders(saves + 1, last)
    BY <1>1 DEF ExplodeIsos
  <2>2. saves + 1 \in 1 .. MaxSaves
    BY <1>1, IsoAssumption DEF ExplodeIsos, Typed
  <2>. QED
    BY <1>1, <2>1, <2>2, StartedWorkers DEF ExplodeIsos, Typed
<1>2. ASSUME NEW w \in pending, explodeISO(w) PROVE Typed'
  <2>1. w.arch \in Arches /\ w.sha \in Shas \cup {NoSha}
    BY DEF Typed, Workers
  <2>2. Iso[w.arch] \in Shas \cup {None}
    BY <2>1, IsoAssumption
  <2>. QED
    BY <1>2, <2>1, <2>2 DEF explodeISO, Extract, Typed
<1>3. CASE UNCHANGED vars
  BY <1>3 DEF vars, Typed
<1>. QED
  BY <1>1, <1>2, <1>3 DEF Next

LEMMA CountedStep == TInv /\ [Next]_vars => Counted'
<1> SUFFICES ASSUME Typed, Counted, [Next]_vars PROVE Counted'
  BY DEF TInv
<1>0. Typed'
  BY TypedStep
<1>1. CASE ExplodeIsos
  <2>1. PICK last \in Arches : pending' = pending \cup IsoExploders(saves + 1, last)
    BY <1>1 DEF ExplodeIsos
  <2>2. saves' = saves + 1 /\ extractions' = extractions /\ saves \in Nat
    BY <1>1 DEF ExplodeIsos, Typed
  <2>3. \A v \in IsoExploders(saves + 1, last) : v.save = saves + 1
    BY DEF IsoExploders
  <2>4. \A v, w \in IsoExploders(saves + 1, last) : v.arch = w.arch => v = w
    BY DEF IsoExploders
  <2>5. ASSUME NEW a \in Arches
        PROVE  extractions'[a] + Cardinality(SavesIn(pending', a)) <= saves'
    <3> DEFINE S == SavesIn(pending, a)
               T == SavesIn(pending', a)
    <3>1. T \subseteq S \cup {saves + 1}
      BY <2>1, <2>3 DEF SavesIn
    <3>2. IsFiniteSet(S) /\ Cardinality(S) \in Nat
      BY SavesInFinite DEF Typed
    <3>3. IsFiniteSet(S \cup {saves + 1})
          /\ Cardinality(S \cup {saves + 1}) =
               IF saves + 1 \in S THEN Cardinality(S) ELSE Cardinality(S) + 1
      BY <3>2, FS_AddElement
    <3>4. Cardinality(S \cup {saves + 1}) <= Cardinality(S) + 1
      BY <3>2, <3>3
    <3>5. Cardinality(T) <= Cardinality(S \cup {saves + 1})
      BY <3>1, <3>3, FS_Subset
    <3>6. Cardinality(T) \in Nat /\ Cardinality(S \cup {saves + 1}) \in Nat
      BY <1>0, <3>3, SavesInFinite, FS_CardinalityType DEF Typed
    <3>7. extractions[a] + Cardinality(S) <= saves /\ extractions[a] \in Nat
      BY DEF Counted, SavesOf
    <3>. QED
      BY <2>2, <3>2, <3>4, <3>5, <3>6, <3>7
  <2>6. \A v, w \in pending' : v.save = w.save /\ v.arch = w.arch => v = w
    BY <2>1, <2>2, <2>3, <2>4 DEF Counted
  <2>7. \A w \in pending' : w.save <= saves'
    BY <2>1, <2>2, <2>3 DEF Counted, Typed, Workers
  <2>8. extractions' \in [Arches -> Nat]
    BY <2>2 DEF Counted
  <2>. QED
    BY <2>5, <2>6, <2>7, <2>8 DEF Counted, SavesOf
<1>2. ASSUME NEW w \in pending, explodeISO(w) PROVE Counted'
  <2>0. w \in Workers
    BY DEF Typed
  <2>1. pending' = pending \ {w} /\ saves' = saves
    BY <1>2 DEF explodeISO
  <2>2. extractions' \in [Arches -> Nat]
        /\ extractions'[w.arch] <= extractions[w.arch] + 1
        /\ \A b \in Arches \ {w.arch} : extractions'[b] = extractions[b]
    BY <1>2, <2>0 DEF explodeISO, Extract, Counted, Workers
  <2>3. ASSUME NEW a \in Arches
        PROVE  extractions'[a] + Cardinality(SavesIn(pending', a)) <= saves'
    <3> DEFINE S == SavesIn(pending, a)
    <3>1. IsFiniteSet(S) /\ Cardinality(S) \in Nat
      BY SavesInFinite DEF Typed
    <3>2. extractions[a] + Cardinality(S) <= saves /\ extractions[a] \in Nat
      BY DEF Counted, SavesOf
    <3>3. CASE a = w.arch
      <4>1. SavesIn(pending', a) = S \ {w.save}
        BY <2>1, <3>3 DEF Counted, SavesIn
      <4>2. w.save \in S
        BY <3>3 DEF SavesIn
      <4>3. Cardinality(SavesIn(pending', a)) = Cardinality(S) - 1
        BY <3>1, <4>1, <4>2, FS_RemoveElement
      <4>4. Cardinality(S) # 0
        BY <3>1, <4>2, FS_EmptySet
      <4>5. extractions'[a] <= extractions[a] + 1 /\ extractions'[a] \in Nat
        BY <2>2, <3>3
      <4>6. extractions'[a] + Cardinality(SavesIn(pending', a)) <= extractions[a] + Cardinality(S)
        BY <3>1, <3>2, <4>3, <4>4, <4>5
      <4>7. saves' = saves /\ saves \in Nat
        BY <2>1 DEF Typed
      <4>8. extractions'[a] + Cardinality(SavesIn(pending', a)) <= saves
        BY <3>1, <3>2, <4>3, <4>5, <4>6, <4>7
      <4>. QED
        BY <4>7, <4>8
    <3>4. CASE a # w.arch
      <4>1. SavesIn(pending', a) = S
        BY <2>1, <3>4 DEF SavesIn
      <4>2. saves \in Nat
        BY DEF Typed
      <4>. QED
        BY <2>1, <2>2, <3>1, <3>2, <3>4, <4>1, <4>2
    <3>. QED
      BY <3>3, <3>4
  <2>4. \A v \in pending' : v.save <= saves'
    BY <2>1 DEF Counted
  <2>5. \A u, v \in pending' : u.save = v.save /\ u.arch = v.arch => u = v
    BY <2>1 DEF Counted
  <2>. QED
    BY <2>2, <2>3, <2>4, <2>5 DEF Counted, SavesOf
<1>3. CASE UNCHANGED vars
  BY <1>3 DEF vars, Counted, SavesOf, SavesIn
<1>. QED
  BY <1>1, <1>2, <1>3 DEF Next

(* For every instance, whether or not explode_iso.sh may fail, every      *)
(* reachable state is well typed; in particular explode_iso.sh has run at *)
(* most once per save for each arch, since a save starts one worker per   *)
(* arch and a worker runs the script at most once.                         *)
THEOREM TypeCorrect == Spec => []TypeOK
<1>1. Init => TInv
  BY IsoAssumption, FS_EmptySet DEF Init, TInv, Typed, Counted, SavesOf, SavesIn
<1>2. TInv /\ [Next]_vars => TInv'
  BY TypedStep, CountedStep DEF TInv
<1>3. TInv => TypeOK
  <2> SUFFICES ASSUME TInv PROVE TypeOK
    OBVIOUS
  <2>1. \A a \in Arches : extractions[a] \in 0 .. MaxSaves
    <3> SUFFICES ASSUME NEW a \in Arches PROVE extractions[a] \in 0 .. MaxSaves
      OBVIOUS
    <3>1. Cardinality(SavesOf(a)) \in Nat
      BY SavesInFinite DEF TInv, Typed, SavesOf
    <3>. QED
      BY <3>1, IsoAssumption DEF TInv, Typed, Counted
  <2>. QED
    BY <2>1 DEF TInv, Typed, Counted, TypeOK
<1>. QED
  BY <1>1, <1>2, <1>3, PTL DEF Spec

=============================================================================
