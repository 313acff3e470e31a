------------------------ MODULE ParamResolutionProofs ------------------------
(***************************************************************************)
(* Proofs about ParamResolution for every set of profiles and names and   *)
(* every bound on the lists: the steps on the secrets store, and what the *)
(* folds Found and AggSources compute (invariants 5 and 6).  The library's *)
(* induction theorems take an operator parameter; an induction here is    *)
(* instead a least counterexample, which WFMin gives on Nat.               *)
(***************************************************************************)
EXTENDS ParamResolution, WellFoundedInduction, TLAPS

\* Whatever objects PrivateKeyFor is called for, the secrets store keeps
\* one key per object, and a key it holds is kept.
LEMMA KeysAfterType ==
    ASSUME TypeOK, NEW os
    PROVE  /\ KeysAfter(os) \in [Objs -> Keys]
           /\ \A o \in Objs : keys[o] # NoKey => KeysAfter(os)[o] = keys[o]
BY DEF KeysAfter, TypeOK, Keys

LEMMA TypeStep == TypeOK /\ [Next]_vars => TypeOK'
<1> SUFFICES ASSUME TypeOK, [Next]_vars PROVE TypeOK'
  OBVIOUS
<1>1. CASE \E a, d \in BOOLEAN : GetParams(a, d)
  BY <1>1, KeysAfterType DEF GetParams, TypeOK, store
<1>2. CASE \E k \in Names, a, d \in BOOLEAN : GetParam(k, a, d)
  BY <1>2, KeysAfterType DEF GetParam, TypeOK, store
<1>3. CASE \E o \in Objs : KeyFor(o)
  BY <1>3, KeysAfterType DEF KeyFor, TypeOK, store
<1>4. CASE \E o \in Objs : DeleteKeyFor(o)
  BY <1>4 DEF DeleteKeyFor, TypeOK, store, Keys
<1>5. CASE UNCHANGED vars
  BY <1>5 DEF vars, store, TypeOK
<1>. QED
  BY <1>1, <1>2, <1>3, <1>4, <1>5 DEF Next

(* For every instance, the stores keep their types and the secrets store  *)
(* maps every object to a key or none, through any interleaving of        *)
(* GetParams, GetParam, PrivateKeyFor and DeleteKeyFor.                    *)
THEOREM TypeCorrect == Spec => []TypeOK
<1>1. Init => TypeOK
  BY DEF Init, TypeOK, Keys
<1>. QED
  BY <1>1, TypeStep, PTL DEF Spec

-----------------------------------------------------------------------------
(* Least elements.                                                         *)

Least(H) == CHOOSE j \in H : \A l \in H : j <= l

\* A nonempty set of naturals has a least element.
LEMMA LeastExists ==
    ASSUME NEW H \in SUBSET Nat, H # {}
    PROVE  Least(H) \in H /\ \A l \in H : Least(H) <= l
<1>1. \E x \in H : \A y \in H : ~(<<y, x>> \in OpToRel(<, Nat))
  BY NatLessThanWellFounded, WFMin
<1>2. ASSUME NEW x \in H, NEW y \in H, ~(<<y, x>> \in OpToRel(<, Nat))
      PROVE  x <= y
  <2>1. <<y, x>> \in Nat \X Nat
    OBVIOUS
  <2>2. ~(y < x)
    BY <1>2, <2>1 DEF OpToRel
  <2>. QED
    BY <2>2
<1>3. \E x \in H : \A y \in H : x <= y
  BY <1>1, <1>2
<1>. QED
  BY <1>3 DEF Least

\* The least element is the one below all others.
LEMMA LeastIs ==
    ASSUME NEW H \in SUBSET Nat, NEW m \in H, \A l \in H : m <= l
    PROVE  Least(H) = m
<1>1. Least(H) \in H /\ \A l \in H : Least(H) <= l
  BY LeastExists
<1>2. Least(H) \in Nat /\ m \in Nat /\ Least(H) <= m /\ m <= Least(H)
  BY <1>1
<1>. QED
  BY <1>2

-----------------------------------------------------------------------------
(* Found: the fold of SelectSeq.                                            *)

SelStep(l, g, i) == IF l[i] \in Profiles THEN Append(g[i - 1], l[i]) ELSE g[i - 1]

IsSelFold(l, F) == F = [i \in 0 .. Len(l) |-> IF i = 0 THEN << >> ELSE SelStep(l, F, i)]

\* The fold on 0 .. n, with its values typed.
PartialSel(l, n, g) ==
    /\ g \in [0 .. n -> Seq(Profiles)]
    /\ g[0] = << >>
    /\ \A i \in 1 .. n : g[i] = SelStep(l, g, i)

LEMMA FoundIs ==
    ASSUME NEW l
    PROVE  Found(l) = (CHOOSE F : IsSelFold(l, F))[Len(l)]
BY DEF Found, IsSelFold, SelStep

\* The fold can be carried to every prefix of the list.
LEMMA SelPartial ==
    ASSUME NEW S, NEW l \in Seq(S), NEW n \in 0 .. Len(l)
    PROVE  \E g : PartialSel(l, n, g)
<1> DEFINE T == {m \in 0 .. Len(l) : ~\E g : PartialSel(l, m, g)}
<1> SUFFICES ASSUME T # {} PROVE FALSE
  OBVIOUS
<1>a. T \in SUBSET Nat
  BY Len(l) \in Nat
<1>0. Least(T) \in T /\ \A j \in T : Least(T) <= j
  BY <1>a, LeastExists
<1>1. PICK m \in T : \A j \in T : m <= j
  BY <1>0
<1>2. CASE m = 0
  <2>1. PartialSel(l, 0, [i \in 0 .. 0 |-> << >>])
    BY DEF PartialSel
  <2>. QED
    BY <1>1, <1>2, <2>1
<1>3. CASE m # 0
  <2>1. m - 1 \in 0 .. Len(l) /\ m - 1 \notin T
    BY <1>1, <1>3
  <2>2. PICK g : PartialSel(l, m - 1, g)
    BY <2>1
  <2> DEFINE g2 == [i \in 0 .. m |-> IF i < m THEN g[i] ELSE SelStep(l, g, m)]
  <2>3. SelStep(l, g, m) \in Seq(Profiles)
    BY <1>1, <1>3, <2>2 DEF PartialSel, SelStep
  <2>4. \A i \in 1 .. m : g2[i] = SelStep(l, g2, i)
    <3> SUFFICES ASSUME NEW i \in 1 .. m PROVE g2[i] = SelStep(l, g2, i)
      OBVIOUS
    <3>1. g2[i - 1] = g[i - 1]
      BY <1>1
    <3>2. CASE i < m
      <4>1. g2[i] = g[i]
        BY <3>2
      <4>2. i \in 1 .. m - 1
        BY <3>2, <1>1
      <4>3. g[i] = SelStep(l, g, i)
        BY <4>2, <2>2 DEF PartialSel
      <4>4. SelStep(l, g, i) = SelStep(l, g2, i)
        BY <3>1 DEF SelStep
      <4>. QED
        BY <4>1, <4>3, <4>4
    <3>3. CASE i = m
      BY <3>1, <3>3 DEF SelStep
    <3>. QED
      BY <3>2, <3>3, <1>1
  <2>6. m \in Nat /\ 0 < m
    BY <1>1, <1>3
  <2>7. g2 \in [0 .. m -> Seq(Profiles)]
    BY <2>2, <2>3, <2>6 DEF PartialSel
  <2>8. g2[0] = << >>
    BY <2>2, <2>6 DEF PartialSel
  <2>5. PartialSel(l, m, g2)
    BY <2>4, <2>7, <2>8 DEF PartialSel
  <2>. QED
    BY <1>1, <2>5
<1>. QED
  BY <1>2, <1>3

\* rt.Find keeps only names of existing profiles.
LEMMA FoundType ==
    ASSUME NEW S, NEW l \in Seq(S)
    PROVE  Found(l) \in Seq(Profiles)
<1> DEFINE n == Len(l)
           F == CHOOSE F : IsSelFold(l, F)
<1>1. PICK g : PartialSel(l, n, g)
  BY SelPartial
<1>2. IsSelFold(l, g)
  BY <1>1 DEF PartialSel, IsSelFold
<1>3. IsSelFold(l, F)
  BY <1>2
<1>4. F = g
  <2> DEFINE T == {i \in 0 .. n : F[i] # g[i]}
  <2> SUFFICES ASSUME T # {} PROVE FALSE
    BY <1>2, <1>3 DEF IsSelFold
  <2>a. T \in SUBSET Nat
    BY Len(l) \in Nat
  <2>0. Least(T) \in T /\ \A j \in T : Least(T) <= j
    BY <2>a, LeastExists
  <2>1. PICK m \in T : \A j \in T : m <= j
    BY <2>0
  <2>2. CASE m = 0
    BY <2>1, <2>2, <1>2, <1>3 DEF IsSelFold
  <2>3. CASE m # 0
    <3>1. F[m - 1] = g[m - 1] /\ m \in 1 .. n
      BY <2>1, <2>3
    <3>2. F[m] = SelStep(l, F, m) /\ g[m] = SelStep(l, g, m)
      BY <3>1, <1>2, <1>3 DEF IsSelFold
    <3>3. SelStep(l, F, m) = SelStep(l, g, m)
      BY <3>1 DEF SelStep
    <3>. QED
      BY <2>1, <3>2, <3>3
  <2>. QED
    BY <2>2, <2>3
<1>. QED
  BY <1>1, <1>4, FoundIs DEF PartialSel

-----------------------------------------------------------------------------
(* AggSources: the first-wins fold of getAggParams.                        *)

Base == [k \in Names |-> IF k \in set[Machine] THEN Machine ELSE Missing]

AggStep(subs, g, i) ==
    [k \in Names |-> IF g[k] = Missing /\ k \in set[subs[i]] THEN subs[i] ELSE g[k]]

IsAggFold(subs, f) ==
    f = [i \in 0 .. Len(subs) |-> IF i = 0 THEN Base ELSE AggStep(subs, f[i - 1], i)]

\* The sub-objects among the first i that have k, and the source the fold
\* should hold for k after them: the machine, else the first of those.
HitsIn(subs, i, k) == {j \in 1 .. i : k \in set[subs[j]]}

Hit(subs, i, k) ==
    IF k \in set[Machine] THEN Machine
    ELSE IF HitsIn(subs, i, k) = {} THEN Missing
    ELSE subs[Least(HitsIn(subs, i, k))]

AggRef(subs) == [i \in 0 .. Len(subs) |-> [k \in Names |-> Hit(subs, i, k)]]

LEMMA AggIs ==
    ASSUME NEW subs
    PROVE  AggSources(subs) = (CHOOSE f : IsAggFold(subs, f))[Len(subs)]
BY DEF AggSources, IsAggFold, AggStep, Base

\* Before any sub-object, only the machine's own params have a source.
LEMMA HitZero ==
    ASSUME NEW subs, NEW k \in Names
    PROVE  Hit(subs, 0, k) = Base[k]
BY DEF Hit, HitsIn, Base

\* One step of the fold: a sub-object gives k its source only when no
\* earlier object had it.
LEMMA HitStep ==
    ASSUME NEW subs \in Seq(Objs), NEW i \in 1 .. Len(subs), NEW k \in Names
    PROVE  Hit(subs, i, k) =
              IF Hit(subs, i - 1, k) = Missing /\ k \in set[subs[i]]
              THEN subs[i] ELSE Hit(subs, i - 1, k)
<1> DEFINE H0 == HitsIn(subs, i - 1, k)
           H1 == HitsIn(subs, i, k)
<1>0. Missing \notin Objs /\ Machine \in Objs /\ \A j \in 1 .. Len(subs) : subs[j] \in Objs
  BY ParamAssumption DEF Objs
<1>1. CASE k \in set[Machine]
  BY <1>0, <1>1 DEF Hit
<1>2. CASE k \notin set[Machine]
  <2>1. H1 = H0 \cup (IF k \in set[subs[i]] THEN {i} ELSE {})
    BY DEF HitsIn
  <2>2. H0 \in SUBSET Nat /\ H1 \in SUBSET Nat /\ \A j \in H0 : j < i
    BY DEF HitsIn
  <2>3. CASE H0 # {}
    <3>1. Least(H0) \in H0 /\ \A j \in H0 : Least(H0) <= j
      BY <2>2, <2>3, LeastExists
    <3>2. Least(H0) \in H1 /\ \A j \in H1 : Least(H0) <= j
      BY <3>1, <2>1, <2>2
    <3>3. Least(H1) = Least(H0)
      BY <3>2, <2>2, LeastIs
    <3>4. H1 # {} /\ Least(H0) \in 1 .. Len(subs)
      BY <3>1, <3>2 DEF HitsIn
    <3>5. Hit(subs, i - 1, k) = subs[Least(H0)] /\ Hit(subs, i, k) = subs[Least(H0)]
      BY <1>2, <2>3, <3>3, <3>4 DEF Hit
    <3>. QED
      BY <3>4, <3>5, <1>0
  <2>4. CASE H0 = {}
    <3>1. Hit(subs, i - 1, k) = Missing
      BY <1>2, <2>4 DEF Hit
    <3>2. CASE k \in set[subs[i]]
      <4>1. H1 = {i}
        BY <2>1, <2>4, <3>2
      <4>2. Least(H1) = i
        BY <4>1, LeastIs
      <4>. QED
        BY <1>2, <3>1, <3>2, <4>1, <4>2 DEF Hit
    <3>3. CASE k \notin set[subs[i]]
      BY <1>2, <2>1, <2>4, <3>1, <3>3 DEF Hit
    <3>. QED
      BY <3>2, <3>3
  <2>. QED
    BY <2>3, <2>4
<1>. QED
  BY <1>1, <1>2

\* The reference is a solution of the fold's equation.
LEMMA AggRefIsFold ==
    ASSUME NEW subs \in Seq(Objs)
    PROVE  IsAggFold(subs, AggRef(subs))
<1> SUFFICES ASSUME NEW i \in 0 .. Len(subs)
             PROVE  AggRef(subs)[i] =
                      IF i = 0 THEN Base ELSE AggStep(subs, AggRef(subs)[i - 1], i)
  BY DEF IsAggFold, AggRef
<1>1. CASE i = 0
  BY <1>1, HitZero DEF AggRef, Base
<1>2. CASE i # 0
  <2>1. i \in 1 .. Len(subs) /\ i - 1 \in 0 .. Len(subs)
    BY <1>2
  <2>2. \A k \in Names : Hit(subs, i, k) =
           IF AggRef(subs)[i - 1][k] = Missing /\ k \in set[subs[i]]
           THEN subs[i] ELSE AggRef(subs)[i - 1][k]
    BY <2>1, HitStep DEF AggRef
  <2>. QED
    BY <1>2, <2>1, <2>2 DEF AggRef, AggStep
<1>. QED
  BY <1>1, <1>2

\* And the only one: any solution agrees with it at every index, by a
\* least index where they would differ.
LEMMA AggUnique ==
    ASSUME NEW subs \in Seq(Objs), NEW f, IsAggFold(subs, f)
    PROVE  f = AggRef(subs)
<1> DEFINE R == AggRef(subs)
           T == {i \in 0 .. Len(subs) : f[i] # R[i]}
<1>0. IsAggFold(subs, R)
  BY AggRefIsFold
<1> SUFFICES ASSUME T # {} PROVE FALSE
  BY <1>0 DEF IsAggFold
<1>a. T \in SUBSET Nat
  OBVIOUS
<1>b. Least(T) \in T /\ \A j \in T : Least(T) <= j
  BY <1>a, LeastExists
<1>1. PICK m \in T : \A j \in T : m <= j
  BY <1>b
<1>2. CASE m = 0
  BY <1>0, <1>1, <1>2 DEF IsAggFold
<1>3. CASE m # 0
  <2>1. m - 1 \in 0 .. Len(subs) /\ f[m - 1] = R[m - 1]
    BY <1>1, <1>3
  <2>2. f[m] = AggStep(subs, f[m - 1], m) /\ R[m] = AggStep(subs, R[m - 1], m)
    BY <1>0, <1>1, <1>3 DEF IsAggFold
  <2>. QED
    BY <1>1, <2>1, <2>2
<1>. QED
  BY <1>2, <1>3

\* getAggParams records, for each name, the machine if it has the name and
\* otherwise the first sub-object that has it.
LEMMA AggSourcesHit ==
    ASSUME NEW subs \in Seq(Objs)
    PROVE  AggSources(subs) = [k \in Names |-> Hit(subs, Len(subs), k)]
<1>1. IsAggFold(subs, CHOOSE f : IsAggFold(subs, f))
  BY AggRefIsFold
<1>2. (CHOOSE f : IsAggFold(subs, f)) = AggRef(subs)
  BY <1>1, AggUnique
<1>. QED
  BY <1>2, AggIs DEF AggRef

\* The first hit of the order spec 4.6 reads is the source the fold holds.
LEMMA FirstHitIs ==
    ASSUME NEW subs \in Seq(Objs), NEW k \in Names
    PROVE  FirstHit(<<Machine>> \o subs, k) = Hit(subs, Len(subs), k)
<1> DEFINE O    == <<Machine>> \o subs
           n    == Len(subs)
           hits == {i \in 1 .. Len(O) : k \in set[O[i]]}
           H    == HitsIn(subs, n, k)
<1>1. Len(O) = n + 1 /\ O[1] = Machine /\ \A j \in 1 .. n : O[j + 1] = subs[j]
  OBVIOUS
<1>2. FirstHit(O, k) = IF hits = {} THEN Missing ELSE O[Least(hits)]
  BY DEF FirstHit, Least
<1>3. hits \in SUBSET Nat /\ H \in SUBSET Nat
  BY DEF HitsIn
<1>4. CASE k \in set[Machine]
  <2>1. 1 \in hits /\ \A j \in hits : 1 <= j
    BY <1>1, <1>4
  <2>2. Least(hits) = 1
    BY <2>1, <1>3, LeastIs
  <2>. QED
    BY <1>1, <1>2, <1>4, <2>1, <2>2 DEF Hit
<1>5. CASE k \notin set[Machine]
  <2>1. \A i \in hits : i - 1 \in H /\ i # 1
    BY <1>1, <1>5 DEF HitsIn
  <2>2. \A j \in H : j + 1 \in hits
    BY <1>1 DEF HitsIn
  <2>3. CASE H = {}
    BY <1>2, <1>5, <2>1, <2>3 DEF Hit
  <2>4. CASE H # {}
    <3>1. Least(H) \in H /\ \A j \in H : Least(H) <= j
      BY <1>3, <2>4, LeastExists
    <3>a. Least(H) + 1 \in hits
      BY <3>1, <2>2
    <3>b. \A i \in hits : Least(H) <= i - 1
      BY <3>1, <2>1
    <3>c. Least(H) \in Nat
      BY <3>1, <1>3
    <3>d. \A i \in hits : Least(H) + 1 <= i
      <4> SUFFICES ASSUME NEW i \in hits PROVE Least(H) + 1 <= i
        OBVIOUS
      <4>1. i \in Nat /\ Least(H) <= i - 1
        BY <3>b, <1>3
      <4>. QED
        BY <4>1, <3>c
    <3>2. Least(H) + 1 \in hits /\ \A i \in hits : Least(H) + 1 <= i
      BY <3>a, <3>d
    <3>3. Least(hits) = Least(H) + 1
      BY <3>2, <1>3, LeastIs
    <3>4. Least(H) \in 1 .. n
      BY <3>1 DEF HitsIn
    <3>. QED
      BY <1>1, <1>2, <1>5, <2>4, <3>2, <3>3, <3>4 DEF Hit
  <2>. QED
    BY <2>3, <2>4
<1>. QED
  BY <1>4, <1>5

\* A source is the machine, a sub-object, or none.
LEMMA HitType ==
    ASSUME NEW subs \in Seq(Objs), NEW i \in 0 .. Len(subs), NEW k \in Names
    PROVE  Hit(subs, i, k) \in Objs \cup {Missing}
<1>1. CASE HitsIn(subs, i, k) # {}
  <2>0. HitsIn(subs, i, k) \in SUBSET Nat
    BY DEF HitsIn
  <2>1. Least(HitsIn(subs, i, k)) \in HitsIn(subs, i, k)
    BY <1>1, <2>0, LeastExists
  <2>2. Least(HitsIn(subs, i, k)) \in 1 .. Len(subs)
    BY <2>1 DEF HitsIn
  <2>. QED
    BY <2>2 DEF Hit, Objs
<1>. QED
  BY <1>1 DEF Hit, Objs

\* A bounded list is a sequence.
LEMMA ListsSeq ==
    ASSUME NEW S, NEW max \in Nat
    PROVE  Lists(S, max) \subseteq Seq(S)
<1> SUFFICES ASSUME NEW x \in Lists(S, max) PROVE x \in Seq(S)
  OBVIOUS
<1>1. PICK n \in 0 .. max : x \in [1 .. n -> S]
  BY DEF Lists
<1>. QED
  BY <1>1

\* subObjs holds only objects: the profiles rt.Find finds and the global one.
LEMMA SubObjsType ==
    ASSUME TypeOK
    PROVE  SubObjs \in Seq(Objs)
<1>1. mProfiles \in Seq(Profiles \cup {Missing}) /\ sProfiles \in Seq(Profiles \cup {Missing})
  BY ListsSeq, ParamAssumption DEF TypeOK
<1>2. Found(mProfiles) \in Seq(Profiles) /\ Found(sProfiles) \in Seq(Profiles)
  BY <1>1, FoundType
<1>3. Seq(Profiles) \subseteq Seq(Objs) /\ Global \in Objs
  BY ParamAssumption DEF Objs
<1>. QED
  BY <1>2, <1>3 DEF SubObjs

-----------------------------------------------------------------------------
(* Invariants 5 and 6.                                                     *)

\* The sub-objects getAggParams folds over, with or without aggregate.
Subs(a) == IF a THEN SubObjs ELSE << >>

LEMMA SourcesAre ==
    ASSUME TypeOK, NEW a \in BOOLEAN, NEW k \in Names
    PROVE  /\ Sources(a)[k] = FirstHit(SpecOrder(a), k)
           /\ Sources(a)[k] \in Objs \cup {Missing}
<1>1. Subs(a) \in Seq(Objs)
  BY SubObjsType DEF Subs
<1>2. Sources(a) = AggSources(Subs(a)) /\ SpecOrder(a) = <<Machine>> \o Subs(a)
  BY DEF Sources, SpecOrder, SubObjs, Subs
<1>3. Sources(a)[k] = Hit(Subs(a), Len(Subs(a)), k)
  BY <1>1, <1>2, AggSourcesHit
<1>4. FirstHit(SpecOrder(a), k) = Hit(Subs(a), Len(Subs(a)), k)
  BY <1>1, <1>2, FirstHitIs
<1>5. Hit(Subs(a), Len(Subs(a)), k) \in Objs \cup {Missing}
  BY <1>1, HitType
<1>. QED
  BY <1>3, <1>4, <1>5

(* Invariant 5, for every store and every list of profiles: GetParams and *)
(* GetParam without decryption return each name's value from the first   *)
(* object of spec 4.6's order that has it (the machine, its profiles that *)
(* exist, its stage's profiles, the global profile) and record that       *)
(* object as the source; the fold getAggParams runs over subObjs computes *)
(* exactly that first hit.                                                 *)
THEOREM AggregationOrderHolds == Spec => []AggregationOrder
<1>1. TypeOK => AggregationOrder
  <2> SUFFICES ASSUME TypeOK, NEW a \in BOOLEAN, NEW k \in Names
               PROVE  /\ Sources(a)[k] = FirstHit(SpecOrder(a), k)
                      /\ GetParamsResult(a, FALSE)[k] =
                            IF FirstHit(SpecOrder(a), k) = Missing THEN None
                            ELSE Stored(FirstHit(SpecOrder(a), k), k)
                      /\ GetParamResult(k, a, FALSE) =
                            IF FirstHit(SpecOrder(a), k) # Missing
                            THEN Stored(FirstHit(SpecOrder(a), k), k)
                            ELSE IF a /\ def[k] # "none" THEN Default(k) ELSE None
    BY DEF AggregationOrder
  <2>1. Sources(a)[k] = FirstHit(SpecOrder(a), k)
    BY SourcesAre
  <2>2. GetParamsResult(a, FALSE)[k] =
           IF Sources(a)[k] = Missing THEN None ELSE Stored(Sources(a)[k], k)
    BY DEF GetParamsResult, Decrypt
  <2>3. GetParamResult(k, a, FALSE) =
           IF Sources(a)[k] # Missing THEN Stored(Sources(a)[k], k)
           ELSE IF a /\ def[k] # "none" THEN Default(k) ELSE None
    BY DEF GetParamResult, Decrypt
  <2>. QED
    BY <2>1, <2>2, <2>3
<1>. QED
  BY <1>1, TypeCorrect, PTL

(* Invariant 6, for every store and every state of the secrets store: a   *)
(* Secure value resolved from an object whose key is the one it was       *)
(* encrypted to comes back in the clear from GetParams and GetParam with  *)
(* decrypt, because decryptParam uses the source's key and PrivateKeyFor  *)
(* keeps a key the store holds.                                            *)
THEOREM SecureRoundTripHolds == Spec => []SecureRoundTrip
<1>1. TypeOK => SecureRoundTrip
  <2> SUFFICES ASSUME TypeOK, NEW a \in BOOLEAN, NEW k \in Names,
                      Sources(a)[k] # Missing, def[k] = "secure",
                      keys[Sources(a)[k]] = Stored(Sources(a)[k], k).enc
               PROVE  /\ GetParamsResult(a, TRUE)[k] =
                            [Stored(Sources(a)[k], k) EXCEPT !.enc = NoKey]
                      /\ GetParamResult(k, a, TRUE) =
                            [Stored(Sources(a)[k], k) EXCEPT !.enc = NoKey]
    BY DEF SecureRoundTrip
  <2> DEFINE o == Sources(a)[k]
  <2>1. o \in Objs
    BY SourcesAre
  <2>2. Stored(o, k).enc = OldKey /\ Stored(o, k).of = o /\ keys[o] = OldKey
    BY DEF Stored
  <2>3. \A os : KeysAfter(os)[o] = OldKey
    BY <2>1, <2>2 DEF KeysAfter, OldKey, NoKey
  <2>4. \A ks : ks[o] = OldKey =>
           Decrypt(o, k, Stored(o, k), ks, TRUE) = [Stored(o, k) EXCEPT !.enc = NoKey]
    BY <2>2 DEF Decrypt, OldKey, NoKey
  <2> DEFINE ks1 == KeysAfter(Decrypting(Sources(a), Names, TRUE))
             ks2 == KeysAfter(Decrypting(Sources(a), {k}, TRUE))
  <2>7. ks1[o] = OldKey /\ ks2[o] = OldKey
    BY <2>3
  <2>8. GetParamsResult(a, TRUE)[k] = Decrypt(o, k, Stored(o, k), ks1, TRUE)
    BY DEF GetParamsResult
  <2>9. GetParamResult(k, a, TRUE) = Decrypt(o, k, Stored(o, k), ks2, TRUE)
    BY DEF GetParamResult
  <2>5. GetParamsResult(a, TRUE)[k] = [Stored(o, k) EXCEPT !.enc = NoKey]
    BY <2>4, <2>7, <2>8
  <2>6. GetParamResult(k, a, TRUE) = [Stored(o, k) EXCEPT !.enc = NoKey]
    BY <2>4, <2>7, <2>9
  <2>. QED
    BY <2>5, <2>6
<1>. QED
  BY <1>1, TypeCorrect, PTL

=============================================================================
