----------------------- MODULE RequestTrackerProofs -----------------------
(***************************************************************************)
(* Proofs about the RequestTracker model: type correctness, and that event *)
(* subscribers see every unlocked store as it is except at the keys a    *)
(* key-changing Patch touched (ViewConsistentUnlessRenamed), for every set *)
(* of threads, prefixes, keys, patches and values and every bound.         *)
(***************************************************************************)
EXTENDS RequestTracker, SequenceTheorems, WellFoundedInduction, TLAPS

-----------------------------------------------------------------------------
(* A committed write appends a well-typed event.                           *)
LEMMA CommitType ==
    ASSUME TypeOK, NEW t \in Threads, NEW p \in DataPrefixes, NEW k \in Keys,
           NEW act \in EventActions, NEW pk \in Keys, NEW val \in Obj,
           Commit(t, p, k, act, pk, val)
    PROVE  /\ index' \in [DataPrefixes -> [Keys -> Obj]]
           /\ runAfter' \in [Threads -> Seq(Event)]
           /\ renamed' \in [DataPrefixes -> SUBSET Keys]
<1>1. /\ index' \in [DataPrefixes -> [Keys -> Obj]]
      /\ renamed' \in [DataPrefixes -> SUBSET Keys]
  BY DEF Commit, TypeOK
<1>2. [prefix |-> p, action |-> act, key |-> pk, val |-> val] \in Event
  BY DEF Event
<1>3. Append(runAfter[t], [prefix |-> p, action |-> act, key |-> pk, val |-> val])
        \in Seq(Event)
  BY <1>2, AppendProperties DEF TypeOK
<1>4. runAfter' \in [Threads -> Seq(Event)]
  BY <1>3 DEF Commit, TypeOK
<1>5. QED
  BY <1>1, <1>4

(* The typed outcome of a CRUD call: either a commit or nothing changed.   *)
LEMMA CrudType ==
    ASSUME TypeOK, NEW t \in Threads, NEW p \in DataPrefixes, NEW k \in Keys,
           NEW act \in EventActions, NEW pk \in Keys, NEW val \in Obj,
           InBody(t, p),
           Commit(t, p, k, act, pk, val) \/ Refused,
           UNCHANGED <<pc, want, owner, view>>
    PROVE  TypeOK'
<1>1. ops' \in [Threads -> 0 .. MaxOps]
  BY RTAssumption DEF InBody, TypeOK
<1>2. /\ index' \in [DataPrefixes -> [Keys -> Obj]]
      /\ runAfter' \in [Threads -> Seq(Event)]
      /\ renamed' \in [DataPrefixes -> SUBSET Keys]
  BY CommitType DEF Refused, TypeOK
<1>3. QED
  BY <1>1, <1>2 DEF TypeOK

(* Every step keeps the variables in their types.                          *)
LEMMA TypeStep == TypeOK /\ [Next]_vars => TypeOK'
  <2> SUFFICES ASSUME TypeOK, [Next]_vars PROVE TypeOK'
    OBVIOUS
  <2>1. CASE UNCHANGED vars
    <3>1. /\ pc' = pc /\ want' = want /\ owner' = owner /\ ops' = ops
          /\ runAfter' = runAfter /\ index' = index /\ view' = view
          /\ renamed' = renamed
      BY <2>1 DEF vars
    <3>2. QED
      BY <3>1 DEF TypeOK
  <2>2. ASSUME NEW t \in Threads, Do(t) PROVE TypeOK'
    <3>1. LockSet(t) \in SUBSET Prefixes
      <4>1. Declared[t] \in Seq(Prefixes)
        BY RTAssumption
      <4>2. QED
        BY <4>1, ElementOfSeq DEF LockSet
    <3>2. QED
      BY <2>2, <3>1 DEF Do, TypeOK, PC
  <2>3. ASSUME NEW t \in Threads, AllLocked(t) PROVE TypeOK'
    BY <2>3 DEF AllLocked, TypeOK, PC
  <2>4. ASSUME NEW t \in Threads, Acquire(t) PROVE TypeOK'
    BY <2>4 DEF Acquire, TypeOK
  <2>5. ASSUME NEW t \in Threads, Locked(t) PROVE TypeOK'
    BY <2>5, RTAssumption DEF Locked, TypeOK, PC
  <2>6. ASSUME NEW t \in Threads, NEW p \in DataPrefixes, NEW k \in Keys,
               NEW v \in Vals, Create(t, p, k, v)
        PROVE TypeOK'
    BY <2>6, CrudType DEF Create, Obj, EventActions
  <2>7. ASSUME NEW t \in Threads, NEW p \in DataPrefixes, NEW k \in Keys,
               NEW v \in Vals, Update(t, p, k, v)
        PROVE TypeOK'
    BY <2>7, CrudType DEF Update, Obj, EventActions
  <2>8. ASSUME NEW t \in Threads, NEW p \in DataPrefixes, NEW k \in Keys,
               NEW v \in Vals, Save(t, p, k, v)
        PROVE TypeOK'
    BY <2>8, CrudType DEF Save, Obj, EventActions
  <2>9. ASSUME NEW t \in Threads, NEW p \in DataPrefixes, NEW k \in Keys,
               Remove(t, p, k)
        PROVE TypeOK'
    BY <2>9, CrudType DEF Remove, Obj, EventActions
  <2>10. ASSUME NEW t \in Threads, NEW p \in DataPrefixes, NEW k \in Keys,
                NEW nk \in Keys, NEW v \in Vals, Patch(t, p, k, nk, v)
         PROVE TypeOK'
    BY <2>10, CrudType, RTAssumption DEF Patch, Obj, EventActions
  <2>11. ASSUME NEW t \in Threads, EndBody(t) PROVE TypeOK'
    BY <2>11 DEF EndBody, TypeOK, PC
  <2>12. ASSUME NEW t \in Threads, Drain(t) PROVE TypeOK'
    <3>1. runAfter' \in [Threads -> Seq(Event)]
      BY <2>12 DEF Drain, TypeOK
    <3>2. Head(runAfter[t]) \in Event
      BY <2>12 DEF Drain, TypeOK
    <3>3. view' \in [DataPrefixes -> [Keys -> Obj]]
      BY <2>12, <3>2 DEF Drain, Deliver, TypeOK, Event
    <3>4. QED
      BY <2>12, <3>1, <3>3 DEF Drain, TypeOK
  <2>13. ASSUME NEW t \in Threads, Release(t) PROVE TypeOK'
    BY <2>13 DEF Release, TypeOK, PC
  <2>14. QED
    BY <2>1, <2>2, <2>3, <2>4, <2>5, <2>6, <2>7, <2>8, <2>9, <2>10,
       <2>11, <2>12, <2>13 DEF Next, Step

(* TypeOK holds in every reachable state.                                  *)
THEOREM TypeCorrect == Spec => []TypeOK
<1>1. Init => TypeOK
  BY RTAssumption DEF Init, TypeOK, PC, Obj
<1>2. QED
  BY <1>1, TypeStep, PTL DEF Spec

-----------------------------------------------------------------------------
(* A step that changes no variable but ops keeps IInv.                     *)
LEMMA OpsOnlyStep ==
    ASSUME IInv, TypeOK',
           UNCHANGED <<pc, want, owner, runAfter, index, view, renamed>>
    PROVE  IInv'
<1>1. IdleHoldsNothing' /\ AcquiringQueuesNothing' /\ LockedHoldsAll'
      /\ QueuedUnderLock'
  BY DEF IInv, IdleHoldsNothing, AcquiringQueuesNothing, LockedHoldsAll,
         QueuedUnderLock, Held
<1>2. CellConsistent'
  <2> SUFFICES ASSUME NEW p \in DataPrefixes, NEW k \in Keys \ renamed'[p]
               PROVE  CellOK(p, k)'
    BY DEF CellConsistent
  <2>1. CellOK(p, k)
    BY DEF IInv, CellConsistent
  <2>2. QED
    BY <2>1 DEF CellOK, Pending
<1>3. QED
  BY <1>1, <1>2 DEF IInv

(* Initially nothing is held, queued or out of date.                       *)
LEMMA IInvInit == Init => IInv
<1> SUFFICES ASSUME Init PROVE IInv
  OBVIOUS
<1>1. TypeOK
  BY RTAssumption DEF Init, TypeOK, PC, Obj
<1>2. QED
  BY <1>1, RTAssumption DEF Init, IInv, IdleHoldsNothing, AcquiringQueuesNothing,
       LockedHoldsAll, QueuedUnderLock, CellConsistent, CellOK, Pending, Held

(* A committed CRUD call appends an event under the prefix whose lock the  *)
(* caller holds.  When the event names the key written, it is now the last *)
(* one queued for that key and carries the object just stored; when it     *)
(* names another key (a key-changing Patch), both keys leave the set the   *)
(* invariant speaks of, and every other key keeps its queue and its store.  *)
LEMMA CommitStep ==
    ASSUME IInv, TypeOK', NEW t \in Threads, NEW p \in DataPrefixes,
           NEW k \in Keys, NEW act \in EventActions, NEW pk \in Keys,
           NEW val \in Obj,
           pc[t] = "body", p \in want[t],
           Commit(t, p, k, act, pk, val),
           UNCHANGED <<pc, want, owner, view>>
    PROVE  IInv'
<1> DEFINE e == [prefix |-> p, action |-> act, key |-> pk, val |-> val]
           n == Len(runAfter[t])
<1> USE DEF IInv
<1>1. owner[p] = t
  BY RTAssumption DEF LockedHoldsAll, Held
<1>2. /\ runAfter[t] \in Seq(Event)
      /\ n \in Nat
  BY LenProperties DEF TypeOK
<1>3. /\ Len(runAfter'[t]) = n + 1
      /\ runAfter'[t][n + 1] = e
      /\ \A i \in 1 .. n : runAfter'[t][i] = runAfter[t][i]
  BY <1>2, AppendProperties DEF Commit, TypeOK
<1>4. \A u \in Threads \ {t} : runAfter'[u] = runAfter[u]
  BY DEF Commit, TypeOK
<1>5. IdleHoldsNothing'
  BY <1>4 DEF IdleHoldsNothing, Held
<1>6. AcquiringQueuesNothing'
  BY <1>4 DEF AcquiringQueuesNothing
<1>7. LockedHoldsAll'
  BY DEF LockedHoldsAll, Held
<1>8. QueuedUnderLock'
  <2> SUFFICES ASSUME NEW u \in Threads, NEW i \in 1 .. Len(runAfter'[u])
               PROVE  owner'[runAfter'[u][i].prefix] = u
    BY DEF QueuedUnderLock
  <2>1. CASE u = t /\ i = n + 1
    BY <1>1, <1>3, <2>1
  <2>2. CASE u = t /\ i # n + 1
    BY <1>2, <1>3, <2>2 DEF QueuedUnderLock
  <2>3. CASE u # t
    BY <1>4, <2>3 DEF QueuedUnderLock
  <2>4. QED
    BY <2>1, <2>2, <2>3
<1>9. CellConsistent'
  <2> SUFFICES ASSUME NEW p2 \in DataPrefixes, NEW k2 \in Keys \ renamed'[p2]
               PROVE  CellOK(p2, k2)'
    BY DEF CellConsistent
  <2>0. /\ renamed'[p] = IF pk = k THEN renamed[p] \ {k} ELSE renamed[p] \cup {k, pk}
        /\ \A p3 \in DataPrefixes \ {p} : renamed'[p3] = renamed[p3]
    BY DEF Commit, TypeOK
  <2>1. CASE p2 = p /\ k2 = k
    <3>0. pk = k
      BY <2>0, <2>1
    <3>1. Pending(t, p, k)' = Pending(t, p, k) \cup {n + 1}
      BY <1>2, <1>3, <3>0 DEF Pending
    <3>2. Pending(t, p, k) \subseteq 1 .. n
      BY DEF Pending
    <3>3. index'[p][k] = val
      BY DEF Commit, TypeOK
    <3>4. owner'[p2] = t
      BY <1>1, <2>1
    <3>5. n + 1 \in Pending(t, p, k)'
      BY <3>1
    <3>6. ASSUME NEW i \in Pending(t, p, k)',
                 \A j \in Pending(t, p, k)' : j <= i
          PROVE  runAfter'[t][i].val = index'[p][k]
      <4>1. n + 1 <= i
        BY <3>5, <3>6
      <4>2. i \in Pending(t, p, k) \/ i = n + 1
        BY <3>1
      <4>3. i = n + 1
        BY <1>2, <3>2, <4>1, <4>2
      <4>4. QED
        BY <1>3, <3>3, <4>3
    <3>7. QED
      BY <2>1, <3>4, <3>5, <3>6, RTAssumption DEF CellOK
  <2>2. CASE ~(p2 = p /\ k2 = k)
    <3>0. /\ k2 \notin renamed[p2]
          /\ ~(p2 = p /\ k2 = pk)
      BY <2>0, <2>2
    <3>1. index'[p2][k2] = index[p2][k2]
      BY <2>2 DEF Commit, TypeOK
    <3>a. CellOK(p2, k2)
      BY <3>0 DEF CellConsistent
    <3>2. CASE owner[p2] = t
      <4>1. Pending(t, p2, k2)' = Pending(t, p2, k2)
        BY <1>2, <1>3, <3>0 DEF Pending
      <4>2. \A i \in Pending(t, p2, k2) : runAfter'[t][i] = runAfter[t][i]
        BY <1>3 DEF Pending
      <4>3. QED
        BY <3>a, <3>1, <3>2, <4>1, <4>2 DEF CellOK
    <3>3. CASE owner[p2] # t
      <4>1. owner[p2] \in Threads => runAfter'[owner[p2]] = runAfter[owner[p2]]
        BY <1>4, <3>3
      <4>2. QED
        BY <3>a, <3>1, <3>3, <4>1 DEF CellOK, Pending
    <3>4. QED
      BY <3>2, <3>3
  <2>3. QED
    BY <2>1, <2>2
<1>10. QED
  BY <1>5, <1>6, <1>7, <1>8, <1>9

(* Delivering the head of the queue: the remaining events shift down by    *)
(* one, and if the head was the last event of its key, the subscriber now  *)
(* holds the object that event carries, which is the stored one.           *)
LEMMA DrainStep ==
    ASSUME IInv, TypeOK', NEW t \in Threads, Drain(t)
    PROVE  IInv'
<1> DEFINE q == runAfter[t]
           n == Len(q)
           e == Head(q)
<1> USE DEF IInv
<1>1. /\ q \in Seq(Event)
      /\ q # <<>>
      /\ n \in Nat
      /\ n >= 1
  BY LenProperties, EmptySeq DEF Drain, TypeOK
<1>2. /\ e = q[1]
      /\ e \in Event
      /\ runAfter'[t] = Tail(q)
      /\ Len(runAfter'[t]) = n - 1
      /\ \A i \in 1 .. n - 1 : runAfter'[t][i] = q[i + 1]
  BY <1>1, HeadTailProperties DEF Drain, TypeOK
<1>3. owner[e.prefix] = t
  BY <1>1, <1>2 DEF QueuedUnderLock
<1>4. \A u \in Threads \ {t} : runAfter'[u] = runAfter[u]
  BY DEF Drain, TypeOK
<1>5. /\ e.prefix \in DataPrefixes
      /\ e.key \in Keys
      /\ view'[e.prefix][e.key] = e.val
      /\ \A p2 \in DataPrefixes, k2 \in Keys :
            ~(p2 = e.prefix /\ k2 = e.key) => view'[p2][k2] = view[p2][k2]
  BY <1>2 DEF Drain, Deliver, TypeOK, Event
<1>6. /\ owner' = owner /\ pc' = pc /\ want' = want /\ index' = index
  BY DEF Drain
<1>7. IdleHoldsNothing' /\ AcquiringQueuesNothing' /\ LockedHoldsAll'
  BY <1>4, <1>6 DEF Drain, IdleHoldsNothing, AcquiringQueuesNothing,
                    LockedHoldsAll, Held
<1>8. QueuedUnderLock'
  <2> SUFFICES ASSUME NEW u \in Threads, NEW i \in 1 .. Len(runAfter'[u])
               PROVE  owner'[runAfter'[u][i].prefix] = u
    BY DEF QueuedUnderLock
  <2>1. CASE u = t
    <3>0. i \in 1 .. n - 1
      BY <1>2, <2>1
    <3>1. i + 1 \in 1 .. n /\ runAfter'[t][i] = q[i + 1]
      BY <1>1, <1>2, <3>0
    <3>2. owner[q[i + 1].prefix] = t
      BY <3>1 DEF QueuedUnderLock
    <3>3. QED
      BY <1>6, <2>1, <3>1, <3>2
  <2>2. CASE u # t
    BY <1>4, <1>6, <2>2 DEF QueuedUnderLock
  <2>3. QED
    BY <2>1, <2>2
<1>9. CellConsistent'
  <2> SUFFICES ASSUME NEW p2 \in DataPrefixes, NEW k2 \in Keys \ renamed'[p2]
               PROVE  CellOK(p2, k2)'
    BY DEF CellConsistent
  <2>0. CellOK(p2, k2)
    BY DEF CellConsistent, Drain
  <2>1. CASE owner[p2] = t
    <3> DEFINE P == Pending(t, p2, k2)
    <3>1. P = {i \in 1 .. n : q[i].prefix = p2 /\ q[i].key = k2}
      BY DEF Pending
    <3>2. Pending(t, p2, k2)' = {i \in 1 .. n - 1 : q[i + 1].prefix = p2 /\ q[i + 1].key = k2}
      BY <1>2 DEF Pending
    <3>3. \A j \in P : j = 1 \/ j - 1 \in Pending(t, p2, k2)'
      BY <1>1, <3>1, <3>2
    <3>4. \A i \in Pending(t, p2, k2)' : i + 1 \in P
      BY <1>1, <3>1, <3>2
    <3>5. ASSUME NEW i \in Pending(t, p2, k2)',
                 \A j \in Pending(t, p2, k2)' : j <= i
          PROVE  runAfter'[t][i].val = index'[p2][k2]
      <4>0. i \in 1 .. n - 1
        BY <3>2, <3>5
      <4>1. \A j \in P : j <= i + 1
        BY <1>1, <3>1, <3>3, <3>5, <4>0
      <4>2. q[i + 1].val = index[p2][k2]
        BY <2>0, <2>1, <3>4, <4>1 DEF CellOK
      <4>3. QED
        BY <1>2, <1>6, <3>2, <4>2
    <3>6. ASSUME Pending(t, p2, k2)' = {}
          PROVE  view'[p2][k2] = index'[p2][k2]
      <4>1. P \subseteq {1}
        BY <3>3, <3>6
      <4>2. CASE p2 = e.prefix /\ k2 = e.key
        <5>1. P = {1}
          BY <1>1, <1>2, <3>1, <4>1, <4>2
        <5>2. q[1].val = index[p2][k2]
          BY <2>0, <2>1, <5>1 DEF CellOK
        <5>3. QED
          BY <1>2, <1>5, <1>6, <4>2, <5>2
      <4>3. CASE ~(p2 = e.prefix /\ k2 = e.key)
        <5>1. P = {}
          BY <1>1, <1>2, <3>1, <4>1, <4>3
        <5>2. QED
          BY <2>0, <2>1, <1>5, <1>6, <4>3, <5>1 DEF CellOK
      <4>4. QED
        BY <4>2, <4>3
    <3>7. QED
      BY <2>1, <1>6, <3>5, <3>6, RTAssumption DEF CellOK
  <2>2. CASE owner[p2] # t
    <3>1. view'[p2][k2] = view[p2][k2]
      BY <1>3, <1>5, <2>2
    <3>2. owner[p2] \in Threads => runAfter'[owner[p2]] = runAfter[owner[p2]]
      BY <1>4, <2>2
    <3>3. QED
      BY <2>0, <1>6, <3>1, <3>2 DEF CellOK, Pending
  <2>3. QED
    BY <2>1, <2>2
<1>10. QED
  BY <1>7, <1>8, <1>9

(* Release frees only locks whose queue is already drained.                *)
LEMMA ReleaseStep ==
    ASSUME IInv, TypeOK', NEW t \in Threads, Release(t)
    PROVE  IInv'
<1> USE DEF IInv
<1>1. /\ runAfter' = runAfter /\ index' = index /\ view' = view
      /\ renamed' = renamed
      /\ runAfter[t] = <<>>
      /\ pc'[t] = "idle"
      /\ \A u \in Threads \ {t} : pc'[u] = pc[u] /\ want'[u] = want[u]
  BY DEF Release, TypeOK
<1>2. \A p \in Prefixes : owner'[p] = IF owner[p] = t THEN NoThread ELSE owner[p]
  BY DEF Release
<1>3. /\ Held(t)' = {}
      /\ \A u \in Threads \ {t} : Held(u)' = Held(u)
  BY <1>2, RTAssumption DEF Held
<1>4. IdleHoldsNothing'
  BY <1>1, <1>3 DEF IdleHoldsNothing
<1>5. AcquiringQueuesNothing'
  BY <1>1 DEF AcquiringQueuesNothing
<1>6. LockedHoldsAll'
  BY <1>1, <1>3 DEF LockedHoldsAll
<1>7. QueuedUnderLock'
  <2> SUFFICES ASSUME NEW u \in Threads, NEW i \in 1 .. Len(runAfter'[u])
               PROVE  owner'[runAfter'[u][i].prefix] = u
    BY DEF QueuedUnderLock
  <2>1. u # t
    BY <1>1
  <2>a. i \in 1 .. Len(runAfter[u]) /\ runAfter[u] \in Seq(Event)
    BY <1>1 DEF TypeOK
  <2>b. runAfter[u][i] \in Event
    BY <2>a, ElementOfSeq
  <2>2. /\ owner[runAfter[u][i].prefix] = u
        /\ runAfter[u][i].prefix \in Prefixes
    BY <2>a, <2>b, RTAssumption DEF QueuedUnderLock, Event
  <2>3. QED
    BY <1>1, <1>2, <2>1, <2>2
<1>8. CellConsistent'
  <2> SUFFICES ASSUME NEW p \in DataPrefixes, NEW k \in Keys \ renamed'[p]
               PROVE  CellOK(p, k)'
    BY DEF CellConsistent
  <2>0. CellOK(p, k) /\ p \in Prefixes
    BY <1>1, RTAssumption DEF CellConsistent
  <2>1. CASE owner[p] = t
    <3>1. Pending(t, p, k) = {}
      BY <1>1 DEF Pending
    <3>2. view[p][k] = index[p][k]
      BY <2>0, <2>1, <3>1 DEF CellOK
    <3>3. owner'[p] = NoThread
      BY <1>2, <2>0, <2>1
    <3>4. QED
      BY <1>1, <3>2, <3>3, RTAssumption DEF CellOK
  <2>2. CASE owner[p] # t
    BY <1>1, <1>2, <2>0, <2>2 DEF CellOK, Pending
  <2>3. QED
    BY <2>1, <2>2
<1>9. QED
  BY <1>4, <1>5, <1>6, <1>7, <1>8

(* Taking a free lock: the taker has queued nothing yet, and the store of  *)
(* a free prefix is already what subscribers see.                          *)
LEMMA AcquireStep ==
    ASSUME IInv, TypeOK', NEW t \in Threads, Acquire(t)
    PROVE  IInv'
<1> DEFINE l == NextLock(t)
<1> USE DEF IInv
<1>1. /\ runAfter' = runAfter /\ index' = index /\ view' = view
      /\ renamed' = renamed
      /\ pc' = pc /\ want' = want
      /\ pc[t] = "acquiring"
      /\ runAfter[t] = <<>>
      /\ owner[l] = NoThread
      /\ owner' = [owner EXCEPT ![l] = t]
  BY DEF Acquire, AcquiringQueuesNothing
<1>2. \A p \in Prefixes : owner'[p] = IF p = l THEN t ELSE owner[p]
  BY <1>1 DEF TypeOK
<1>3. \A u \in Threads \ {t} : Held(u)' = Held(u)
  BY <1>1, <1>2, RTAssumption DEF Held
<1>4. IdleHoldsNothing' /\ AcquiringQueuesNothing' /\ LockedHoldsAll'
  BY <1>1, <1>3 DEF IdleHoldsNothing, AcquiringQueuesNothing, LockedHoldsAll
<1>5. QueuedUnderLock'
  <2> SUFFICES ASSUME NEW u \in Threads, NEW i \in 1 .. Len(runAfter'[u])
               PROVE  owner'[runAfter'[u][i].prefix] = u
    BY DEF QueuedUnderLock
  <2>1. u # t
    BY <1>1
  <2>a. i \in 1 .. Len(runAfter[u]) /\ runAfter[u] \in Seq(Event)
    BY <1>1 DEF TypeOK
  <2>b. runAfter[u][i] \in Event
    BY <2>a, ElementOfSeq
  <2>2. /\ owner[runAfter[u][i].prefix] = u
        /\ runAfter[u][i].prefix \in Prefixes
    BY <2>a, <2>b, RTAssumption DEF QueuedUnderLock, Event
  <2>3. runAfter[u][i].prefix # l
    BY <1>1, <2>2, RTAssumption
  <2>4. QED
    BY <1>1, <1>2, <2>2, <2>3
<1>6. CellConsistent'
  <2> SUFFICES ASSUME NEW p \in DataPrefixes, NEW k \in Keys \ renamed'[p]
               PROVE  CellOK(p, k)'
    BY DEF CellConsistent
  <2>0. CellOK(p, k) /\ p \in Prefixes
    BY <1>1, RTAssumption DEF CellConsistent
  <2>1. CASE p = l
    <3>1. view[p][k] = index[p][k]
      BY <1>1, <2>0, <2>1 DEF CellOK
    <3>2. owner'[p] = t /\ Pending(t, p, k)' = {}
      BY <1>1, <1>2, <2>0, <2>1 DEF Pending
    <3>3. QED
      BY <1>1, <3>1, <3>2, RTAssumption DEF CellOK
  <2>2. CASE p # l
    BY <1>1, <1>2, <2>0, <2>2 DEF CellOK, Pending
  <2>3. QED
    BY <2>1, <2>2
<1>7. QED
  BY <1>4, <1>5, <1>6

(* Steps that only move the program counter of one RequestTracker.         *)
LEMMA ControlStep ==
    ASSUME IInv, TypeOK', NEW t \in Threads,
           Do(t) \/ AllLocked(t) \/ Locked(t) \/ EndBody(t)
    PROVE  IInv'
<1> USE DEF IInv
<1>1. /\ owner' = owner /\ runAfter' = runAfter /\ index' = index /\ view' = view
      /\ renamed' = renamed
      /\ \A u \in Threads \ {t} : pc'[u] = pc[u] /\ want'[u] = want[u]
  BY DEF Do, AllLocked, Locked, EndBody, TypeOK
<1>2. \A u \in Threads : Held(u)' = Held(u)
  BY <1>1 DEF Held
<1>3. IdleHoldsNothing' /\ AcquiringQueuesNothing' /\ LockedHoldsAll'
  <2>1. CASE Do(t) \/ AllLocked(t)
    <3>1. /\ pc[t] = "idle" /\ pc'[t] = "acquiring"
          /\ \A u \in Threads \ {t} : want'[u] = want[u]
      BY <2>1 DEF Do, AllLocked, TypeOK
    <3>2. runAfter[t] = <<>>
      BY <3>1 DEF IdleHoldsNothing
    <3>3. IdleHoldsNothing'
      BY <1>1, <1>2, <3>1 DEF IdleHoldsNothing
    <3>4. AcquiringQueuesNothing'
      BY <1>1, <3>1, <3>2 DEF AcquiringQueuesNothing
    <3>5. LockedHoldsAll'
      BY <1>1, <1>2, <3>1 DEF LockedHoldsAll
    <3>6. QED
      BY <3>3, <3>4, <3>5
  <2>2. CASE Locked(t)
    BY <1>1, <1>2, <2>2 DEF Locked, IdleHoldsNothing,
       AcquiringQueuesNothing, LockedHoldsAll, TypeOK
  <2>3. CASE EndBody(t)
    BY <1>1, <1>2, <2>3 DEF EndBody, IdleHoldsNothing,
       AcquiringQueuesNothing, LockedHoldsAll, TypeOK
  <2>4. QED
    BY <2>1, <2>2, <2>3
<1>4. QueuedUnderLock' /\ CellConsistent'
  BY <1>1 DEF QueuedUnderLock, CellConsistent, CellOK, Pending
<1>5. QED
  BY <1>3, <1>4

(* One CRUD call of the thunk: either accepted (a Commit) or refused.      *)
LEMMA CrudStep ==
    ASSUME IInv, TypeOK', NEW t \in Threads, NEW p \in DataPrefixes,
           NEW k \in Keys, NEW act \in EventActions, NEW pk \in Keys,
           NEW val \in Obj,
           InBody(t, p),
           Commit(t, p, k, act, pk, val) \/ Refused,
           UNCHANGED <<pc, want, owner, view>>
    PROVE  IInv'
<1>1. pc[t] = "body" /\ p \in want[t]
  BY DEF InBody
<1>2. CASE Commit(t, p, k, act, pk, val)
  BY <1>1, <1>2, CommitStep
<1>3. CASE Refused
  BY <1>3, OpsOnlyStep DEF Refused
<1>4. QED
  BY <1>2, <1>3

(* The inductive invariant is preserved by every step.                     *)
LEMMA IInvStep == IInv /\ [Next]_vars => IInv'
<1> SUFFICES ASSUME IInv, [Next]_vars PROVE IInv'
  OBVIOUS
<1>0. TypeOK'
  BY TypeStep DEF IInv
<1>1. CASE UNCHANGED vars
  <2>1. /\ pc' = pc /\ want' = want /\ owner' = owner /\ ops' = ops
        /\ runAfter' = runAfter /\ index' = index /\ view' = view
        /\ renamed' = renamed
    BY <1>1 DEF vars
  <2>2. QED
    BY <2>1, <1>0, OpsOnlyStep
<1>2. CASE Next
  <2> PICK t \in Threads : Step(t)
    BY <1>2 DEF Next
  <2>1. CASE Do(t) \/ AllLocked(t) \/ Locked(t) \/ EndBody(t)
    BY <2>1, <1>0, ControlStep
  <2>2. CASE Acquire(t)
    BY <2>2, <1>0, AcquireStep
  <2>3. CASE Drain(t)
    BY <2>3, <1>0, DrainStep
  <2>4. CASE Release(t)
    BY <2>4, <1>0, ReleaseStep
  <2>5. CASE \E p \in DataPrefixes, k \in Keys, v \in Vals :
               Create(t, p, k, v) \/ Update(t, p, k, v) \/ Save(t, p, k, v)
    <3> PICK p \in DataPrefixes, k \in Keys, v \in Vals :
               Create(t, p, k, v) \/ Update(t, p, k, v) \/ Save(t, p, k, v)
      BY <2>5
    <3>0. v \in Obj /\ Absent \in Obj
      BY DEF Obj
    <3>1. CASE Create(t, p, k, v)
      BY <3>0, <3>1, <1>0, CrudStep DEF Create, EventActions
    <3>2. CASE Update(t, p, k, v)
      BY <3>0, <3>2, <1>0, CrudStep DEF Update, EventActions
    <3>3. CASE Save(t, p, k, v)
      BY <3>0, <3>3, <1>0, CrudStep DEF Save, EventActions
    <3>4. QED
      BY <3>1, <3>2, <3>3
  <2>6. CASE \E p \in DataPrefixes, k \in Keys : Remove(t, p, k)
    <3> PICK p \in DataPrefixes, k \in Keys : Remove(t, p, k)
      BY <2>6
    <3>0. Absent \in Obj
      BY DEF Obj
    <3>1. QED
      BY <3>0, <1>0, CrudStep DEF Remove, EventActions
  <2>7. CASE \E p \in DataPrefixes, k, nk \in Keys, v \in Vals : Patch(t, p, k, nk, v)
    <3> PICK p \in DataPrefixes, k, nk \in Keys, v \in Vals : Patch(t, p, k, nk, v)
      BY <2>7
    <3>0. v \in Obj
      BY DEF Obj
    <3>1. InBody(t, p) /\ UNCHANGED <<pc, want, owner, view>>
      BY DEF Patch
    <3>2. Commit(t, p, nk, "update", k, v) \/ Refused
      <4>1. CASE index[p][k] # Absent /\ nk \in PatchKeys[k]
                 /\ (Commit(t, p, nk, "update", k, v) \/ Refused)
        BY <4>1
      <4>2. CASE index[p][k] = Absent /\ Refused
        BY <4>2
      <4>3. QED
        BY <4>1, <4>2 DEF Patch
    <3>3. QED
      BY <3>0, <3>1, <3>2, <1>0, CrudStep DEF EventActions
  <2>8. QED
    BY <2>1, <2>2, <2>3, <2>4, <2>5, <2>6, <2>7 DEF Step
<1>3. QED
  BY <1>1, <1>2

(* RequestTracker.unlocker delivers every event queued under a lock before *)
(* the lock is released, so whenever a prefix is unlocked the subscribers' *)
(* replay equals the store at every key that no key-changing Patch has     *)
(* touched since its last own write (ViewConsistentUnlessRenamed), for     *)
(* every number of threads, prefixes, keys and values and every patch.     *)
THEOREM ViewConsistency == Spec => []ViewConsistentUnlessRenamed
<1>1. IInv => ViewConsistentUnlessRenamed
  BY DEF IInv, CellConsistent, CellOK, ViewConsistentUnlessRenamed
<1>2. QED
  BY <1>1, IInvInit, IInvStep, PTL DEF Spec

-----------------------------------------------------------------------------
(* Lock order.  lockEnts takes the deduplicated lock set one lock at a    *)
(* time, least ranked first; a RequestTracker thus holds only locks ranked *)
(* below every lock it still waits for.                                    *)

\* Among the locks still to take, NextLock is one of least rank: Rank maps
\* into Nat, where < is well founded.
LEMMA NextLockLeast ==
    ASSUME TypeOK, NEW t \in Threads, want[t] \ Held(t) # {}
    PROVE  /\ NextLock(t) \in want[t] \ Held(t)
           /\ \A q \in want[t] \ Held(t) : Rank[NextLock(t)] <= Rank[q]
<1> DEFINE W == want[t] \ Held(t)
           R == {Rank[p] : p \in W}
<1>1. W \subseteq Prefixes /\ R \subseteq Nat /\ R # {}
  BY RTAssumption DEF TypeOK
<1>2. PICK r \in R : \A y \in R : ~(<<y, r>> \in OpToRel(<, Nat))
  BY <1>1, NatLessThanWellFounded, WFMin
<1>3. \A y \in R : r <= y
  <2> SUFFICES ASSUME NEW y \in R PROVE r <= y
    OBVIOUS
  <2>1. <<y, r>> \in Nat \X Nat
    BY <1>1
  <2>2. ~(y < r)
    BY <1>2, <2>1 DEF OpToRel
  <2>. QED
    BY <1>1, <2>2
<1>4. \E p \in W : \A q \in W : Rank[p] <= Rank[q]
  BY <1>3
<1>. QED
  BY <1>4 DEF NextLock

LockOrder ==
    /\ \A t \in Threads : pc[t] = "idle" => Held(t) = {}
    /\ \A t \in Threads : pc[t] = "acquiring" =>
          /\ Held(t) \subseteq want[t]
          /\ \A h \in Held(t), q \in want[t] \ Held(t) : Rank[h] < Rank[q]

OInv == TypeOK /\ LockOrder

\* A step that leaves the program counters, lock sets and owners alone.
LEMMA LockOrderFrame ==
    ASSUME LockOrder, UNCHANGED <<pc, want, owner>>
    PROVE  LockOrder'
BY DEF LockOrder, Held

LEMMA LockOrderStep == OInv /\ [Next]_vars => LockOrder'
<1> SUFFICES ASSUME TypeOK, LockOrder, [Next]_vars PROVE LockOrder'
  BY DEF OInv
<1>1. CASE UNCHANGED vars
  BY <1>1, LockOrderFrame DEF vars
<1>2. ASSUME NEW t \in Threads, Do(t) \/ AllLocked(t) PROVE LockOrder'
  <2>1. pc[t] = "idle" /\ pc' = [pc EXCEPT ![t] = "acquiring"] /\ owner' = owner
        /\ want' = [want EXCEPT ![t] = want'[t]]
    BY <1>2 DEF Do, AllLocked, TypeOK
  <2>2. Held(t) = {} /\ \A u \in Threads : Held(u)' = Held(u)
    BY <2>1 DEF LockOrder, Held
  <2>. QED
    BY <2>1, <2>2 DEF LockOrder, TypeOK
<1>3. ASSUME NEW t \in Threads, Acquire(t) PROVE LockOrder'
  <2> DEFINE l == NextLock(t)
  <2>1. /\ pc' = pc /\ want' = want /\ pc[t] = "acquiring"
        /\ want[t] \ Held(t) # {} /\ owner[l] = NoThread
        /\ owner' = [owner EXCEPT ![l] = t]
    BY <1>3 DEF Acquire
  <2>2. l \in want[t] \ Held(t) /\ \A q \in want[t] \ Held(t) : Rank[l] <= Rank[q]
    BY <2>1, NextLockLeast
  <2>3. l \in Prefixes /\ Held(t)' = Held(t) \cup {l}
    BY <2>1, <2>2 DEF TypeOK, Held
  <2>4. \A u \in Threads \ {t} : Held(u)' = Held(u)
    BY <2>1, <2>3, RTAssumption DEF TypeOK, Held
  <2>5. Held(t)' \subseteq want[t]'
    BY <2>1, <2>2, <2>3 DEF LockOrder
  <2>6. \A h \in Held(t)', q \in want[t]' \ Held(t)' : Rank[h] < Rank[q]
    <3> SUFFICES ASSUME NEW h \in Held(t)', NEW q \in want[t] \ Held(t)'
                 PROVE  Rank[h] < Rank[q]
      BY <2>1
    <3>1. q \in want[t] \ Held(t) /\ q # l /\ q \in Prefixes
      BY <2>3 DEF TypeOK
    <3>2. CASE h = l
      <4>1. Rank[l] <= Rank[q] /\ Rank[l] # Rank[q]
        BY <2>2, <2>3, <3>1, RTAssumption
      <4>. QED
        BY <2>3, <3>1, <3>2, <4>1, RTAssumption
    <3>3. CASE h # l
      BY <2>1, <2>3, <3>1, <3>3 DEF LockOrder
    <3>. QED
      BY <3>2, <3>3
  <2>7. \A u \in Threads : pc[u] = "idle" => Held(u)' = {}
    BY <2>1, <2>4 DEF LockOrder
  <2>. QED
    BY <2>1, <2>4, <2>5, <2>6, <2>7 DEF LockOrder
<1>4. ASSUME NEW t \in Threads, Locked(t) \/ EndBody(t) PROVE LockOrder'
  <2>1. /\ owner' = owner /\ want' = want
        /\ pc[t] \in {"acquiring", "body"}
        /\ pc' = [pc EXCEPT ![t] = IF pc[t] = "acquiring" THEN "body" ELSE "draining"]
    BY <1>4 DEF Locked, EndBody, TypeOK
  <2>. QED
    BY <2>1 DEF LockOrder, Held, TypeOK
<1>5. ASSUME NEW t \in Threads, Release(t) PROVE LockOrder'
  <2>1. /\ pc[t] = "draining" /\ pc' = [pc EXCEPT ![t] = "idle"]
        /\ want' = [want EXCEPT ![t] = {}]
        /\ owner' = [p \in Prefixes |-> IF owner[p] = t THEN NoThread ELSE owner[p]]
    BY <1>5 DEF Release
  <2>2. Held(t)' = {} /\ \A u \in Threads \ {t} : Held(u)' = Held(u)
    BY <2>1, RTAssumption DEF Held
  <2>. QED
    BY <2>1, <2>2 DEF LockOrder, TypeOK
<1>6. ASSUME NEW t \in Threads, Drain(t) PROVE LockOrder'
  BY <1>6, LockOrderFrame DEF Drain
<1>7. ASSUME NEW t \in Threads,
             \/ \E p \in DataPrefixes, k \in Keys, v \in Vals :
                   Create(t, p, k, v) \/ Update(t, p, k, v) \/ Save(t, p, k, v)
             \/ \E p \in DataPrefixes, k \in Keys : Remove(t, p, k)
             \/ \E p \in DataPrefixes, k, nk \in Keys, v \in Vals : Patch(t, p, k, nk, v)
      PROVE  LockOrder'
  BY <1>7, LockOrderFrame DEF Create, Update, Save, Remove, Patch
<1>. QED
  BY <1>1, <1>2, <1>3, <1>4, <1>5, <1>6, <1>7 DEF Next, Step

(* For every set of threads, prefixes and declared lock lists, a           *)
(* RequestTracker waiting in lockEnts holds no lock ranked at or after the *)
(* one it waits for, so waits follow the rank order and no cycle of        *)
(* RequestTrackers waiting on each other can form.                          *)
THEOREM CanonicalAcquisitionHolds == Spec => []CanonicalAcquisition
<1>1. Init => OInv
  <2>1. Init => TypeOK
    BY RTAssumption DEF Init, TypeOK, PC, Obj
  <2>2. Init => LockOrder
    BY RTAssumption DEF Init, LockOrder, Held
  <2>. QED
    BY <2>1, <2>2 DEF OInv
<1>2. OInv /\ [Next]_vars => OInv'
  BY TypeStep, LockOrderStep DEF OInv
<1>3. OInv => CanonicalAcquisition
  <2> SUFFICES ASSUME OInv, NEW t \in Threads, pc[t] = "acquiring",
                      want[t] \ Held(t) # {}, NEW h \in Held(t)
               PROVE  Rank[h] < Rank[NextLock(t)]
    BY DEF CanonicalAcquisition
  <2>1. NextLock(t) \in want[t] \ Held(t)
    BY NextLockLeast DEF OInv
  <2>. QED
    BY <2>1 DEF OInv, LockOrder
<1>. QED
  BY <1>1, <1>2, <1>3, PTL DEF Spec

-----------------------------------------------------------------------------
(* Refinement of the atomic Do.  A running body holds exactly its lock     *)
(* set, and that set is one it may take; with the lock order, a lock a     *)
(* thread takes in lockEnts becomes visible to the atomic Do only at       *)
(* Locked, when the whole set is held.                                     *)

RunHeld == \A t \in Threads : pc[t] \in {"body", "draining"} => Held(t) = want[t]

WantSet == \A t \in Threads : pc[t] # "idle" => want[t] \in LockSets[t]

RInv == OInv /\ RunHeld /\ WantSet

LEMMA RunStep == RInv /\ [Next]_vars => (RunHeld /\ WantSet)'
<1> SUFFICES ASSUME TypeOK, LockOrder, RunHeld, WantSet, [Next]_vars
             PROVE  RunHeld' /\ WantSet'
  BY DEF RInv, OInv
<1> DEFINE Frame == UNCHANGED <<pc, want, owner>>
<1>0. Frame => RunHeld' /\ WantSet'
  BY DEF RunHeld, WantSet, Held, LockSets, LockSet
<1>1. CASE UNCHANGED vars
  BY <1>1, <1>0 DEF vars
<1>2. ASSUME NEW t \in Threads, Do(t) \/ AllLocked(t) PROVE RunHeld' /\ WantSet'
  <2>0. LockSet(t) \in LockSets[t] /\ (t \in AllLockers => Prefixes \in LockSets[t])
    BY DEF LockSets
  <2>3. PICK S \in LockSets[t] :
          /\ pc[t] = "idle" /\ pc' = [pc EXCEPT ![t] = "acquiring"]
          /\ want' = [want EXCEPT ![t] = S] /\ owner' = owner
    BY <1>2, <2>0 DEF Do, AllLocked
  <2>1. RunHeld'
    <3> SUFFICES ASSUME NEW u \in Threads, pc'[u] \in {"body", "draining"}
                 PROVE  Held(u)' = want'[u]
      BY DEF RunHeld
    <3>1. u # t /\ pc'[u] = pc[u] /\ want'[u] = want[u]
      BY <2>3 DEF TypeOK
    <3>2. Held(u)' = Held(u)
      BY <2>3 DEF Held
    <3>. QED
      BY <3>1, <3>2 DEF RunHeld
  <2>2. WantSet'
    <3> SUFFICES ASSUME NEW u \in Threads, pc'[u] # "idle"
                 PROVE  want'[u] \in LockSets[u]
      BY DEF WantSet
    <3>1. CASE u = t
      BY <3>1, <2>3 DEF TypeOK
    <3>2. CASE u # t
      BY <3>2, <2>3 DEF TypeOK, WantSet
    <3>. QED
      BY <3>1, <3>2
  <2>. QED
    BY <2>1, <2>2
<1>3. ASSUME NEW t \in Threads, Acquire(t) PROVE RunHeld' /\ WantSet'
  <2>1. /\ pc' = pc /\ want' = want /\ pc[t] = "acquiring"
        /\ owner[NextLock(t)] = NoThread /\ owner' = [owner EXCEPT ![NextLock(t)] = t]
    BY <1>3 DEF Acquire
  <2>2. \A u \in Threads \ {t} : Held(u)' = Held(u)
    BY <2>1, RTAssumption DEF TypeOK, Held
  <2>. QED
    BY <2>1, <2>2 DEF RunHeld, WantSet, LockSets, LockSet
<1>4. ASSUME NEW t \in Threads, Locked(t) PROVE RunHeld' /\ WantSet'
  <2>1. /\ pc[t] = "acquiring" /\ want[t] \subseteq Held(t)
        /\ pc' = [pc EXCEPT ![t] = "body"] /\ owner' = owner /\ want' = want
    BY <1>4 DEF Locked
  <2>2. Held(t) \subseteq want[t]
    BY <2>1 DEF LockOrder
  <2>6. want[t] \subseteq Held(t)
    BY <2>1
  <2>3. Held(t) = want[t]
    BY <2>2, <2>6, Zenon
  <2>4. RunHeld'
    <3> SUFFICES ASSUME NEW u \in Threads, pc'[u] \in {"body", "draining"}
                 PROVE  Held(u)' = want'[u]
      BY DEF RunHeld
    <3>1. Held(u)' = Held(u)
      BY <2>1 DEF Held
    <3>2. CASE u = t
      BY <3>1, <3>2, <2>1, <2>3
    <3>3. CASE u # t
      BY <3>1, <3>3, <2>1 DEF RunHeld, TypeOK
    <3>. QED
      BY <3>2, <3>3
  <2>5. WantSet'
    BY <2>1 DEF WantSet, TypeOK
  <2>. QED
    BY <2>4, <2>5
<1>5. ASSUME NEW t \in Threads, EndBody(t) PROVE RunHeld' /\ WantSet'
  <2>1. /\ pc[t] = "body" /\ pc' = [pc EXCEPT ![t] = "draining"]
        /\ owner' = owner /\ want' = want
    BY <1>5 DEF EndBody
  <2>. QED
    BY <2>1 DEF RunHeld, WantSet, Held, LockSets, LockSet, TypeOK
<1>6. ASSUME NEW t \in Threads, Release(t) PROVE RunHeld' /\ WantSet'
  <2>1. /\ pc' = [pc EXCEPT ![t] = "idle"] /\ want' = [want EXCEPT ![t] = {}]
        /\ owner' = [p \in Prefixes |-> IF owner[p] = t THEN NoThread ELSE owner[p]]
    BY <1>6 DEF Release
  <2>2. \A u \in Threads \ {t} : Held(u)' = Held(u)
    BY <2>1, RTAssumption DEF Held
  <2>. QED
    BY <2>1, <2>2 DEF RunHeld, WantSet, LockSets, LockSet, TypeOK
<1>7. ASSUME NEW t \in Threads,
             \/ Drain(t)
             \/ \E p \in DataPrefixes, k \in Keys, v \in Vals :
                   Create(t, p, k, v) \/ Update(t, p, k, v) \/ Save(t, p, k, v)
             \/ \E p \in DataPrefixes, k \in Keys : Remove(t, p, k)
             \/ \E p \in DataPrefixes, k, nk \in Keys, v \in Vals : Patch(t, p, k, nk, v)
      PROVE  RunHeld' /\ WantSet'
  BY <1>7, <1>0 DEF Drain, Create, Update, Save, Remove, Patch
<1>. QED
  BY <1>1, <1>2, <1>3, <1>4, <1>5, <1>6, <1>7 DEF Next, Step

LEMMA RInvStep == RInv /\ [Next]_vars => RInv'
BY TypeStep, LockOrderStep, RunStep DEF RInv, OInv

LEMMA RInvInit == Init => RInv
<1> SUFFICES ASSUME Init PROVE RInv
  OBVIOUS
<1>1. TypeOK
  BY RTAssumption DEF Init, TypeOK, PC, Obj
<1>2. LockOrder /\ RunHeld /\ WantSet
  BY RTAssumption DEF Init, LockOrder, RunHeld, WantSet, Held
<1>. QED
  BY <1>1, <1>2 DEF RInv, OInv

\* The lock owners the atomic Do sees: only a running body holds a lock.
AOwner == [p \in Prefixes |-> IF owner[p] \in Running THEN owner[p] ELSE NoThread]

LEMMA InitRefines == Init => RA!Init
BY RTAssumption DEF Init, RA!Init, Running

\* A step that starts or ends no body, moves no lock a body holds and
\* writes no store is a stutter of the atomic Do.
LEMMA Stutter ==
    ASSUME Running' = Running, AOwner' = AOwner, index' = index
    PROVE  UNCHANGED RA!vars
BY DEF RA!vars, AOwner

\* A CRUD call of a running body is a Write of the atomic Do, or a stutter
\* when it is refused.
LEMMA CrudRefines ==
    ASSUME RInv, NEW t \in Threads, NEW p \in DataPrefixes, NEW k \in Keys,
           NEW act, NEW pk, NEW val \in Obj,
           InBody(t, p), Commit(t, p, k, act, pk, val) \/ Refused,
           UNCHANGED <<pc, want, owner>>
    PROVE  [RA!Next]_RA!vars
<1>1. Running' = Running /\ AOwner' = AOwner
  BY DEF Running, AOwner
<1>2. CASE Refused
  BY <1>1, <1>2, Stutter DEF Refused
<1>3. CASE Commit(t, p, k, act, pk, val)
  <2>1. t \in Running /\ p \in want[t]
    BY DEF InBody, Running
  <2>2. owner[p] = t
    BY <2>1 DEF RInv, RunHeld, Running, Held
  <2>3. AOwner[p] = t
    BY <2>1, <2>2, RTAssumption DEF AOwner
  <2>4. RA!Write(t, p, k, val)
    BY <1>1, <1>3, <2>1, <2>3 DEF RA!Write, Commit, AOwner
  <2>. QED
    BY <2>4 DEF RA!Next, Obj
<1>. QED
  BY <1>2, <1>3

LEMMA StepRefines == RInv /\ [Next]_vars => [RA!Next]_RA!vars
<1> SUFFICES ASSUME RInv, [Next]_vars PROVE [RA!Next]_RA!vars
  OBVIOUS
<1>0. TypeOK /\ LockOrder /\ RunHeld /\ WantSet
  BY DEF RInv, OInv
<1>1. CASE UNCHANGED vars
  BY <1>1, Stutter DEF vars, Running, AOwner
<1>2. ASSUME NEW t \in Threads, Do(t) \/ AllLocked(t) PROVE [RA!Next]_RA!vars
  <2>1. pc[t] = "idle" /\ pc' = [pc EXCEPT ![t] = "acquiring"]
        /\ owner' = owner /\ index' = index
    BY <1>2 DEF Do, AllLocked
  <2>2. Running' = Running
    BY <2>1, <1>0 DEF Running, TypeOK
  <2>. QED
    BY <2>1, <2>2, Stutter DEF AOwner
<1>3. ASSUME NEW t \in Threads, Acquire(t) PROVE [RA!Next]_RA!vars
  <2> DEFINE l == NextLock(t)
  <2>1. /\ pc' = pc /\ pc[t] = "acquiring" /\ index' = index
        /\ owner[l] = NoThread /\ owner' = [owner EXCEPT ![l] = t]
        /\ want[t] \ Held(t) # {}
    BY <1>3 DEF Acquire
  <2>2. l \in Prefixes
    BY <2>1, <1>0, NextLockLeast DEF TypeOK
  <2>3. Running' = Running /\ t \notin Running /\ NoThread \notin Running
    BY <2>1, RTAssumption DEF Running
  <2>4. AOwner' = AOwner
    <3> SUFFICES ASSUME NEW p \in Prefixes PROVE AOwner'[p] = AOwner[p]
      BY DEF AOwner
    <3>1. CASE p = l
      BY <3>1, <2>1, <2>2, <2>3, <1>0 DEF AOwner, TypeOK
    <3>2. CASE p # l
      BY <3>2, <2>1, <2>3, <1>0 DEF AOwner, TypeOK
    <3>. QED
      BY <3>1, <3>2
  <2>. QED
    BY <2>1, <2>3, <2>4, Stutter
<1>4. ASSUME NEW t \in Threads, Locked(t) PROVE [RA!Next]_RA!vars
  <2>1. /\ pc[t] = "acquiring" /\ want[t] \subseteq Held(t)
        /\ pc' = [pc EXCEPT ![t] = "body"]
        /\ UNCHANGED <<want, owner, index>>
    BY <1>4 DEF Locked
  <2>2. Held(t) \subseteq want[t] /\ want[t] \in LockSets[t] /\ want[t] \subseteq Prefixes
    BY <2>1, <1>0 DEF LockOrder, WantSet, TypeOK
  <2>3. t \notin Running /\ Running' = Running \cup {t}
    BY <2>1, <1>0 DEF Running, TypeOK
  <2>4. \A p \in want[t] : AOwner[p] = NoThread
    BY <2>1, <2>2, <2>3 DEF AOwner, Held
  <2>5. AOwner' = [p \in Prefixes |-> IF p \in want[t] THEN t ELSE AOwner[p]]
    <3> SUFFICES ASSUME NEW p \in Prefixes
                 PROVE  AOwner'[p] = IF p \in want[t] THEN t ELSE AOwner[p]
      BY DEF AOwner
    <3>1. CASE p \in want[t]
      BY <3>1, <2>1, <2>3 DEF AOwner, Held
    <3>2. CASE p \notin want[t]
      <4>1. owner[p] # t
        BY <3>2, <2>2 DEF Held
      <4>. QED
        BY <3>2, <4>1, <2>1, <2>3 DEF AOwner
    <3>. QED
      BY <3>1, <3>2
  <2>6. \E S \in SUBSET Prefixes : RA!Begin(t, S)
    BY <2>1, <2>2, <2>3, <2>4, <2>5 DEF RA!Begin, AOwner
  <2>. QED
    BY <2>6 DEF RA!Next
<1>5. ASSUME NEW t \in Threads, EndBody(t) \/ Drain(t) PROVE [RA!Next]_RA!vars
  <2>1. /\ pc[t] \in {"body", "draining"}
        /\ pc' = [pc EXCEPT ![t] = pc'[t]] /\ pc'[t] \in {"body", "draining"}
        /\ UNCHANGED <<owner, index>>
    BY <1>5, <1>0 DEF EndBody, Drain, TypeOK
  <2>2. Running' = Running
    BY <2>1, <1>0 DEF Running, TypeOK
  <2>. QED
    BY <2>1, <2>2, Stutter DEF AOwner
<1>6. ASSUME NEW t \in Threads, Release(t) PROVE [RA!Next]_RA!vars
  <2>1. /\ pc[t] = "draining" /\ pc' = [pc EXCEPT ![t] = "idle"]
        /\ owner' = [p \in Prefixes |-> IF owner[p] = t THEN NoThread ELSE owner[p]]
        /\ index' = index
    BY <1>6 DEF Release
  <2>2. t \in Running /\ Running' = Running \ {t} /\ NoThread \notin Running
    BY <2>1, <1>0, RTAssumption DEF Running, TypeOK
  <2>3. AOwner' = [p \in Prefixes |-> IF AOwner[p] = t THEN NoThread ELSE AOwner[p]]
    <3> SUFFICES ASSUME NEW p \in Prefixes
                 PROVE  AOwner'[p] = IF AOwner[p] = t THEN NoThread ELSE AOwner[p]
      BY DEF AOwner
    <3>1. CASE owner[p] = t
      BY <3>1, <2>1, <2>2, RTAssumption DEF AOwner
    <3>2. CASE owner[p] # t
      BY <3>2, <2>1, <2>2, RTAssumption DEF AOwner
    <3>. QED
      BY <3>1, <3>2
  <2>4. RA!End(t)
    BY <2>1, <2>2, <2>3 DEF RA!End, AOwner
  <2>. QED
    BY <2>4 DEF RA!Next
<1>7. ASSUME NEW t \in Threads, NEW p \in DataPrefixes, NEW k \in Keys, NEW v \in Vals,
             Create(t, p, k, v) \/ Update(t, p, k, v) \/ Save(t, p, k, v)
      PROVE  [RA!Next]_RA!vars
  <2>1. v \in Obj
    BY DEF Obj
  <2>. QED
    BY <1>7, <1>0, <2>1, CrudRefines DEF Create, Update, Save
<1>8. ASSUME NEW t \in Threads, NEW p \in DataPrefixes, NEW k \in Keys, Remove(t, p, k)
      PROVE  [RA!Next]_RA!vars
  <2>1. Absent \in Obj
    BY DEF Obj
  <2>. QED
    BY <1>8, <1>0, <2>1, CrudRefines DEF Remove
<1>9. ASSUME NEW t \in Threads, NEW p \in DataPrefixes, NEW k \in Keys, NEW nk \in Keys,
             NEW v \in Vals, Patch(t, p, k, nk, v)
      PROVE  [RA!Next]_RA!vars
  <2>1. v \in Obj
    BY DEF Obj
  <2>. QED
    BY <1>9, <1>0, <2>1, CrudRefines DEF Patch
<1>. QED
  BY <1>1, <1>2, <1>3, <1>4, <1>5, <1>6, <1>7, <1>8, <1>9 DEF Next, Step

(* Spec 4.4: a Do runs its thunk as if it took the whole lock set in one   *)
(* step and released it in one, with no other body on those prefixes in   *)
(* between; lockEnts' one-at-a-time acquisition in rank order implements   *)
(* the atomic Do under the mapping RA.                                     *)
THEOREM AtomicDoHolds == Spec => AtomicDo
<1>1. Init => RInv /\ RA!Init
  BY RInvInit, InitRefines
<1>2. RInv /\ [Next]_vars => RInv' /\ [RA!Next]_RA!vars
  BY RInvStep, StepRefines
<1>. QED
  BY <1>1, <1>2, PTL DEF Spec, AtomicDo, RA!Spec

=============================================================================
