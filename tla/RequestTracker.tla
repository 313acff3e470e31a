--------------------------- MODULE RequestTracker ---------------------------
(***************************************************************************)
(* The transactional scope of the provisioning engine                     *)
(* (src/backend/requestTracker.go).  Each thread is one RequestTracker     *)
(* serving a request: Do (or AllLocked) takes the prefix locks of its      *)
(* declared lock set through the DataTracker's lock manager, the thunk     *)
(* issues CRUD calls against the stores of the locked prefixes, every      *)
(* successful write queues its event on toRunAfter, and unlocker runs the  *)
(* queued thunks and then releases the locks.                              *)
(*                                                                         *)
(* A CRUD call is one step: it runs in the goroutine that holds the lock   *)
(* of its prefix, so no other request can read or write that store in the *)
(* middle of it.  The write-through to the backing store and the index     *)
(* update are abstracted to their joint outcome: the write is accepted     *)
(* (index updated, event queued) or refused (validation or durable-store   *)
(* error, nothing changed).                                                *)
(*                                                                         *)
(* view is the state an event subscriber reconstructs from the events it  *)
(* has been delivered, applied in delivery order.                          *)
(***************************************************************************)
EXTENDS Integers, Sequences, FiniteSets

CONSTANTS
    Threads,       \* the concurrent RequestTrackers
    Prefixes,      \* the lockable object kinds ("bootenvs", "stages", ...)
    DataPrefixes,  \* the prefixes whose store contents the model tracks
    Rank,          \* position of a prefix in sorted (canonical) order
    Declared,      \* Declared[t]: the lock list t was created with (Locks(action))
    AllLockers,    \* the threads that may call AllLocked
    Keys,          \* object keys
    EmptyKey,      \* the key ""
    PatchKeys,     \* PatchKeys[k]: keys a JSON patch of object k may leave it with
    Vals,          \* object contents, abstracted
    Absent,        \* no object under this key
    NoThread,      \* owner of a free lock
    MaxOps         \* bound on CRUD calls inside one Do

ASSUME RTAssumption ==
    /\ DataPrefixes \subseteq Prefixes
    /\ Rank \in [Prefixes -> Nat]
    /\ \A p, q \in Prefixes : Rank[p] = Rank[q] => p = q
    /\ Declared \in [Threads -> Seq(Prefixes)]
    /\ AllLockers \subseteq Threads
    /\ EmptyKey \in Keys
    /\ PatchKeys \in [Keys -> SUBSET Keys]
    /\ \A k \in Keys : k \in PatchKeys[k]
    /\ Absent \notin Vals
    /\ NoThread \notin Threads
    /\ MaxOps \in Nat

VARIABLES
    pc,        \* where each RequestTracker is in Do / unlocker
    want,      \* the lock set being acquired or held (rt.locks, deduplicated)
    owner,     \* owner[p]: the thread holding the lock of prefix p
    ops,       \* CRUD calls made in the current Do
    runAfter,  \* rt.toRunAfter: queued events of each RequestTracker
    index,     \* index[p][k]: the in-memory store of prefix p
    view,      \* view[p][k]: what an event subscriber believes
    renamed    \* renamed[p]: keys a key-changing Patch has touched since
               \* their last own write (history only, read by no action)

vars == <<pc, want, owner, ops, runAfter, index, view, renamed>>

Obj == Vals \cup {Absent}
EventActions == {"create", "update", "save", "delete"}
Event == [prefix : DataPrefixes, action : EventActions, key : Keys, val : Obj]
PC == {"idle", "acquiring", "body", "draining"}

LockSet(t) == {Declared[t][i] : i \in 1 .. Len(Declared[t])}
Held(t) == {p \in Prefixes : owner[p] = t}

-----------------------------------------------------------------------------
(* The lock manager (DataTracker.lockEnts): the declared prefixes are      *)
(* deduplicated and taken one at a time in sorted order.                   *)
\* Variant: the locks are taken in the order the caller declared them.
DeclaredNextLock(t) ==
    IF \E i \in 1 .. Len(Declared[t]) : Declared[t][i] \in want[t] \ Held(t)
    THEN LET i == CHOOSE i \in 1 .. Len(Declared[t]) :
                    /\ Declared[t][i] \in want[t] \ Held(t)
                    /\ \A j \in 1 .. i - 1 : Declared[t][j] \notin want[t] \ Held(t)
         IN Declared[t][i]
    ELSE CHOOSE p \in want[t] \ Held(t) : TRUE

NextLock(t) ==
    CHOOSE p \in want[t] \ Held(t) :
        \A q \in want[t] \ Held(t) : Rank[p] <= Rank[q]

Init ==
    /\ pc = [t \in Threads |-> "idle"]
    /\ want = [t \in Threads |-> {}]
    /\ owner = [p \in Prefixes |-> NoThread]
    /\ ops = [t \in Threads |-> 0]
    /\ runAfter = [t \in Threads |-> <<>>]
    /\ index = [p \in DataPrefixes |-> [k \in Keys |-> Absent]]
    /\ view = index
    /\ renamed = [p \in DataPrefixes |-> {}]

\* Do(thunk): rt.d is nil (not re-entered); start taking rt.locks.
Do(t) ==
    /\ pc[t] = "idle"
    /\ pc' = [pc EXCEPT ![t] = "acquiring"]
    /\ want' = [want EXCEPT ![t] = LockSet(t)]
    /\ UNCHANGED <<owner, ops, runAfter, index, view, renamed>>

\* AllLocked(thunk): take every prefix lock.
AllLocked(t) ==
    /\ t \in AllLockers
    /\ pc[t] = "idle"
    /\ pc' = [pc EXCEPT ![t] = "acquiring"]
    /\ want' = [want EXCEPT ![t] = Prefixes]
    /\ UNCHANGED <<owner, ops, runAfter, index, view, renamed>>

\* Variant: the mutex is taken without waiting for its holder.
AcquireNoWait(t) ==
    /\ pc[t] = "acquiring"
    /\ want[t] \ Held(t) # {}
    /\ owner' = [owner EXCEPT ![NextLock(t)] = t]
    /\ UNCHANGED <<pc, want, ops, runAfter, index, view, renamed>>

\* One mutex of the lock set, blocking until it is free.
Acquire(t) ==
    /\ pc[t] = "acquiring"
    /\ want[t] \ Held(t) # {}
    /\ owner[NextLock(t)] = NoThread
    /\ owner' = [owner EXCEPT ![NextLock(t)] = t]
    /\ UNCHANGED <<pc, want, ops, runAfter, index, view, renamed>>

\* All locks taken: rt.d = d, the thunk starts.
Locked(t) ==
    /\ pc[t] = "acquiring"
    /\ want[t] \subseteq Held(t)
    /\ pc' = [pc EXCEPT ![t] = "body"]
    /\ ops' = [ops EXCEPT ![t] = 0]
    /\ UNCHANGED <<want, owner, runAfter, index, view, renamed>>

-----------------------------------------------------------------------------
(* CRUD calls inside the thunk.  rt.d(prefix) is nil for a prefix outside  *)
(* the lock set, so a call is only possible on a locked prefix.            *)
\* Variant: the bound on calls checked off by one.
InBodyOffByOne(t, p) ==
    /\ pc[t] = "body"
    /\ p \in want[t] \cap DataPrefixes
    /\ ops[t] <= MaxOps
    /\ ops' = [ops EXCEPT ![t] = @ + 1]

InBody(t, p) ==
    /\ pc[t] = "body"
    /\ p \in want[t] \cap DataPrefixes
    /\ ops[t] < MaxOps
    /\ ops' = [ops EXCEPT ![t] = @ + 1]

\* The write is accepted: idx.Add / idx.Remove, then rt.Publish queues a
\* cloned snapshot because rt.d # nil.  The event names key pk; when it is
\* not the key k written (a Patch that changed the key), both keys are
\* recorded in renamed, and a write whose event names its own key clears it.
Commit(t, p, k, act, pk, val) ==
    /\ index' = [index EXCEPT ![p][k] = val]
    /\ runAfter' = [runAfter EXCEPT ![t] =
                      Append(@, [prefix |-> p, action |-> act, key |-> pk, val |-> val])]
    /\ renamed' = [renamed EXCEPT ![p] = IF pk = k THEN @ \ {k} ELSE @ \cup {k, pk}]

\* An early return, or BeforeSave/BeforeDelete or the backing store refused.
Refused == UNCHANGED <<index, runAfter, renamed>>

Create(t, p, k, v) ==
    /\ InBody(t, p)
    /\ \/ /\ k # EmptyKey
          /\ index[p][k] = Absent
          /\ Commit(t, p, k, "create", k, v) \/ Refused
       \/ /\ k = EmptyKey \/ index[p][k] # Absent
          /\ Refused
    /\ UNCHANGED <<pc, want, owner, view>>

Update(t, p, k, v) ==
    /\ InBody(t, p)
    /\ \/ /\ index[p][k] # Absent
          /\ Commit(t, p, k, "update", k, v) \/ Refused
       \/ /\ index[p][k] = Absent
          /\ Refused
    /\ UNCHANGED <<pc, want, owner, view>>

\* Save checks neither the key nor existence.
Save(t, p, k, v) ==
    /\ InBody(t, p)
    /\ Commit(t, p, k, "save", k, v) \/ Refused
    /\ UNCHANGED <<pc, want, owner, view>>

Remove(t, p, k) ==
    /\ InBody(t, p)
    /\ \/ /\ index[p][k] # Absent
          /\ Commit(t, p, k, "delete", k, Absent) \/ Refused
       \/ /\ index[p][k] = Absent
          /\ Refused
    /\ UNCHANGED <<pc, want, owner, view>>

\* Patch: read-modify-write of the object found under key.  The patched
\* object toSave is stored under its own key nk; the event carries the
\* request key.
Patch(t, p, k, nk, v) ==
    /\ InBody(t, p)
    /\ \/ /\ index[p][k] # Absent
          /\ nk \in PatchKeys[k]
          /\ Commit(t, p, nk, "update", k, v) \/ Refused
       \/ /\ index[p][k] = Absent
          /\ Refused
    /\ UNCHANGED <<pc, want, owner, view>>

\* The thunk returns; the deferred unlocker starts.
EndBody(t) ==
    /\ pc[t] = "body"
    /\ pc' = [pc EXCEPT ![t] = "draining"]
    /\ UNCHANGED <<want, owner, ops, runAfter, index, view, renamed>>

-----------------------------------------------------------------------------
(* unlocker: every queued thunk runs, then the locks are released.         *)
Deliver(e) == view' = [view EXCEPT ![e.prefix][e.key] = e.val]

Drain(t) ==
    /\ pc[t] = "draining"
    /\ runAfter[t] # <<>>
    /\ Deliver(Head(runAfter[t]))
    /\ runAfter' = [runAfter EXCEPT ![t] = Tail(@)]
    /\ UNCHANGED <<pc, want, owner, ops, index, renamed>>

\* Variant: the locks are released first and the queue drained afterwards
\* (the order spec 4.4 describes).
ReleaseBeforeDrain(t) ==
    /\ pc[t] = "draining"
    /\ owner' = [p \in Prefixes |-> IF owner[p] = t THEN NoThread ELSE owner[p]]
    /\ pc' = [pc EXCEPT ![t] = IF runAfter[t] = <<>> THEN "idle" ELSE "draining"]
    /\ want' = [want EXCEPT ![t] = IF runAfter[t] = <<>> THEN {} ELSE @]
    /\ UNCHANGED <<ops, runAfter, index, view, renamed>>

Release(t) ==
    /\ pc[t] = "draining"
    /\ runAfter[t] = <<>>
    /\ owner' = [p \in Prefixes |-> IF owner[p] = t THEN NoThread ELSE owner[p]]
    /\ pc' = [pc EXCEPT ![t] = "idle"]
    /\ want' = [want EXCEPT ![t] = {}]
    /\ UNCHANGED <<ops, runAfter, index, view, renamed>>

Step(t) ==
    \/ Do(t) \/ AllLocked(t) \/ Acquire(t) \/ Locked(t)
    \/ \E p \in DataPrefixes, k \in Keys, v \in Vals :
          Create(t, p, k, v) \/ Update(t, p, k, v) \/ Save(t, p, k, v)
    \/ \E p \in DataPrefixes, k \in Keys : Remove(t, p, k)
    \/ \E p \in DataPrefixes, k, nk \in Keys, v \in Vals : Patch(t, p, k, nk, v)
    \/ EndBody(t) \/ Drain(t) \/ Release(t)

Next == \E t \in Threads : Step(t)

(* Go runs every runnable goroutine, so a thread inside Do keeps making    *)
(* progress; sync.Mutex hands a lock that is free infinitely often to a    *)
(* waiter (starvation mode), hence strong fairness on Acquire.  A request  *)
(* need not arrive: Do and AllLocked carry no fairness.                    *)
Fairness ==
    \A t \in Threads :
        /\ SF_vars(Acquire(t))
        /\ WF_vars(Locked(t))
        /\ WF_vars(EndBody(t))
        /\ WF_vars(Drain(t))
        /\ WF_vars(Release(t))

Spec == Init /\ [][Next]_vars
FairSpec == Spec /\ Fairness

-----------------------------------------------------------------------------
TypeOK ==
    /\ pc \in [Threads -> PC]
    /\ want \in [Threads -> SUBSET Prefixes]
    /\ owner \in [Prefixes -> Threads \cup {NoThread}]
    /\ ops \in [Threads -> 0 .. MaxOps]
    /\ runAfter \in [Threads -> Seq(Event)]
    /\ index \in [DataPrefixes -> [Keys -> Obj]]
    /\ view \in [DataPrefixes -> [Keys -> Obj]]
    /\ renamed \in [DataPrefixes -> SUBSET Keys]

(* Subscribers see the stores as they are: whenever the lock of a prefix  *)
(* is free, replaying the events delivered so far (create, update, save,   *)
(* delete, with their cloned payloads) gives exactly the store.  This is   *)
(* what unlocker's order buys: the queued publications run before u()      *)
(* releases the locks, so two requests writing the same key deliver their  *)
(* events in the order they committed.                                     *)
ViewConsistent ==
    \A p \in DataPrefixes : owner[p] = NoThread => view[p] = index[p]

(* The same whatever a JSON patch does to the key: Patch stores the        *)
(* patched object under its own key but publishes it under the request     *)
(* key, and this is the only way subscribers and store part: whenever the  *)
(* lock of a prefix is free, every key that no key-changing Patch has      *)
(* touched since its last own write is seen as it is stored.               *)
ViewConsistentUnlessRenamed ==
    \A p \in DataPrefixes : owner[p] = NoThread =>
        \A k \in Keys \ renamed[p] : view[p][k] = index[p][k]

(* Locks are taken in canonical order: a RequestTracker waiting for a lock *)
(* holds no lock ranked after it, so no cycle of waiters can form          *)
(* (lockEnts sorts and deduplicates the declared list).                    *)
CanonicalAcquisition ==
    \A t \in Threads :
        pc[t] = "acquiring" /\ want[t] \ Held(t) # {} =>
            \A h \in Held(t) : Rank[h] < Rank[NextLock(t)]

(* Every Do eventually returns and releases its locks: no deadlock between *)
(* RequestTrackers with overlapping lock sets and no starvation.            *)
DoCompletes == \A t \in Threads : pc[t] = "acquiring" ~> pc[t] = "idle"

\* The lock sets a RequestTracker may run a body under: its declared set,
\* and every prefix when it may call AllLocked.
LockSets == [t \in Threads |-> {LockSet(t)} \cup (IF t \in AllLockers THEN {Prefixes} ELSE {})]

\* A body runs from Locked until Release.
Running == {t \in Threads : pc[t] \in {"body", "draining"}}

\* The atomic Do, seeing a lock as taken only once its holder's body runs.
RA == INSTANCE RequestTrackerAtomic
        WITH running   <- Running,
             lockOwner <- [p \in Prefixes |->
                             IF owner[p] \in Running THEN owner[p] ELSE NoThread],
             store     <- index

(* Spec 4.4, the transactional scope: although lockEnts takes the locks   *)
(* one at a time and other RequestTrackers interleave, every Do behaves as *)
(* if its whole lock set were taken in one step while no running body     *)
(* held any of it, every CRUD call writes a prefix its own body holds, and *)
(* the locks are released together.                                        *)
AtomicDo == RA!Spec

(* Spec 8.4: no event is delivered while the delivering RequestTracker     *)
(* still holds a lock.  unlocker runs toRunAfter before u().               *)
EventAfterRelease ==
    [][\A t \in Threads :
          Len(runAfter'[t]) < Len(runAfter[t]) => Held(t) = {}]_vars

(* Spec 4.4 step 2: no CRUD call stores an object under the empty key.     *)
NoEmptyKey == \A p \in DataPrefixes : index[p][EmptyKey] = Absent
-----------------------------------------------------------------------------
(* The inductive strengthening of ViewConsistent.  The events of a prefix  *)
(* are queued only by the RequestTracker holding its lock; for every key   *)
(* the last event queued for it carries the store's current object, and a  *)
(* key with no queued event is already seen by subscribers as it is.       *)
Pending(t, p, k) ==
    {i \in 1 .. Len(runAfter[t]) : runAfter[t][i].prefix = p /\ runAfter[t][i].key = k}

IdleHoldsNothing ==
    \A t \in Threads : pc[t] = "idle" => Held(t) = {} /\ runAfter[t] = <<>>

AcquiringQueuesNothing ==
    \A t \in Threads : pc[t] = "acquiring" => runAfter[t] = <<>>

LockedHoldsAll ==
    \A t \in Threads : pc[t] \in {"body", "draining"} => want[t] \subseteq Held(t)

QueuedUnderLock ==
    \A t \in Threads : \A i \in 1 .. Len(runAfter[t]) : owner[runAfter[t][i].prefix] = t

CellOK(p, k) ==
    /\ owner[p] = NoThread => view[p][k] = index[p][k]
    /\ owner[p] \in Threads =>
          /\ Pending(owner[p], p, k) = {} => view[p][k] = index[p][k]
          /\ \A i \in Pending(owner[p], p, k) :
                (\A j \in Pending(owner[p], p, k) : j <= i) =>
                    runAfter[owner[p]][i].val = index[p][k]

CellConsistent == \A p \in DataPrefixes : \A k \in Keys \ renamed[p] : CellOK(p, k)

IInv ==
    /\ TypeOK
    /\ IdleHoldsNothing
    /\ AcquiringQueuesNothing
    /\ LockedHoldsAll
    /\ QueuedUnderLock
    /\ CellConsistent
=============================================================================
