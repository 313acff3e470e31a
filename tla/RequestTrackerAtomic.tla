------------------------ MODULE RequestTrackerAtomic ------------------------
(***************************************************************************)
(* What RequestTracker.Do promises its thunk (spec 4.4, the transactional *)
(* scope): the whole lock set is taken in one step, only when no running  *)
(* body holds any of it; the body then writes the stores of the prefixes  *)
(* it holds and no other body touches them; the locks are released in one *)
(* step.  RequestTracker, which takes the locks one at a time in lockEnts, *)
(* is shown to implement this.                                              *)
(***************************************************************************)
CONSTANTS
    Threads,       \* the RequestTrackers
    Prefixes,      \* the lockable prefixes
    DataPrefixes,  \* the prefixes whose stores are tracked
    Keys,
    Vals,
    Absent,        \* no object under a key
    NoThread,      \* owner of a free lock
    LockSets       \* LockSets[t]: the lock sets t may run a body under

VARIABLES
    running,       \* the RequestTrackers whose body runs
    lockOwner,     \* lockOwner[p]: the running body holding p, or NoThread
    store          \* store[p][k]: the store of each tracked prefix

vars == <<running, lockOwner, store>>

Init ==
    /\ running = {}
    /\ lockOwner = [p \in Prefixes |-> NoThread]
    /\ store = [p \in DataPrefixes |-> [k \in Keys |-> Absent]]

\* Do or AllLocked: take a whole free lock set and start the body.
Begin(t, S) ==
    /\ t \notin running
    /\ S \in LockSets[t]
    /\ \A p \in S : lockOwner[p] = NoThread
    /\ lockOwner' = [p \in Prefixes |-> IF p \in S THEN t ELSE lockOwner[p]]
    /\ running' = running \cup {t}
    /\ UNCHANGED store

\* A CRUD call of the body on a prefix it holds.
Write(t, p, k, v) ==
    /\ t \in running
    /\ lockOwner[p] = t
    /\ store' = [store EXCEPT ![p][k] = v]
    /\ UNCHANGED <<running, lockOwner>>

\* The body has ended and its locks are released.
End(t) ==
    /\ t \in running
    /\ lockOwner' = [p \in Prefixes |-> IF lockOwner[p] = t THEN NoThread ELSE lockOwner[p]]
    /\ running' = running \ {t}
    /\ UNCHANGED store

Next ==
    \E t \in Threads :
        \/ \E S \in SUBSET Prefixes : Begin(t, S)
        \/ \E p \in DataPrefixes, k \in Keys, v \in Vals \cup {Absent} : Write(t, p, k, v)
        \/ End(t)

Spec == Init /\ [][Next]_vars

=============================================================================
