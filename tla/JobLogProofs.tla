----------------------------- MODULE JobLogProofs -----------------------------
(***************************************************************************)
(* Proofs about JobLog for every set of UUIDs, machines and clients.       *)
(***************************************************************************)
EXTENDS JobLog, TLAPS

LEMMA TypeStep == TypeOK /\ [Next]_vars => TypeOK'
<1> SUFFICES ASSUME TypeOK, [Next]_vars PROVE TypeOK'
  OBVIOUS
<1>1. CASE \E c \in Clients, u \in UUIDs, m \in Machines : CreateJob(c, u, m)
  BY <1>1 DEF CreateJob, TypeOK
<1>2. CASE \E c \in Clients, u \in UUIDs : DeleteJob(c, u)
  BY <1>2 DEF DeleteJob, TypeOK
<1>3. CASE \E c \in Clients, u \in UUIDs : PutLogFind(c, u)
  BY <1>3 DEF PutLogFind, TypeOK, Phases, vars
<1>4. CASE \E c \in Clients, u \in UUIDs : GetLogFind(c, u)
  BY <1>4 DEF GetLogFind, TypeOK, Phases, vars
<1>5. CASE \E c \in Clients : LogAuth(c)
  BY <1>5 DEF LogAuth, TypeOK, Phases
<1>6. CASE \E c \in Clients : PutLogAppend(c)
  <2> PICK c \in Clients : PutLogAppend(c)
    BY <1>6
  <2>1. job[cuuid[c]] # Absent => Line(c) \in [writer : Clients, owner : Machines, stale : BOOLEAN]
    BY DEF Line, TypeOK
  <2>. QED
    BY <2>1 DEF PutLogAppend, TypeOK, Phases
<1>7. CASE \E c \in Clients : GetLogFile(c)
  <2> PICK c \in Clients : GetLogFile(c)
    BY <1>7
  <2>1. job[cuuid[c]] # Absent =>
          [reader |-> c, owner |-> job[cuuid[c]], stale |-> c \in replaced]
             \in [reader : Clients, owner : Machines, stale : BOOLEAN]
    BY DEF TypeOK
  <2>. QED
    BY <2>1 DEF GetLogFile, TypeOK, Phases
<1>8. CASE UNCHANGED vars
  BY <1>8 DEF vars, TypeOK
<1>9. QED
  BY <1>1, <1>2, <1>3, <1>4, <1>5, <1>6, <1>7, <1>8 DEF Next

(* Every reachable state is well typed: a request records the AuthKey of *)
(* a job it found, and a log line or a served log names a real machine.   *)
THEOREM TypeCorrect == Spec => []TypeOK
<1>1. Init => TypeOK
  BY DEF Init, TypeOK, Phases
<1>2. QED
  BY <1>1, TypeStep, PTL DEF Spec

-----------------------------------------------------------------------------
\* While a request is under way and the job it found has not been deleted,
\* that job still holds the UUID: CreateJob takes only a UUID no job holds.
LookupStable ==
    \A c \in Clients :
        cpc[c] # "idle" /\ c \notin replaced => job[cuuid[c]] = cseen[c]

\* A request past its auth check passed it against the job it found.
AuthPassed ==
    \A c \in Clients :
        cpc[c] \in {"put_write", "get_file"} => Authorized(c, cseen[c])

IInv ==
    /\ TypeOK
    /\ LookupStable
    /\ AuthPassed
    /\ LogAuthorizedUnlessReplaced
    /\ ReadAuthorizedUnlessReplaced

\* A request past its auth check whose job is still there lands in a job
\* its token may touch.
LEMMA LandsAuthorized ==
    ASSUME IInv, NEW c \in Clients, cpc[c] \in {"put_write", "get_file"},
           c \notin replaced
    PROVE  Authorized(c, job[cuuid[c]])
BY DEF IInv, LookupStable, AuthPassed

LEMMA IInvStep == IInv /\ [Next]_vars => IInv'
<1> SUFFICES ASSUME IInv, [Next]_vars PROVE IInv'
  OBVIOUS
<1> USE DEF IInv
<1>0. TypeOK'
  BY TypeStep
<1>1. ASSUME NEW c \in Clients, NEW u \in UUIDs, NEW m \in Machines,
             CreateJob(c, u, m)
      PROVE  IInv'
  <2>1. \A d \in Clients : cpc[d] # "idle" /\ d \notin replaced => cuuid[d] # u
    BY <1>1, JobAssumption DEF CreateJob, LookupStable, TypeOK
  <2>2. QED
    BY <1>0, <1>1, <2>1 DEF CreateJob, LookupStable, AuthPassed,
                            LogAuthorizedUnlessReplaced, ReadAuthorizedUnlessReplaced, TypeOK
<1>2. ASSUME NEW c \in Clients, NEW u \in UUIDs, DeleteJob(c, u) PROVE IInv'
  BY <1>0, <1>2 DEF DeleteJob, LookupStable, AuthPassed,
                    LogAuthorizedUnlessReplaced, ReadAuthorizedUnlessReplaced, TypeOK
<1>3. ASSUME NEW c \in Clients, NEW u \in UUIDs,
             PutLogFind(c, u) \/ GetLogFind(c, u)
      PROVE  IInv'
  BY <1>0, <1>3 DEF PutLogFind, GetLogFind, vars, LookupStable, AuthPassed,
                    LogAuthorizedUnlessReplaced, ReadAuthorizedUnlessReplaced, TypeOK
<1>4. ASSUME NEW c \in Clients, LogAuth(c) PROVE IInv'
  BY <1>0, <1>4 DEF LogAuth, LookupStable, AuthPassed,
                    LogAuthorizedUnlessReplaced, ReadAuthorizedUnlessReplaced, TypeOK
<1>5. ASSUME NEW c \in Clients, PutLogAppend(c) PROVE IInv'
  <2>1. c \notin replaced => Authorized(c, job[cuuid[c]])
    BY <1>5, LandsAuthorized DEF PutLogAppend
  <2>2. LogAuthorizedUnlessReplaced'
    <3> SUFFICES ASSUME NEW e \in written', ~e.stale
                 PROVE  Authorized(e.writer, e.owner)
      BY DEF LogAuthorizedUnlessReplaced
    <3>1. CASE e \in written
      BY <3>1 DEF LogAuthorizedUnlessReplaced
    <3>2. CASE e = Line(c)
      <4>1. c \notin replaced
        BY <3>2, Zenon DEF Line
      <4>. QED
        BY <3>2, <4>1, <2>1 DEF Line
    <3>. QED
      BY <3>1, <3>2, <1>5 DEF PutLogAppend
  <2>3. QED
    BY <1>0, <1>5, <2>2 DEF PutLogAppend, LookupStable, AuthPassed,
                            ReadAuthorizedUnlessReplaced, TypeOK
<1>6. ASSUME NEW c \in Clients, GetLogFile(c) PROVE IInv'
  <2>1. c \notin replaced => Authorized(c, job[cuuid[c]])
    BY <1>6, LandsAuthorized DEF GetLogFile
  <2>2. ReadAuthorizedUnlessReplaced'
    <3> DEFINE served == [reader |-> c, owner |-> job[cuuid[c]], stale |-> c \in replaced]
    <3> SUFFICES ASSUME NEW e \in read', ~e.stale
                 PROVE  Authorized(e.reader, e.owner)
      BY DEF ReadAuthorizedUnlessReplaced
    <3>1. CASE e \in read
      BY <3>1 DEF ReadAuthorizedUnlessReplaced
    <3>2. CASE e = served
      <4>1. c \notin replaced
        BY <3>2, Zenon
      <4>. QED
        BY <3>2, <4>1, <2>1
    <3>. QED
      BY <3>1, <3>2, <1>6 DEF GetLogFile
  <2>3. QED
    BY <1>0, <1>6, <2>2 DEF GetLogFile, LookupStable, AuthPassed,
                            LogAuthorizedUnlessReplaced, TypeOK
<1>7. CASE UNCHANGED vars
  BY <1>7 DEF vars, LookupStable, AuthPassed, LogAuthorizedUnlessReplaced,
              ReadAuthorizedUnlessReplaced, TypeOK
<1>8. QED
  BY <1>1, <1>2, <1>3, <1>4, <1>5, <1>6, <1>7 DEF Next

LEMMA IInvInit == Init => IInv
BY DEF Init, IInv, TypeOK, Phases, LookupStable, AuthPassed,
       LogAuthorizedUnlessReplaced, ReadAuthorizedUnlessReplaced

LEMMA Invariance == Spec => []IInv
BY IInvInit, IInvStep, PTL DEF Spec

(* For any sets of UUIDs, machines and clients, and whatever UUIDs clients *)
(* give their jobs: a line PUT /jobs/:uuid/log appends lands in a job the  *)
(* writer's token may log to unless the job its first rt.Do found was      *)
(* deleted before the second, so that race is the only way a line is      *)
(* misdirected.                                                            *)
THEOREM LogAuthorizedHolds == Spec => []LogAuthorizedUnlessReplaced
BY Invariance, PTL DEF IInv

(* Likewise for GET /jobs/:uuid/log, which opens the file after the lock  *)
(* is released: a log is served from a job the reader may read unless the *)
(* job it found was deleted first.                                         *)
THEOREM ReadAuthorizedHolds == Spec => []ReadAuthorizedUnlessReplaced
BY Invariance, PTL DEF IInv

=============================================================================
