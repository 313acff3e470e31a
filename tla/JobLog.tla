------------------------------- MODULE JobLog -------------------------------
(***************************************************************************)
(* The job endpoints of frontend/jobs.go that find a job by UUID, check   *)
(* the caller's token against the job's AuthKey outside any lock, and     *)
(* then touch the job's log: GET /jobs/:uuid/log and PUT /jobs/:uuid/log,  *)
(* racing POST /jobs and DELETE /jobs/:uuid of other clients.              *)
(*                                                                         *)
(* Each rt.Do holds the jobs lock and is one step; the auth check between  *)
(* two of them, and c.File after the last one, are steps of their own in   *)
(* which other requests may run.  A job is abstracted to its AuthKey, the  *)
(* machine it is bound to; a token is scoped to one machine or to all.     *)
(* A log line is recorded as who wrote it, whose job it landed in, and     *)
(* whether the job the handler found had been deleted before the line     *)
(* landed: replaced is a history variable the code does not have, kept to  *)
(* state which lines the race of the two lookups can misdirect.            *)
(***************************************************************************)
EXTENDS FiniteSets

CONSTANTS
    UUIDs,      \* job UUIDs
    Machines,   \* machines a job may be bound to (Job.AuthKey)
    Clients,    \* callers, each with its token
    Scope,      \* Scope[c]: the machine c's token is scoped to, or All
    All,        \* an unscoped token
    Absent      \* no job under that UUID

ASSUME JobAssumption ==
    /\ Scope \in [Clients -> Machines \cup {All}]
    /\ All \notin Machines /\ Absent \notin Machines

VARIABLES
    job,       \* the jobs index: UUID -> AuthKey of the job
    cpc,       \* where each client's request is
    cuuid,     \* the :uuid of the request
    cseen,     \* j.AuthKey() of the job the first rt.Do found
    written,   \* log lines appended: [writer, owner, stale]
    read,      \* logs served: [reader, owner, stale]
    replaced   \* the clients whose found job was deleted after the lookup

vars == <<job, cpc, cuuid, cseen, written, read, replaced>>

Phases == {"idle", "put_auth", "put_write", "get_auth", "get_file"}

TypeOK ==
    /\ job \in [UUIDs -> Machines \cup {Absent}]
    /\ cpc \in [Clients -> Phases]
    /\ cuuid \in [Clients -> UUIDs]
    /\ cseen \in [Clients -> Machines]
    /\ written \subseteq [writer : Clients, owner : Machines, stale : BOOLEAN]
    /\ read \subseteq [reader : Clients, owner : Machines, stale : BOOLEAN]
    /\ replaced \subseteq Clients

Init ==
    /\ job = [u \in UUIDs |-> Absent]
    /\ cpc = [c \in Clients |-> "idle"]
    /\ cuuid \in [Clients -> UUIDs]
    /\ cseen \in [Clients -> Machines]
    /\ written = {}
    /\ read = {}
    /\ replaced = {}

\* assureSimpleAuth for an object key: a token scoped to that machine, or
\* an unscoped one.
Authorized(c, m) == Scope[c] \in {All, m}

-----------------------------------------------------------------------------
(* POST /jobs and DELETE /jobs/:uuid, requests of their own that a token  *)
(* may make while one of its log requests is under way.                     *)

\* POST /jobs: the Machine field is required and the caller must be allowed
\* to create a job with its AuthKey; a missing Uuid is drawn at random, a
\* given one is kept, so a UUID may be given to a job again once its
\* first job is gone.  realCreateJob then creates the job under the lock,
\* refusing a UUID that is taken.
CreateJob(c, u, m) ==
    /\ Authorized(c, m)
    /\ job[u] = Absent
    /\ job' = [job EXCEPT ![u] = m]
    /\ UNCHANGED <<cpc, cuuid, cseen, written, read, replaced>>

\* DELETE /jobs/:uuid through f.Remove; every log request between its
\* lookups of that UUID has now lost the job it found.
DeleteJob(c, u) ==
    /\ job[u] # Absent
    /\ Authorized(c, job[u])
    /\ job' = [job EXCEPT ![u] = Absent]
    /\ replaced' = replaced \cup {d \in Clients : cpc[d] # "idle" /\ cuuid[d] = u}
    /\ UNCHANGED <<cpc, cuuid, cseen, written, read>>

-----------------------------------------------------------------------------
(* PUT /jobs/:uuid/log.                                                     *)

\* The line c appends, to whichever job holds its UUID now.
Line(c) == [writer |-> c, owner |-> job[cuuid[c]], stale |-> c \in replaced]

\* The first rt.Do: find the job, or answer 404.
PutLogFind(c, u) ==
    /\ cpc[c] = "idle"
    /\ \/ /\ job[u] = Absent
          /\ UNCHANGED vars
       \/ /\ job[u] # Absent
          /\ cpc' = [cpc EXCEPT ![c] = "put_auth"]
          /\ cuuid' = [cuuid EXCEPT ![c] = u]
          /\ cseen' = [cseen EXCEPT ![c] = job[u]]
          /\ replaced' = replaced \ {c}
          /\ UNCHANGED <<job, written, read>>

\* Variant: the auth check of the log endpoints dropped.
LogAuthAlways(c) ==
    /\ cpc[c] \in {"put_auth", "get_auth"}
    /\ cpc' = [cpc EXCEPT ![c] = IF @ = "put_auth" THEN "put_write" ELSE "get_file"]
    /\ UNCHANGED <<job, cuuid, cseen, written, read, replaced>>

\* assureSimpleAuth against the job found, outside the lock: go on, or
\* answer 403.  Both log endpoints make the same check.
LogAuth(c) ==
    /\ cpc[c] \in {"put_auth", "get_auth"}
    /\ cpc' = [cpc EXCEPT ![c] =
                 IF ~Authorized(c, cseen[c]) THEN "idle"
                 ELSE IF @ = "put_auth" THEN "put_write" ELSE "get_file"]
    /\ UNCHANGED <<job, cuuid, cseen, written, read, replaced>>

\* Variant: the second rt.Do appends without finding the job again.
PutLogAppendNoFind(c) ==
    /\ cpc[c] = "put_write"
    /\ cpc' = [cpc EXCEPT ![c] = "idle"]
    /\ written' = written \cup {Line(c)}
    /\ UNCHANGED <<job, cuuid, cseen, read, replaced>>

\* The second rt.Do: find the job by UUID again and append to its log, or
\* answer 404.  The job it finds is not checked against the token.
PutLogAppend(c) ==
    /\ cpc[c] = "put_write"
    /\ cpc' = [cpc EXCEPT ![c] = "idle"]
    /\ written' = IF job[cuuid[c]] = Absent THEN written
                  ELSE written \cup {Line(c)}
    /\ UNCHANGED <<job, cuuid, cseen, read, replaced>>

-----------------------------------------------------------------------------
(* GET /jobs/:uuid/log.                                                     *)

\* rt.Do: find the job and compute its LogPath, or answer 404.
GetLogFind(c, u) ==
    /\ cpc[c] = "idle"
    /\ \/ /\ job[u] = Absent
          /\ UNCHANGED vars
       \/ /\ job[u] # Absent
          /\ cpc' = [cpc EXCEPT ![c] = "get_auth"]
          /\ cuuid' = [cuuid EXCEPT ![c] = u]
          /\ cseen' = [cseen EXCEPT ![c] = job[u]]
          /\ replaced' = replaced \ {c}
          /\ UNCHANGED <<job, written, read>>

\* c.File(path), with no lock held: the log file under the job's UUID is
\* that of whichever job holds the UUID now; a deleted job has none.
GetLogFile(c) ==
    /\ cpc[c] = "get_file"
    /\ cpc' = [cpc EXCEPT ![c] = "idle"]
    /\ read' = IF job[cuuid[c]] = Absent THEN read
               ELSE read \cup {[reader |-> c, owner |-> job[cuuid[c]], stale |-> c \in replaced]}
    /\ UNCHANGED <<job, cuuid, cseen, written, replaced>>

Next ==
    \/ \E c \in Clients, u \in UUIDs, m \in Machines : CreateJob(c, u, m)
    \/ \E c \in Clients, u \in UUIDs : DeleteJob(c, u)
    \/ \E c \in Clients, u \in UUIDs : PutLogFind(c, u) \/ GetLogFind(c, u)
    \/ \E c \in Clients : LogAuth(c) \/ PutLogAppend(c) \/ GetLogFile(c)

Spec == Init /\ [][Next]_vars

-----------------------------------------------------------------------------
(* Properties.                                                              *)

(* Every line PUT /jobs/:uuid/log appends lands in the log of a job the   *)
(* writer's token is allowed to log to.  The handler checks the token      *)
(* against the job of its first rt.Do and appends in its second, to        *)
(* whichever job then holds the UUID.                                      *)
LogAuthorized ==
    \A e \in written : Authorized(e.writer, e.owner)

(* Every log GET /jobs/:uuid/log serves belongs to a job the reader's     *)
(* token may read, although the file is opened after the lock is released. *)
ReadAuthorized ==
    \A e \in read : Authorized(e.reader, e.owner)

(* The two lookups of PUT /jobs/:uuid/log misdirect a line only through   *)
(* the job they found being deleted in between: every line whose found job *)
(* was still there lands in a job the writer's token may log to, whatever  *)
(* UUIDs clients choose.                                                   *)
LogAuthorizedUnlessReplaced ==
    \A e \in written : ~e.stale => Authorized(e.writer, e.owner)

(* GET /jobs/:uuid/log opens the file after the lock is released: every   *)
(* log it serves while the job it found is still there belongs to a job   *)
(* the reader's token may read, whatever UUIDs clients choose.             *)
ReadAuthorizedUnlessReplaced ==
    \A e \in read : ~e.stale => Authorized(e.reader, e.owner)

=============================================================================
