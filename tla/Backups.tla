------------------------------ MODULE Backups ------------------------------
(***************************************************************************)
(* The operations of the backup service (internal/backup/service.go) that  *)
(* change objects, with the status their handlers answer: an on-demand     *)
(* Backup of a cluster, and the ScheduledBackups, which are addressed by   *)
(* the cluster's name and their own.  Every operation but the creation of  *)
(* a schedule reads first and acts on what it has read with a second call; *)
(* other requests act in between.                                          *)
(*                                                                         *)
(* A schedule has an identity (uid), which the code never looks at: when   *)
(* one is deleted and another created under its name, they differ by it.   *)
(***************************************************************************)
EXTENDS Naturals

CONSTANTS
    Requests,   \* the goroutines serving a request
    Clusters,   \* names of Cluster objects
    Ids,        \* names of ScheduledBackup objects
    Schedules,  \* cron expressions
    None,       \* no object, a field that is not set, "" in a body
    MaxUid,     \* bound: ScheduledBackups ever created
    MaxBackups  \* bound: Backups ever created

ASSUME BackupsAssumption ==
    /\ MaxUid \in Nat
    /\ MaxBackups \in Nat
    /\ None \notin Clusters \cup Ids \cup Schedules \cup BOOLEAN

VARIABLES
    health,   \* the Cluster objects: "absent", "healthy" or "unhealthy"
    backups,  \* per cluster: how many Backups have been created
    scheds,   \* the ScheduledBackup objects: name -> object, or None
    uids,     \* how many ScheduledBackups have been created
    pc,       \* where each request stands
    job,      \* its operation, the names in its URL and its body
    base,     \* the ScheduledBackup it has read
    answer    \* the status of its latest answer, 0 while it is at work

vars == <<health, backups, scheds, uids, pc, job, base, answer>>

\* Spec.Suspend is a pointer: None, TRUE or FALSE.
Sched == [uid : 1..MaxUid, cluster : Clusters, schedule : Schedules,
          suspend : BOOLEAN \cup {None}]
Ops == {"trigger", "create", "update", "delete"}
Job == [op : Ops, cluster : Clusters, id : Ids \cup {None},
        schedule : Schedules \cup {None}, suspended : BOOLEAN]

TypeOK ==
    /\ health \in [Clusters -> {"absent", "healthy", "unhealthy"}]
    /\ backups \in [Clusters -> 0..MaxBackups]
    /\ scheds \in [Ids -> Sched \cup {None}]
    /\ uids \in 0..MaxUid
    /\ pc \in [Requests -> {"idle", "check", "backup", "create", "fetch", "patch", "delete"}]
    /\ job \in [Requests -> Job \cup {None}]
    /\ base \in [Requests -> Sched \cup {None}]
    /\ answer \in [Requests -> {0, 200, 201, 202, 204, 404, 500}]

Init ==
    /\ health \in [Clusters -> {"absent", "healthy", "unhealthy"}]
    /\ backups = [c \in Clusters |-> 0]
    /\ scheds = [i \in Ids |-> None]
    /\ uids = 0
    /\ pc = [r \in Requests |-> "idle"]
    /\ job = [r \in Requests |-> None]
    /\ base = [r \in Requests |-> None]
    /\ answer = [r \in Requests |-> 0]

-----------------------------------------------------------------------------
(* A request arrives.  A body that does not decode is refused at once,     *)
(* except by TriggerBackup, for which the body is optional.                *)

Arrive(r, o, c, i, s, susp, first) ==
    /\ pc[r] = "idle"
    /\ pc' = [pc EXCEPT ![r] = first]
    /\ job' = [job EXCEPT ![r] =
                  [op |-> o, cluster |-> c, id |-> i, schedule |-> s, suspended |-> susp]]
    /\ answer' = [answer EXCEPT ![r] = 0]
    /\ UNCHANGED <<health, backups, scheds, uids, base>>

ArriveTrigger(r, c) == Arrive(r, "trigger", c, None, None, FALSE, "check")

ArriveCreate(r, c, i, s) == Arrive(r, "create", c, i, s, FALSE, "create")

\* A body without "suspended" and one with false are the same to the decoder.
ArriveUpdate(r, c, i, s, susp) == Arrive(r, "update", c, i, s, susp, "fetch")

ArriveDelete(r, c, i) == Arrive(r, "delete", c, i, None, FALSE, "fetch")

Answer(r, status) ==
    /\ pc' = [pc EXCEPT ![r] = "idle"]
    /\ job' = [job EXCEPT ![r] = None]
    /\ base' = [base EXCEPT ![r] = None]
    /\ answer' = [answer EXCEPT ![r] = status]

-----------------------------------------------------------------------------
(* TriggerBackup *)

CheckCluster(r) ==
    /\ pc[r] = "check"
    /\ IF health[job[r].cluster] = "absent"
       THEN Answer(r, 404)
       ELSE pc' = [pc EXCEPT ![r] = "backup"] /\ UNCHANGED <<job, base, answer>>
    /\ UNCHANGED <<health, backups, scheds, uids>>

\* What the call does, whether or not its answer arrives.  The object's name is
\* generated, so it never exists already.
BackupCreated(r) ==
    /\ pc[r] = "backup"
    /\ backups[job[r].cluster] < MaxBackups
    /\ backups' = [backups EXCEPT ![job[r].cluster] = @ + 1]
    /\ UNCHANGED <<health, scheds, uids>>

CreateBackup(r) == BackupCreated(r) /\ Answer(r, 202)

-----------------------------------------------------------------------------
(* ScheduledBackups *)

\* Mutant: the object's cluster reference is forgotten.
SchedCreatedUnowned(r) ==
    /\ pc[r] = "create"
    /\ scheds[job[r].id] = None
    /\ uids < MaxUid
    /\ uids' = uids + 1
    /\ scheds' = [scheds EXCEPT ![job[r].id] =
                     [uid |-> uids + 1, cluster |-> None,
                      schedule |-> job[r].schedule, suspend |-> None]]
    /\ UNCHANGED <<health, backups>>

\* The cluster is not looked at, and Suspend is left unset.
SchedCreated(r) ==
    /\ pc[r] = "create"
    /\ scheds[job[r].id] = None
    /\ uids < MaxUid
    /\ uids' = uids + 1
    /\ scheds' = [scheds EXCEPT ![job[r].id] =
                     [uid |-> uids + 1, cluster |-> job[r].cluster,
                      schedule |-> job[r].schedule, suspend |-> None]]
    /\ UNCHANGED <<health, backups>>

CreateSched(r) == SchedCreated(r) /\ Answer(r, 201)

\* The handler knows no conflict: "already exists" is an internal error.
SchedExists(r) ==
    /\ pc[r] = "create"
    /\ scheds[job[r].id] # None
    /\ Answer(r, 500)
    /\ UNCHANGED <<health, backups, scheds, uids>>

\* The ownership check: the object exists and belongs to the cluster in the URL.
Owned(r) == scheds[job[r].id] # None /\ scheds[job[r].id].cluster = job[r].cluster

\* Mutant: the cluster in the URL is not compared with the object's.
FetchSchedAnyCluster(r) ==
    /\ pc[r] = "fetch"
    /\ scheds[job[r].id] # None
    /\ base' = [base EXCEPT ![r] = scheds[job[r].id]]
    /\ pc' = [pc EXCEPT ![r] = IF job[r].op = "update" THEN "patch" ELSE "delete"]
    /\ UNCHANGED <<health, backups, scheds, uids, job, answer>>

FetchSched(r) ==
    /\ pc[r] = "fetch"
    /\ Owned(r)
    /\ base' = [base EXCEPT ![r] = scheds[job[r].id]]
    /\ pc' = [pc EXCEPT ![r] = IF job[r].op = "update" THEN "patch" ELSE "delete"]
    /\ UNCHANGED <<health, backups, scheds, uids, job, answer>>

FetchFindsNothing(r) ==
    /\ pc[r] = "fetch"
    /\ ~Owned(r)
    /\ Answer(r, 404)
    /\ UNCHANGED <<health, backups, scheds, uids>>

\* Mutant: the whole copy is written, as an Update call would.
PatchedWhole(r, cur) ==
    [cur EXCEPT !.schedule = IF job[r].schedule = None THEN base[r].schedule
                             ELSE job[r].schedule,
                !.suspend = job[r].suspended]

\* The merge patch: the schedule if the body has one that differs from what was
\* read, and the suspension whenever it differs, unset and false included.
Patched(r, cur) ==
    [cur EXCEPT
        !.schedule = IF job[r].schedule \in {None, base[r].schedule} THEN @
                     ELSE job[r].schedule,
        !.suspend = IF job[r].suspended = base[r].suspend THEN @ ELSE job[r].suspended]

SchedPatched(r) ==
    /\ pc[r] = "patch"
    /\ scheds[job[r].id] # None
    /\ scheds' = [scheds EXCEPT ![job[r].id] = Patched(r, @)]
    /\ UNCHANGED <<health, backups, uids>>

PatchSched(r) == SchedPatched(r) /\ Answer(r, 200)

\* By name, without a precondition.
SchedDeleted(r) ==
    /\ pc[r] = "delete"
    /\ scheds[job[r].id] # None
    /\ scheds' = [scheds EXCEPT ![job[r].id] = None]
    /\ UNCHANGED <<health, backups, uids>>

DeleteSched(r) == SchedDeleted(r) /\ Answer(r, 204)

GoneMeanwhile(r) ==
    /\ pc[r] \in {"patch", "delete"}
    /\ scheds[job[r].id] = None
    /\ Answer(r, 404)
    /\ UNCHANGED <<health, backups, scheds, uids>>

\* The call fails, or TriggerBackup refuses the method.  An error whose text
\* says "not found" is a 404, but for the creation of a schedule.
Fails(r, status) ==
    /\ pc[r] # "idle"
    /\ status = 404 => job[r].op # "create"
    /\ Answer(r, status)
    /\ UNCHANGED <<health, backups, scheds, uids>>

\* The call is carried out and its answer is lost: the time is up, the connection
\* breaks, or the client has left and its context is cancelled.
AnswerLost(r) ==
    /\ BackupCreated(r) \/ SchedCreated(r) \/ SchedPatched(r) \/ SchedDeleted(r)
    /\ Answer(r, 500)

\* Clusters come, go, and change their health.
ClusterChanges(c, h) ==
    /\ health[c] # h
    /\ health' = [health EXCEPT ![c] = h]
    /\ UNCHANGED <<backups, scheds, uids, pc, job, base, answer>>

Arrival(r) ==
    \E c \in Clusters :
        \/ ArriveTrigger(r, c)
        \/ \E i \in Ids, s \in Schedules : ArriveCreate(r, c, i, s)
        \/ \E i \in Ids, s \in Schedules \cup {None}, susp \in BOOLEAN :
            ArriveUpdate(r, c, i, s, susp)
        \/ \E i \in Ids : ArriveDelete(r, c, i)

ServiceStep(r) ==
    \/ CheckCluster(r) \/ CreateBackup(r)
    \/ CreateSched(r) \/ SchedExists(r)
    \/ FetchSched(r) \/ FetchFindsNothing(r)
    \/ PatchSched(r) \/ DeleteSched(r) \/ GoneMeanwhile(r) \/ AnswerLost(r)
    \/ \E status \in {404, 500} : Fails(r, status)

Next ==
    \/ \E r \in Requests : Arrival(r) \/ ServiceStep(r)
    \/ \E c \in Clusters, h \in {"absent", "healthy", "unhealthy"} : ClusterChanges(c, h)

Spec == Init /\ [][Next]_vars

-----------------------------------------------------------------------------
(* Safety *)

\* Whatever changes or deletes a schedule is a request that has checked the ownership,
\* of the very schedule or of one that bore its name before it: another cluster's is
\* hit only if it was created after the check (service.go:171, 208).
ForeignOnlyIfRecreated ==
    [][\A i \in Ids :
        scheds[i] # None /\ scheds'[i] # scheds[i]
        => \E r \in Requests :
            /\ pc[r] \in {"patch", "delete"} /\ pc'[r] = "idle" /\ job[r].id = i
            /\ scheds[i].cluster = job[r].cluster \/ scheds[i].uid > base[r].uid]_vars

\* A schedule's cron expression changes only to what some request asks for: an
\* update that leaves it out does not bring back an older one (service.go:175).
OnlyAskedSchedules ==
    [][\A i \in Ids :
        scheds[i] # None /\ scheds'[i] # None /\ scheds'[i] # scheds[i]
        /\ scheds'[i].schedule # scheds[i].schedule
        => \E r \in Requests :
            /\ pc[r] = "patch" /\ pc'[r] = "idle" /\ job[r].id = i
            /\ scheds'[i].schedule = job[r].schedule]_vars

-----------------------------------------------------------------------------
(* What the comments say and the code does not do *)

\* "It verifies that the ScheduledBackup belongs to clusterName before
\* deleting" (service.go:192): what is deleted belongs to that cluster.
DeleteStaysInCluster ==
    [][\A r \in Requests :
        pc[r] = "delete" /\ answer'[r] = 204 => scheds[job[r].id].cluster = job[r].cluster]_vars

\* "Only non-empty/non-zero fields are applied" (types.go:158): an update that
\* does not set suspended leaves a suspended schedule suspended.
SuspendedUnlessAsked ==
    [][\A r \in Requests :
        pc[r] = "patch" /\ answer'[r] = 200 /\ scheds[job[r].id].suspend = TRUE
        => scheds'[job[r].id].suspend = TRUE]_vars

\* 409 of POST backups is "Cluster not in a healthy state" (openapi.yaml:571-572):
\* a cluster that was unhealthy all along gets no Backup.
UnhealthyRefused ==
    [][\A c \in Clusters : backups'[c] # backups[c] => health[c] # "unhealthy"]_vars

=============================================================================
