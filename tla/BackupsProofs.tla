---------------------------- MODULE BackupsProofs ----------------------------
(***************************************************************************)
(* Proofs about Backups, for any number of requests, clusters, names and   *)
(* cron expressions, and however many objects are ever created.            *)
(***************************************************************************)
EXTENDS Backups, TLAPS

-----------------------------------------------------------------------------
(* The inductive invariant: what a request is asked for, by where it stands, *)
(* and how the schedule it has read relates to the one that now has its      *)
(* name: it is the same, with the same cluster, or one created later.        *)

JobInv(r) ==
    /\ pc[r] # "idle" => job[r] \in Job /\ answer[r] = 0
    /\ pc[r] = "create" => job[r].schedule \in Schedules
    /\ pc[r] \in {"create", "fetch", "patch", "delete"} => job[r].id \in Ids

SameOrLater(r, cur) ==
    \/ cur.uid = base[r].uid /\ cur.cluster = job[r].cluster
    \/ cur.uid > base[r].uid

BaseInv(r) ==
    pc[r] \in {"patch", "delete"} =>
        /\ base[r] \in Sched
        /\ base[r].uid <= uids
        /\ scheds[job[r].id] # None => SameOrLater(r, scheds[job[r].id])

UidInv == \A i \in Ids : scheds[i] # None => scheds[i].uid <= uids

IInv ==
    /\ TypeOK
    /\ UidInv
    /\ \A r \in Requests : JobInv(r) /\ BaseInv(r)

-----------------------------------------------------------------------------
(* Operators *)

LEMMA AnswerLemma ==
    ASSUME TypeOK, NEW r \in Requests, NEW status \in {200, 201, 202, 204, 404, 500},
           Answer(r, status)
    PROVE  /\ pc' \in [Requests -> {"idle", "check", "backup", "create", "fetch", "patch", "delete"}]
           /\ job' \in [Requests -> Job \cup {None}]
           /\ base' \in [Requests -> Sched \cup {None}]
           /\ answer' \in [Requests -> {0, 200, 201, 202, 204, 404, 500}]
           /\ pc'[r] = "idle" /\ answer'[r] = status
           /\ \A x \in Requests \ {r} :
                pc'[x] = pc[x] /\ job'[x] = job[x] /\ base'[x] = base[x] /\ answer'[x] = answer[x]
BY DEF Answer, TypeOK

\* A merge patch sets fields; the object it reaches stays that object.
LEMMA PatchedLemma ==
    ASSUME TypeOK, NEW r \in Requests, job[r] \in Job, NEW cur \in Sched
    PROVE  /\ Patched(r, cur) \in Sched
           /\ Patched(r, cur).uid = cur.uid
           /\ Patched(r, cur).cluster = cur.cluster
           /\ Patched(r, cur).schedule # cur.schedule
              => Patched(r, cur).schedule = job[r].schedule
BY DEF Patched, Sched, Job

-----------------------------------------------------------------------------
(* The invariant *)

LEMMA InitIInv == Init => IInv
BY BackupsAssumption DEF Init, IInv, TypeOK, UidInv, JobInv, BaseInv

\* A step that leaves the schedules and ends or does not touch a request.
LEMMA AnswerStep ==
    ASSUME IInv, NEW r \in Requests, NEW status \in {200, 201, 202, 204, 404, 500},
           Answer(r, status), UNCHANGED <<health, scheds, uids>>,
           backups' \in [Clusters -> 0..MaxBackups]
    PROVE  IInv'
<1>1. TypeOK'
  BY AnswerLemma DEF IInv, TypeOK
<1>2. UidInv'
  BY DEF IInv, UidInv
<1>3. ASSUME NEW x \in Requests PROVE JobInv(x)' /\ BaseInv(x)'
  <2>1. CASE x = r
    BY <2>1, AnswerLemma DEF IInv, JobInv, BaseInv
  <2>2. CASE x # r
    BY <2>2, AnswerLemma DEF IInv, JobInv, BaseInv, SameOrLater
  <2> QED BY <2>1, <2>2
<1> QED BY <1>1, <1>2, <1>3 DEF IInv

LEMMA ArrivalStep ==
    ASSUME IInv, NEW r \in Requests, Arrival(r)
    PROVE  IInv'
<1>1. PICK j \in Job, first \in {"check", "create", "fetch"} :
        /\ pc' = [pc EXCEPT ![r] = first]
        /\ job' = [job EXCEPT ![r] = j]
        /\ answer' = [answer EXCEPT ![r] = 0]
        /\ UNCHANGED <<health, backups, scheds, uids, base>>
        /\ first = "create" => j.schedule \in Schedules
        /\ first \in {"create", "fetch"} => j.id \in Ids
  BY DEF Arrival, ArriveTrigger, ArriveCreate, ArriveUpdate, ArriveDelete, Arrive, Job, Ops
<1>2. TypeOK'
  BY <1>1 DEF IInv, TypeOK
<1>3. UidInv'
  BY <1>1 DEF IInv, UidInv
<1>4. ASSUME NEW x \in Requests PROVE JobInv(x)' /\ BaseInv(x)'
  BY <1>1 DEF IInv, TypeOK, JobInv, BaseInv, SameOrLater
<1> QED BY <1>2, <1>3, <1>4 DEF IInv

\* A new schedule is later than all that have been read.
LEMMA CreateStep ==
    ASSUME IInv, NEW r \in Requests, SchedCreated(r),
           NEW status \in {201, 500}, Answer(r, status)
    PROVE  IInv'
<1> DEFINE i == job[r].id
           new == [uid |-> uids + 1, cluster |-> job[r].cluster,
                   schedule |-> job[r].schedule, suspend |-> None]
<1>1. /\ i \in Ids /\ new \in Sched /\ uids \in Nat /\ uids' = uids + 1 /\ uids' \in 0..MaxUid
      /\ scheds' = [scheds EXCEPT ![i] = new]
      /\ UNCHANGED <<health, backups>>
  BY BackupsAssumption DEF SchedCreated, IInv, TypeOK, JobInv, Job, Sched
<1>2. TypeOK'
  BY <1>1, AnswerLemma DEF IInv, TypeOK
<1>3. UidInv'
  <2>1. ASSUME NEW k \in Ids, scheds'[k] # None PROVE scheds'[k].uid <= uids'
    <3>1. CASE k = i
      BY <3>1, <1>1 DEF IInv, TypeOK
    <3>2. CASE k # i
      <4>1. scheds'[k] = scheds[k] /\ scheds[k] \in Sched /\ scheds[k].uid <= uids
        BY <3>2, <2>1, <1>1 DEF IInv, TypeOK, UidInv
      <4> QED BY <4>1, <1>1 DEF Sched
    <3> QED BY <3>1, <3>2
  <2> QED BY <2>1 DEF UidInv
<1>4. ASSUME NEW x \in Requests PROVE JobInv(x)' /\ BaseInv(x)'
  <2>1. CASE x = r
    BY <2>1, <1>1, AnswerLemma DEF IInv, JobInv, BaseInv
  <2>2. CASE x # r
    <3>1. /\ pc'[x] = pc[x] /\ job'[x] = job[x] /\ base'[x] = base[x] /\ answer'[x] = answer[x]
      BY <2>2, <1>1, AnswerLemma DEF IInv
    <3>2. JobInv(x)'
      BY <3>1 DEF IInv, JobInv
    <3>3. ASSUME pc[x] \in {"patch", "delete"}
          PROVE  /\ base[x] \in Sched /\ base[x].uid <= uids'
                 /\ scheds'[job[x].id] # None => SameOrLater(x, scheds'[job[x].id])
      <4>1. base[x] \in Sched /\ base[x].uid \in Nat /\ base[x].uid <= uids /\ job[x].id \in Ids
        BY <3>3 DEF IInv, BaseInv, JobInv, Sched
      <4>2. CASE job[x].id = i
        <5>1. scheds'[job[x].id] = new
          BY <4>1, <4>2, <1>1 DEF IInv, TypeOK
        <5> QED BY <5>1, <4>1, <1>1 DEF SameOrLater
      <4>3. CASE job[x].id # i
        <5>1. scheds'[job[x].id] = scheds[job[x].id]
          BY <4>1, <4>3, <1>1 DEF IInv, TypeOK
        <5> QED BY <5>1, <4>1, <1>1, <3>3 DEF IInv, BaseInv
      <4> QED BY <4>2, <4>3
    <3>4. BaseInv(x)'
      BY <3>1, <3>3 DEF BaseInv, SameOrLater
    <3> QED BY <3>2, <3>4
  <2> QED BY <2>1, <2>2
<1> QED BY <1>2, <1>3, <1>4 DEF IInv

\* A patch or a delete leaves under the name the object that was there, or none.
LEMMA WriteStep ==
    ASSUME IInv, NEW r \in Requests, SchedPatched(r) \/ SchedDeleted(r),
           NEW status \in {200, 204, 500}, Answer(r, status)
    PROVE  IInv'
<1> DEFINE i == job[r].id
<1>1. PICK new \in Sched \cup {None} :
        /\ scheds' = [scheds EXCEPT ![i] = new]
        /\ new # None => scheds[i] \in Sched /\ new.uid = scheds[i].uid
                         /\ new.cluster = scheds[i].cluster
  <2>0. i \in Ids /\ job[r] \in Job /\ scheds[i] # None /\ scheds[i] \in Sched
    BY DEF SchedPatched, SchedDeleted, IInv, JobInv, TypeOK
  <2>1. CASE SchedPatched(r)
    <3>1. scheds' = [scheds EXCEPT ![i] = Patched(r, scheds[i])]
      BY <2>0, <2>1 DEF SchedPatched, IInv, TypeOK
    <3>2. PICK new \in Sched : new = Patched(r, scheds[i])
      BY <2>0, PatchedLemma DEF IInv
    <3>3. new.uid = scheds[i].uid /\ new.cluster = scheds[i].cluster
      BY <2>0, <3>2, PatchedLemma DEF IInv
    <3> QED BY <2>0, <3>1, <3>2, <3>3
  <2>2. CASE SchedDeleted(r)
    BY <2>2 DEF SchedDeleted
  <2> QED BY <2>1, <2>2
<1>2. i \in Ids /\ UNCHANGED <<health, backups, uids>> /\ scheds[i] # None
  BY DEF SchedPatched, SchedDeleted, IInv, JobInv
<1>3. TypeOK'
  BY <1>1, <1>2, AnswerLemma DEF IInv, TypeOK
<1>4. UidInv'
  BY <1>1, <1>2 DEF IInv, TypeOK, UidInv
<1>5. ASSUME NEW x \in Requests PROVE JobInv(x)' /\ BaseInv(x)'
  <2>1. CASE x = r
    BY <2>1, AnswerLemma DEF IInv, JobInv, BaseInv
  <2>2. CASE x # r
    <3>1. /\ pc'[x] = pc[x] /\ job'[x] = job[x] /\ base'[x] = base[x] /\ answer'[x] = answer[x]
      BY <2>2, AnswerLemma DEF IInv
    <3>2. JobInv(x)'
      BY <3>1 DEF IInv, JobInv
    <3>3. ASSUME pc[x] \in {"patch", "delete"}, scheds'[job[x].id] # None
          PROVE  SameOrLater(x, scheds'[job[x].id])
      <4>1. job[x].id \in Ids
        BY <3>3 DEF IInv, JobInv
      <4>2. CASE job[x].id = i
        <5>1. scheds'[job[x].id] = new
          BY <4>1, <4>2, <1>1 DEF IInv, TypeOK
        <5> QED BY <5>1, <4>2, <3>3, <1>1, <1>2 DEF IInv, BaseInv, SameOrLater
      <4>3. CASE job[x].id # i
        <5>1. scheds'[job[x].id] = scheds[job[x].id]
          BY <4>1, <4>3, <1>1 DEF IInv, TypeOK
        <5> QED BY <5>1, <3>3 DEF IInv, BaseInv
      <4> QED BY <4>2, <4>3
    <3>4. BaseInv(x)'
      BY <3>1, <3>3, <1>2 DEF IInv, BaseInv, SameOrLater
    <3> QED BY <3>2, <3>4
  <2> QED BY <2>1, <2>2
<1> QED BY <1>3, <1>4, <1>5 DEF IInv

\* The ownership check: what is read is of the cluster in the URL.
LEMMA FetchStep ==
    ASSUME IInv, NEW r \in Requests, FetchSched(r)
    PROVE  IInv'
<1> DEFINE i == job[r].id
<1>1. /\ i \in Ids /\ job[r] \in Job /\ answer[r] = 0
      /\ scheds[i] \in Sched /\ scheds[i].cluster = job[r].cluster /\ scheds[i].uid <= uids
      /\ base' = [base EXCEPT ![r] = scheds[i]]
      /\ UNCHANGED <<health, backups, scheds, uids, job, answer>>
  BY DEF FetchSched, Owned, IInv, TypeOK, JobInv, UidInv
<1>2. PICK next \in {"patch", "delete"} : pc' = [pc EXCEPT ![r] = next]
  BY DEF FetchSched
<1>3. TypeOK'
  BY <1>1, <1>2 DEF IInv, TypeOK
<1>4. UidInv'
  BY <1>1 DEF IInv, UidInv
<1>5. ASSUME NEW x \in Requests PROVE JobInv(x)' /\ BaseInv(x)'
  <2>1. CASE x = r
    BY <2>1, <1>1, <1>2 DEF IInv, TypeOK, JobInv, BaseInv, SameOrLater
  <2>2. CASE x # r
    BY <2>2, <1>1, <1>2 DEF IInv, TypeOK, JobInv, BaseInv, SameOrLater
  <2> QED BY <2>1, <2>2
<1> QED BY <1>3, <1>4, <1>5 DEF IInv

LEMMA NextIInv ==
    ASSUME IInv, [Next]_vars
    PROVE  IInv'
<1>1. ASSUME NEW r \in Requests, Arrival(r) PROVE IInv'
  BY <1>1, ArrivalStep
<1>2. ASSUME NEW r \in Requests, CheckCluster(r) PROVE IInv'
  <2>1. CASE Answer(r, 404)
    BY <1>2, <2>1, AnswerStep DEF CheckCluster, IInv, TypeOK
  <2>2. CASE pc' = [pc EXCEPT ![r] = "backup"] /\ UNCHANGED <<job, base, answer>>
    <3>1. UNCHANGED <<health, backups, scheds, uids, job, base, answer>> /\ pc[r] = "check"
      BY <1>2, <2>2 DEF CheckCluster
    <3> QED BY <2>2, <3>1 DEF IInv, TypeOK, UidInv, JobInv, BaseInv, SameOrLater
  <2> QED BY <1>2, <2>1, <2>2 DEF CheckCluster
<1>3. ASSUME NEW r \in Requests, BackupCreated(r), NEW status \in {202, 500}, Answer(r, status)
      PROVE  IInv'
  <2>1. backups' \in [Clusters -> 0..MaxBackups]
    <3>1. job[r].cluster \in Clusters
      BY <1>3 DEF BackupCreated, IInv, JobInv, Job
    <3>2. backups[job[r].cluster] + 1 \in 0..MaxBackups
      BY <1>3, <3>1, BackupsAssumption DEF BackupCreated, IInv, TypeOK
    <3> QED BY <1>3, <3>2 DEF BackupCreated, IInv, TypeOK
  <2> QED BY <1>3, <2>1, AnswerStep DEF BackupCreated
<1>4. ASSUME NEW r \in Requests,
             CreateBackup(r) \/ CreateSched(r) \/ PatchSched(r) \/ DeleteSched(r) \/ AnswerLost(r)
      PROVE  IInv'
  <2>1. CASE CreateBackup(r) \/ CreateSched(r)
    BY <2>1, <1>3, CreateStep DEF CreateBackup, CreateSched
  <2>2. CASE PatchSched(r) \/ DeleteSched(r)
    BY <2>2, WriteStep DEF PatchSched, DeleteSched
  <2>3. CASE AnswerLost(r)
    BY <2>3, <1>3, CreateStep, WriteStep DEF AnswerLost
  <2> QED BY <1>4, <2>1, <2>2, <2>3
<1>5. ASSUME NEW r \in Requests, FetchSched(r) PROVE IInv'
  BY <1>5, FetchStep
<1>6. ASSUME NEW r \in Requests,
             \/ SchedExists(r) \/ FetchFindsNothing(r) \/ GoneMeanwhile(r)
             \/ \E status \in {404, 500} : Fails(r, status)
      PROVE  IInv'
  BY <1>6, AnswerStep DEF SchedExists, FetchFindsNothing, GoneMeanwhile, Fails, IInv, TypeOK
<1>7. ASSUME NEW c \in Clusters, NEW h \in {"absent", "healthy", "unhealthy"},
             ClusterChanges(c, h)
      PROVE  IInv'
  BY <1>7 DEF ClusterChanges, IInv, TypeOK, UidInv, JobInv, BaseInv, SameOrLater
<1>8. CASE UNCHANGED vars
  BY <1>8 DEF vars, IInv, TypeOK, UidInv, JobInv, BaseInv, SameOrLater
<1> QED
  BY <1>1, <1>2, <1>4, <1>5, <1>6, <1>7, <1>8 DEF Next, ServiceStep

LEMMA Invariance == Spec => []IInv
BY InitIInv, NextIInv, PTL DEF Spec

\* Type correctness: what the API server holds is well-formed whatever the requests,
\* and so is what they have read.
THEOREM TypeCorrect == Spec => []TypeOK
<1>1. IInv => TypeOK
  BY DEF IInv
<1> QED BY <1>1, Invariance, PTL

-----------------------------------------------------------------------------
(* What a request may do to a schedule *)

\* A schedule changes, or goes, by the patch or the deletion of one request, which ends.
LEMMA OnlyWritesChange ==
    ASSUME IInv, [Next]_vars, NEW i \in Ids, scheds[i] # None, scheds'[i] # scheds[i]
    PROVE  \E r \in Requests : /\ SchedPatched(r) \/ SchedDeleted(r)
                               /\ job[r].id = i /\ pc'[r] = "idle"
<1>1. ASSUME NEW r \in Requests, ServiceStep(r)
      PROVE  (SchedPatched(r) \/ SchedDeleted(r)) /\ job[r].id = i /\ pc'[r] = "idle"
  <2>1. ~SchedCreated(r)
    BY DEF SchedCreated, IInv, TypeOK
  <2>2. SchedPatched(r) \/ SchedDeleted(r)
    BY <1>1, <2>1
       DEF ServiceStep, CheckCluster, CreateBackup, BackupCreated, CreateSched, SchedExists,
           FetchSched, FetchFindsNothing, PatchSched, DeleteSched, GoneMeanwhile, Fails, AnswerLost
  <2>3. job[r].id = i
    BY <2>2 DEF SchedPatched, SchedDeleted, IInv, TypeOK
  <2>4. ~FetchSched(r) /\ ~CheckCluster(r)
    BY DEF FetchSched, CheckCluster
  <2>5. \E status : Answer(r, status)
    BY <1>1, <2>4
       DEF ServiceStep, CreateBackup, CreateSched, SchedExists, FetchFindsNothing,
           PatchSched, DeleteSched, GoneMeanwhile, Fails, AnswerLost
  <2>6. pc'[r] = "idle"
    BY <2>5 DEF Answer, IInv, TypeOK
  <2> QED BY <2>2, <2>3, <2>6
<1>2. ASSUME NEW r \in Requests, Arrival(r) PROVE FALSE
  BY <1>2 DEF Arrival, ArriveTrigger, ArriveCreate, ArriveUpdate, ArriveDelete, Arrive
<1> QED BY <1>1, <1>2 DEF Next, ClusterChanges, vars

\* The ownership check is made on a copy, yet a request changes or deletes another
\* cluster's schedule only if it was created after the check (service.go:171, 208).
THEOREM ForeignIsRecreated == Spec => ForeignOnlyIfRecreated
<1>1. ASSUME IInv, [Next]_vars, NEW i \in Ids, scheds[i] # None, scheds'[i] # scheds[i]
      PROVE  \E r \in Requests :
                /\ pc[r] \in {"patch", "delete"} /\ pc'[r] = "idle" /\ job[r].id = i
                /\ scheds[i].cluster = job[r].cluster \/ scheds[i].uid > base[r].uid
  <2>1. PICK r \in Requests : /\ SchedPatched(r) \/ SchedDeleted(r)
                             /\ job[r].id = i /\ pc'[r] = "idle"
    BY <1>1, OnlyWritesChange
  <2>2. pc[r] \in {"patch", "delete"}
    BY <2>1 DEF SchedPatched, SchedDeleted
  <2>3. SameOrLater(r, scheds[i])
    BY <1>1, <2>1, <2>2 DEF IInv, BaseInv
  <2> QED BY <2>1, <2>2, <2>3 DEF SameOrLater
<1>2. IInv /\ [Next]_vars =>
        [\A i \in Ids :
            scheds[i] # None /\ scheds'[i] # scheds[i]
            => \E r \in Requests :
                /\ pc[r] \in {"patch", "delete"} /\ pc'[r] = "idle" /\ job[r].id = i
                /\ scheds[i].cluster = job[r].cluster \/ scheds[i].uid > base[r].uid]_vars
  BY <1>1
<1> QED BY <1>2, Invariance, PTL DEF Spec, ForeignOnlyIfRecreated

\* A cron expression changes only to what a request asks for: the merge patch sends no
\* field that the body leaves out (service.go:175).
THEOREM AskedSchedules == Spec => OnlyAskedSchedules
<1>1. ASSUME IInv, [Next]_vars, NEW i \in Ids, scheds[i] # None, scheds'[i] # None,
             scheds'[i].schedule # scheds[i].schedule
      PROVE  \E r \in Requests :
                /\ pc[r] = "patch" /\ pc'[r] = "idle" /\ job[r].id = i
                /\ scheds'[i].schedule = job[r].schedule
  <2>1. PICK r \in Requests : /\ SchedPatched(r) \/ SchedDeleted(r)
                             /\ job[r].id = i /\ pc'[r] = "idle"
    BY <1>1, OnlyWritesChange
  <2>2. SchedPatched(r)
    BY <1>1, <2>1 DEF SchedDeleted, IInv, TypeOK
  <2>3. pc[r] = "patch" /\ job[r] \in Job
    <3>1. pc[r] = "patch"
      BY <2>2 DEF SchedPatched
    <3> QED BY <1>1, <3>1 DEF IInv, JobInv
  <2>4. scheds'[i] = Patched(r, scheds[i]) /\ scheds[i] \in Sched
    BY <1>1, <2>1, <2>2 DEF SchedPatched, IInv, TypeOK
  <2> QED BY <1>1, <2>1, <2>3, <2>4, PatchedLemma DEF IInv
<1>2. IInv /\ [Next]_vars =>
        [\A i \in Ids :
            scheds[i] # None /\ scheds'[i] # None /\ scheds'[i] # scheds[i]
            /\ scheds'[i].schedule # scheds[i].schedule
            => \E r \in Requests :
                /\ pc[r] = "patch" /\ pc'[r] = "idle" /\ job[r].id = i
                /\ scheds'[i].schedule = job[r].schedule]_vars
  BY <1>1
<1> QED BY <1>2, Invariance, PTL DEF Spec, OnlyAskedSchedules

=============================================================================
