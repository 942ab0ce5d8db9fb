---------------------------- MODULE WatcherProofs ----------------------------
(***************************************************************************)
(* Proofs about Watcher, for any numbers of namespaces, names, changes and *)
(* lost watches, any capacity of the stream's channel and any phases.      *)
(***************************************************************************)
EXTENDS Watcher, FiniteSetTheorems, TLAPS

-----------------------------------------------------------------------------
(* The inductive invariant.  A state of an object travels from the API     *)
(* server through the watch, the callbacks and the job to the topics; its  *)
(* parts say how what is at one place relates to what is at the next.      *)

TopicsOf(o) == {Clusters, Specific(o)}

\* The last element of q[1..n] that is about o has version v.
LatestIs(q, n, o, v) ==
    \E j \in 1..n : /\ q[j].obj = o /\ q[j].ver = v
                    /\ \A m \in j + 1 .. n : q[m].obj # o

Absent(q, n, o) == \A m \in 1..n : q[m].obj # o

Publishes(t, o, k) == job[k].topic = t /\ job[k].obj = o

\* Topic t shows version v of o once the running callback has published.
DoneIs(t, o, v) ==
    \/ \E k \in 1..Len(job) : Publishes(t, o, k) /\ job[k].ver = v
    \/ shown[t][o] = v /\ \A k \in 1..Len(job) : ~Publishes(t, o, k)

\* It shows it once the first n of the pending callbacks have published, too.
Shows(t, n, o, v) ==
    \/ LatestIs(notes, n, o, v)
    \/ Absent(notes, n, o) /\ DoneIs(t, o, v)

\* The informer's store has version v of o once it has read n changes.
Stores(n, o, v) ==
    \/ LatestIs(watch, n, o, v)
    \/ Absent(watch, n, o) /\ cache[o] = v

\* The publications of a callback go to the two topics of its object; after the first
\* of them "clusters" is ahead by that event.
JobInv ==
    /\ Len(job) \in 0..2
    /\ Len(job) = 2 => /\ job[1].topic = Clusters /\ job[2].topic = Specific(job[1].obj)
                       /\ job[2].obj = job[1].obj /\ job[2].ver = job[1].ver
                       /\ job[2].kind = job[1].kind
    /\ Len(job) = 1 => /\ job[1].topic = Specific(job[1].obj)
                       /\ job[1].ver = shown[Clusters][job[1].obj]
    /\ \A o \in Objects : shown[Specific(o)][o] = shown[Clusters][o]
                          \/ (Len(job) = 1 /\ job[1].obj = o)

\* What is not a creation is about an object that its topic shows by then.
Follows(n) ==
    notes[n].call # "OnAdd" =>
        \A t \in TopicsOf(notes[n].obj) :
            \E v \in 1..MaxVersion : Shows(t, n - 1, notes[n].obj, v)

\* An object is created, updated and deleted in this order: on the topics, ...
ShownKinds ==
    \A t \in Topics, o \in Objects :
        shown[t][o] # 0 <=> kinds[t][o] \in {"cluster.created", "cluster.updated"}

\* ... in the job ...
JobKinds ==
    \A k \in 1..Len(job) :
        /\ job[k].kind = "cluster.deleted" <=> job[k].ver = 0
        /\ job[k].kind # "cluster.created" => shown[job[k].topic][job[k].obj] # 0

\* ... and among the callbacks.
NoteKinds ==
    \A n \in 1..Len(notes) :
        /\ notes[n].call = "OnDelete" <=> notes[n].ver = 0
        /\ notes[n].tombstone => notes[n].ver = 0
        /\ Follows(n)

KindInv == ShownKinds /\ JobKinds /\ NoteKinds

\* The store is what the callbacks will have shown, but for deletions that came as a
\* tombstone; ...
StoreShown ==
    \A o \in Objects : cache[o] # 0 =>
        \A t \in TopicsOf(o) : Shows(t, Len(notes), o, cache[o])

\* ... the server's state is the store with the watch's changes, and only an object
\* that exists is deleted.
WatchCurrent ==
    /\ broken => watch = <<>>
    /\ ~broken => \A o \in Objects : Stores(Len(watch), o, world[o])
    /\ \A n \in 1..Len(watch) : watch[n].ver = 0 =>
        \E v \in 1..MaxVersion : Stores(n - 1, watch[n].obj, v)

CurrentInv == StoreShown /\ WatchCurrent

\* Version y may follow x.
Up(x, y) == y # 0 => x <= y
UpSeq(x, o, q) == \A k \in 1..Len(q) : q[k].obj = o => Up(x, q[k].ver)
UpWithin(q) == \A j, k \in 1..Len(q) :
    j < k /\ q[j].obj = q[k].obj => Up(q[j].ver, q[k].ver)

\* What follows version x of o at the API server.
Behind(x, o) == x <= version /\ Up(x, world[o]) /\ UpSeq(x, o, watch)

\* Versions only grow along the way, deletions aside.
WatchOrder ==
    /\ \A o \in Objects : world[o] <= version
    /\ \A k \in 1..Len(watch) :
        watch[k].ver <= version /\ Up(watch[k].ver, world[watch[k].obj])
    /\ UpWithin(watch)

NotesOrder ==
    /\ \A k \in 1..Len(notes) : Behind(notes[k].ver, notes[k].obj)
    /\ UpWithin(notes)

JobOrder ==
    \A k \in 1..Len(job) :
        Behind(job[k].ver, job[k].obj) /\ UpSeq(job[k].ver, job[k].obj, notes)

ShownOrder ==
    \A t \in Topics, o \in Objects :
        /\ Behind(shown[t][o], o)
        /\ UpSeq(shown[t][o], o, notes) /\ UpSeq(shown[t][o], o, job)

OrderInv == WatchOrder /\ NotesOrder /\ JobOrder /\ ShownOrder

\* The topic's last event is the last one in the stream's channel, or read.
StreamInv ==
    \A o \in last :
        /\ heard \in TopicsOf(o)
        /\ sending # <<>> => (sending[1].obj = o /\ sending[1].ver = shown[heard][o])
        /\ sending = <<>> /\ channel # <<>> =>
            /\ channel[Len(channel)].obj = o
            /\ channel[Len(channel)].ver = shown[heard][o]
        /\ sending = <<>> /\ channel = <<>> => view[o] = shown[heard][o]

\* The part of the invariant about what is published, as a whole; versions and the
\* stream build on it.
PublishInv == TypeOK /\ JobInv /\ KindInv /\ CurrentInv

-----------------------------------------------------------------------------
(* Lemmas: the last element of a sequence that is about an object           *)

\* It does not depend on what is behind the first n elements.
LEMMA LatestSame ==
    ASSUME NEW q, NEW r, NEW n \in Nat, NEW o, NEW v,
           \A i \in 1..n : r[i] = q[i]
    PROVE  /\ LatestIs(q, n, o, v) => LatestIs(r, n, o, v)
           /\ Absent(q, n, o) => Absent(r, n, o)
  BY DEF LatestIs, Absent

\* An element more, about o ...
LEMMA LatestSnoc ==
    ASSUME NEW r, NEW n \in Nat, NEW o, r[n + 1].obj = o
    PROVE  LatestIs(r, n + 1, o, r[n + 1].ver)
  BY n + 1 \in 1..n + 1 DEF LatestIs

\* ... or about another object.
LEMMA LatestSnocOther ==
    ASSUME NEW r, NEW n \in Nat, NEW o, NEW v, r[n + 1].obj # o
    PROVE  /\ LatestIs(r, n, o, v) => LatestIs(r, n + 1, o, v)
           /\ Absent(r, n, o) => Absent(r, n + 1, o)
<1>1. ASSUME LatestIs(r, n, o, v) PROVE LatestIs(r, n + 1, o, v)
  <2>1. PICK j \in 1..n : /\ r[j].obj = o /\ r[j].ver = v
                          /\ \A m \in j + 1 .. n : r[m].obj # o
    BY <1>1 DEF LatestIs
  <2>2. \A m \in j + 1 .. n + 1 : m = n + 1 \/ m \in j + 1 .. n
    OBVIOUS
  <2>3. j \in 1..n + 1 /\ \A m \in j + 1 .. n + 1 : r[m].obj # o
    BY <2>1, <2>2
  <2> QED BY <2>1, <2>3 DEF LatestIs
<1>2. ASSUME Absent(r, n, o) PROVE Absent(r, n + 1, o)
  <2>1. \A m \in 1 .. n + 1 : m = n + 1 \/ m \in 1..n
    OBVIOUS
  <2> QED BY <1>2, <2>1 DEF Absent
<1> QED BY <1>1, <1>2

\* r is what is left of q[1..n] when the first element leaves.
IsTail(q, r, n) == \A i \in 1..n - 1 : r[i] = q[i + 1]

\* The last one about o stays then, or is the one that left.
LEMMA LatestTail ==
    ASSUME NEW q, NEW r, NEW n \in Nat \ {0}, NEW o, NEW v, IsTail(q, r, n)
    PROVE  /\ LatestIs(q, n, o, v) =>
                \/ LatestIs(r, n - 1, o, v)
                \/ Absent(r, n - 1, o) /\ q[1].obj = o /\ q[1].ver = v
           /\ Absent(q, n, o) => Absent(r, n - 1, o) /\ q[1].obj # o
<1>1. ASSUME LatestIs(q, n, o, v)
      PROVE  \/ LatestIs(r, n - 1, o, v)
             \/ Absent(r, n - 1, o) /\ q[1].obj = o /\ q[1].ver = v
  <2>1. PICK j \in 1..n : /\ q[j].obj = o /\ q[j].ver = v
                          /\ \A m \in j + 1 .. n : q[m].obj # o
    BY <1>1 DEF LatestIs
  <2>2. \A m \in j .. n - 1 : r[m] = q[m + 1] /\ m + 1 \in j + 1 .. n
    BY DEF IsTail
  <2>3. \A m \in j .. n - 1 : r[m].obj # o
    BY <2>1, <2>2
  <2>4. CASE j = 1
    BY <2>1, <2>3, <2>4 DEF Absent
  <2>5. CASE j # 1
    <3>1. j - 1 \in 1..n - 1 /\ r[j - 1] = q[(j - 1) + 1] /\ (j - 1) + 1 = j
      BY <2>5 DEF IsTail
    <3>2. \A m \in (j - 1) + 1 .. n - 1 : r[m].obj # o
      BY <2>3, <3>1
    <3> QED BY <2>1, <3>1, <3>2 DEF LatestIs
  <2> QED BY <2>4, <2>5
<1>2. ASSUME Absent(q, n, o) PROVE Absent(r, n - 1, o) /\ q[1].obj # o
  <2>1. \A m \in 1..n - 1 : r[m] = q[m + 1] /\ m + 1 \in 1..n
    BY DEF IsTail
  <2> QED BY <1>2, <2>1 DEF Absent
<1> QED BY <1>1, <1>2

\* Elements about other objects behind the first n make no difference.
LEMMA LatestExtended ==
    ASSUME NEW r, NEW n \in Nat, NEW k \in Nat, NEW o, NEW v,
           \A m \in n + 1 .. n + k : r[m].obj # o
    PROVE  /\ LatestIs(r, n, o, v) => LatestIs(r, n + k, o, v)
           /\ Absent(r, n, o) => Absent(r, n + k, o)
<1>1. ASSUME LatestIs(r, n, o, v) PROVE LatestIs(r, n + k, o, v)
  <2>1. PICK j \in 1..n : /\ r[j].obj = o /\ r[j].ver = v
                          /\ \A m \in j + 1 .. n : r[m].obj # o
    BY <1>1 DEF LatestIs
  <2>2. \A m \in j + 1 .. n + k : m \in n + 1 .. n + k \/ m \in j + 1 .. n
    OBVIOUS
  <2>3. j \in 1..n + k /\ \A m \in j + 1 .. n + k : r[m].obj # o
    BY <2>1, <2>2
  <2> QED BY <2>1, <2>3 DEF LatestIs
<1>2. ASSUME Absent(r, n, o) PROVE Absent(r, n + k, o)
  <2>1. \A m \in 1 .. n + k : m \in n + 1 .. n + k \/ m \in 1..n
    OBVIOUS
  <2> QED BY <1>2, <2>1 DEF Absent
<1> QED BY <1>1, <1>2

-----------------------------------------------------------------------------
(* Types *)

LEMMA SpecificTopic ==
    \A o \in Objects : Specific(o) \in Topics /\ Specific(o) # Clusters /\ Clusters \in Topics
  BY WatcherAssumption DEF Objects, Specific, Topics

\* What Relist appends: a callback for each object of a list without repetitions.
LEMMA RelistNotes ==
    ASSUME TypeOK, Relist
    PROVE  \E same \in BOOLEAN, order \in Seq(Objects) :
             LET changed == {o \in Objects : cache[o] # world[o] \/ (same /\ world[o] # 0)}
                 add == [i \in 1..Len(order) |->
                            Callback(order[i], cache[order[i]], world[order[i]], TRUE)]
             IN  /\ notes' = notes \o add
                 /\ \A i \in 1..Len(order) : order[i] \in changed
                 /\ \A i, j \in 1..Len(order) : order[i] = order[j] => i = j
                 /\ \A o \in changed : \E i \in 1..Len(order) : order[i] = o
<1>1. PICK same \in BOOLEAN :
        \E order \in SetToSeqs({o \in Objects : cache[o] # world[o] \/ (same /\ world[o] # 0)}) :
            notes' = notes \o [i \in 1..Len(order) |->
                        Callback(order[i], cache[order[i]], world[order[i]], TRUE)]
  BY DEF Relist
<1> DEFINE changed == {o \in Objects : cache[o] # world[o] \/ (same /\ world[o] # 0)}
<1>2. PICK order \in SetToSeqs(changed) :
            notes' = notes \o [i \in 1..Len(order) |->
                        Callback(order[i], cache[order[i]], world[order[i]], TRUE)]
  BY <1>1
<1>3. IsFiniteSet(Objects)
  BY FS_Product, WatcherAssumption DEF Objects
<1>4. IsFiniteSet(changed) /\ Cardinality(changed) \in Nat
  BY <1>3, FS_Subset, FS_CardinalityType
<1>5. order \in [1..Cardinality(changed) -> changed]
      /\ \A i, j \in 1..Cardinality(changed) : order[i] = order[j] => i = j
  BY <1>2 DEF SetToSeqs
<1> HIDE DEF changed
<1>6. order \in Seq(changed) /\ Len(order) = Cardinality(changed)
  BY <1>4, <1>5
<1>7. \A o \in changed : \E i \in 1..Len(order) : order[i] = o
  <2>1. IsFiniteSet(1..Cardinality(changed))
        /\ Cardinality(1..Cardinality(changed)) = Cardinality(changed)
    BY <1>4, FS_Interval
  <2>2. order \in Injection(1..Cardinality(changed), changed)
    BY <1>5 DEF Injection, IsInjective
  <2>3. order \in Surjection(1..Cardinality(changed), changed)
    BY <1>4, <2>1, <2>2, FS_Injection
  <2> QED BY <1>6, <2>3 DEF Surjection
<1>8. /\ \A i \in 1..Len(order) : order[i] \in changed
      /\ \A i, j \in 1..Len(order) : order[i] = order[j] => i = j
  BY <1>5, <1>6
<1>9. order \in Seq(Objects)
  BY <1>6 DEF changed
<1> WITNESS same \in BOOLEAN, order \in Seq(Objects)
<1> QED BY <1>2, <1>7, <1>8 DEF changed

LEMMA CallbackType ==
    ASSUME NEW o \in Objects, NEW old \in Versions, NEW new \in Versions, NEW unseen \in BOOLEAN
    PROVE  Callback(o, old, new, unseen) \in Note
  BY DEF Callback, Note

\* Both publications of a callback.
EventOf(n, t) == [topic |-> t, kind |-> KindOf(n.call), obj |-> n.obj, ver |-> n.ver]

LEMMA EventType ==
    ASSUME NEW n \in Note, NEW t \in Topics
    PROVE  EventOf(n, t) \in Publication
  BY DEF EventOf, Note, Publication, KindOf, Kinds

LEMMA HandleJob ==
    ASSUME TypeOK, Handle
    PROVE  LET n == Head(notes)
           IN  /\ n = notes[1] /\ n \in Note /\ Len(notes) \in Nat \ {0}
               /\ n.tombstone => job' = <<>>
               /\ ~n.tombstone => job' = <<EventOf(n, Clusters), EventOf(n, Specific(n.obj))>>
               /\ notes' \in Seq(Note) /\ Len(notes') = Len(notes) - 1
               /\ \A i \in 1..Len(notes) - 1 : notes'[i] = notes[i + 1]
<1>1. notes \in Seq(Note) /\ notes # <<>> /\ notes' = Tail(notes)
  BY DEF TypeOK, Handle
<1>2. Head(notes) = notes[1] /\ Head(notes) \in Note /\ Len(notes) \in Nat \ {0}
      /\ notes' \in Seq(Note) /\ Len(notes') = Len(notes) - 1
      /\ \A i \in 1..Len(notes) - 1 : notes'[i] = notes[i + 1]
  BY <1>1
<1> QED BY <1>2 DEF Handle, EventOf

\* What a publication leaves in the job, and what it shows.
LEMMA PublishJob ==
    ASSUME TypeOK, PublishOne
    PROVE  LET e == Head(job)
           IN  /\ e = job[1] /\ e \in Publication /\ Len(job) \in Nat \ {0}
               /\ job' \in Seq(Publication) /\ Len(job') = Len(job) - 1
               /\ \A i \in 1..Len(job) - 1 : job'[i] = job[i + 1]
               /\ shown' \in [Topics -> [Objects -> Versions]]
               /\ kinds' \in [Topics -> [Objects -> Kinds]]
               /\ \A t \in Topics, o \in Objects :
                    IF t = e.topic /\ o = e.obj
                    THEN shown'[t][o] = e.ver /\ kinds'[t][o] = e.kind
                    ELSE shown'[t][o] = shown[t][o] /\ kinds'[t][o] = kinds[t][o]
<1>1. job \in Seq(Publication) /\ job # <<>> /\ job' = Tail(job)
  BY DEF TypeOK, PublishOne
<1>2. Head(job) = job[1] /\ Head(job) \in Publication /\ Len(job) \in Nat \ {0}
      /\ job' \in Seq(Publication) /\ Len(job') = Len(job) - 1
      /\ \A i \in 1..Len(job) - 1 : job'[i] = job[i + 1]
  BY <1>1
<1>3. PICK e : e = Head(job)
  OBVIOUS
<1>4. e.topic \in Topics /\ e.obj \in Objects /\ e.ver \in Versions /\ e.kind \in Kinds
  BY <1>2, <1>3 DEF Publication
<1>5. shown' = [shown EXCEPT ![e.topic][e.obj] = e.ver]
      /\ kinds' = [kinds EXCEPT ![e.topic][e.obj] = e.kind]
  BY <1>3 DEF PublishOne
<1>6. shown \in [Topics -> [Objects -> Versions]] /\ kinds \in [Topics -> [Objects -> Kinds]]
  BY DEF TypeOK
<1>7. shown' \in [Topics -> [Objects -> Versions]]
  BY <1>4, <1>5, <1>6
<1>8. kinds' \in [Topics -> [Objects -> Kinds]]
  BY <1>4, <1>5, <1>6
<1>9. \A t \in Topics, o \in Objects :
        IF t = e.topic /\ o = e.obj
        THEN shown'[t][o] = e.ver /\ kinds'[t][o] = e.kind
        ELSE shown'[t][o] = shown[t][o] /\ kinds'[t][o] = kinds[t][o]
  BY <1>4, <1>5, <1>6
<1> QED BY <1>2, <1>3, <1>7, <1>8, <1>9

LEMMA ReadWatchNotes ==
    ASSUME TypeOK, ReadWatch
    PROVE  LET c == Head(watch)
           IN  /\ c = watch[1] /\ c \in Change /\ Len(watch) \in Nat \ {0}
               /\ watch' \in Seq(Change) /\ Len(watch') = Len(watch) - 1
               /\ \A i \in 1..Len(watch) - 1 : watch'[i] = watch[i + 1]
               /\ cache' \in [Objects -> Versions]
               /\ cache' = [cache EXCEPT ![c.obj] = c.ver]
               /\ notes' \in Seq(Note) /\ Len(notes) \in Nat /\ Len(notes') = Len(notes) + 1
               /\ \A i \in 1..Len(notes) : notes'[i] = notes[i]
               /\ notes'[Len(notes) + 1] = Callback(c.obj, cache[c.obj], c.ver, FALSE)
<1>1. watch \in Seq(Change) /\ watch # <<>> /\ watch' = Tail(watch) /\ notes \in Seq(Note)
      /\ cache \in [Objects -> Versions]
  BY DEF TypeOK, ReadWatch
<1>2. PICK c : c = Head(watch)
  OBVIOUS
<1>3. c = watch[1] /\ c \in Change /\ Len(watch) \in Nat \ {0}
      /\ watch' \in Seq(Change) /\ Len(watch') = Len(watch) - 1
      /\ \A i \in 1..Len(watch) - 1 : watch'[i] = watch[i + 1]
  BY <1>1, <1>2
<1>4. c.obj \in Objects /\ c.ver \in Versions
  BY <1>3 DEF Change
<1>5. PICK n : n = Callback(c.obj, cache[c.obj], c.ver, FALSE)
  OBVIOUS
<1>6. cache[c.obj] \in Versions
  BY <1>1, <1>4
<1>7. n \in Note
  BY <1>4, <1>5, <1>6, CallbackType
<1>8. cache' = [cache EXCEPT ![c.obj] = c.ver] /\ notes' = Append(notes, n)
  BY <1>2, <1>5 DEF ReadWatch
<1>9. notes' \in Seq(Note) /\ Len(notes) \in Nat /\ Len(notes') = Len(notes) + 1
      /\ (\A i \in 1..Len(notes) : notes'[i] = notes[i])
      /\ notes'[Len(notes) + 1] = n
  BY <1>1, <1>7, <1>8
<1>10. cache' \in [Objects -> Versions]
  BY <1>1, <1>4, <1>8
<1> QED BY <1>2, <1>3, <1>5, <1>8, <1>9, <1>10

LEMMA InitType == Init => TypeOK
  BY WatcherAssumption DEF Init, TypeOK, Versions, Kinds

LEMMA ChangeType ==
    ASSUME TypeOK, NEW o \in Objects, NEW v \in 0..version + 1, ChangeTo(o, v)
    PROVE  TypeOK'
<1>1. v \in Versions /\ version' \in Versions
  BY WatcherAssumption DEF ChangeTo, TypeOK, Versions
<1>2. PICK c : c = [obj |-> o, ver |-> v]
  OBVIOUS
<1>3. c \in Change
  BY <1>1, <1>2 DEF Change
<1>4. watch' \in Seq(Change)
  BY <1>2, <1>3 DEF ChangeTo, TypeOK
<1>5. world' \in [Objects -> Versions]
  BY <1>1 DEF ChangeTo, TypeOK
<1> QED BY <1>1, <1>4, <1>5 DEF ChangeTo, TypeOK, handlerVars, streamVars

LEMMA RelistType ==
    ASSUME TypeOK, Relist
    PROVE  TypeOK'
<1>1. PICK order \in Seq(Objects) :
        notes' = notes \o [i \in 1..Len(order) |->
                    Callback(order[i], cache[order[i]], world[order[i]], TRUE)]
  BY RelistNotes
<1> DEFINE add == [i \in 1..Len(order) |->
                    Callback(order[i], cache[order[i]], world[order[i]], TRUE)]
<1>2. ASSUME NEW i \in 1..Len(order)
      PROVE  Callback(order[i], cache[order[i]], world[order[i]], TRUE) \in Note
  <2>1. order[i] \in Objects
    OBVIOUS
  <2>2. cache[order[i]] \in Versions /\ world[order[i]] \in Versions
    BY <2>1 DEF TypeOK
  <2> QED BY <2>1, <2>2, CallbackType
<1>3. add \in [1..Len(order) -> Note]
  BY <1>2, Zenon
<1>4. notes' = notes \o add
  BY <1>1
<1> HIDE DEF add
<1>5. add \in Seq(Note)
  <2>1. Len(order) \in Nat
    OBVIOUS
  <2> QED BY <1>3, <2>1
<1>6. notes' \in Seq(Note)
  BY <1>4, <1>5 DEF TypeOK
<1> QED BY <1>6 DEF Relist, TypeOK, handlerVars, streamVars

LEMMA HandleType ==
    ASSUME TypeOK, Handle
    PROVE  TypeOK'
<1>1. PICK n : n = Head(notes)
  OBVIOUS
<1>2. n \in Note /\ notes' \in Seq(Note)
      /\ (job' = <<>> \/ job' = <<EventOf(n, Clusters), EventOf(n, Specific(n.obj))>>)
  BY <1>1, HandleJob DEF Note
<1>3. EventOf(n, Clusters) \in Publication /\ EventOf(n, Specific(n.obj)) \in Publication
  BY <1>2, EventType, SpecificTopic DEF Note
<1>4. PICK e, f : e = EventOf(n, Clusters) /\ f = EventOf(n, Specific(n.obj))
  OBVIOUS
<1>5. <<e, f>> \in Seq(Publication)
  BY <1>3, <1>4
<1>6. job' \in Seq(Publication)
  <2>1. CASE job' = <<>>
    BY <2>1
  <2>2. CASE job' = <<e, f>>
    BY <1>5, <2>2
  <2> QED BY <1>2, <1>4, <2>1, <2>2, Zenon
<1> QED BY <1>2, <1>6 DEF Handle, TypeOK, streamVars

LEMMA PublishType ==
    ASSUME TypeOK, PublishOne
    PROVE  TypeOK'
<1>1. PICK e : e = Head(job)
  OBVIOUS
<1>2. e \in Publication /\ e.obj \in Objects /\ job' \in Seq(Publication)
      /\ shown' \in [Topics -> [Objects -> Versions]]
      /\ kinds' \in [Topics -> [Objects -> Kinds]]
  BY <1>1, PublishJob DEF Publication
<1>3. IF e.topic = heard THEN Offer(e) /\ last' = {e.obj}
      ELSE UNCHANGED <<channel, sending, last>>
  BY <1>1 DEF PublishOne
<1>4. channel' \in Seq(Publication) /\ Len(channel') <= BufCap
  <2>1. channel \in Seq(Publication) /\ Len(channel) <= BufCap /\ BufCap \in Nat
    BY WatcherAssumption DEF TypeOK
  <2>2. CASE channel' = channel
    BY <2>1, <2>2
  <2>3. CASE Len(channel) < BufCap /\ channel' = Append(channel, e)
    BY <1>2, <2>1, <2>3
  <2> QED BY <1>3, <2>2, <2>3 DEF Offer
<1>5. sending' \in Seq(Publication) /\ Len(sending') <= 1
  <2>1. sending \in Seq(Publication) /\ Len(sending) <= 1
    BY DEF TypeOK
  <2>2. sending' = sending \/ sending' = <<e>>
    BY <1>3 DEF Offer
  <2>3. <<e>> \in Seq(Publication) /\ Len(<<e>>) = 1
    BY <1>2
  <2>4. CASE sending' = sending
    BY <2>1, <2>4
  <2>5. CASE sending' = <<e>>
    <3>1. Len(sending') = 1 /\ sending' \in Seq(Publication)
      BY <2>3, <2>5, Zenon
    <3> QED BY <3>1
  <2> QED BY <2>2, <2>4, <2>5
<1>6. last' \in SUBSET Objects
  BY <1>2, <1>3 DEF TypeOK
<1> QED BY <1>2, <1>4, <1>5, <1>6 DEF PublishOne, TypeOK, informerVars

LEMMA DropType ==
    ASSUME TypeOK, DropOldest
    PROVE  TypeOK'
<1>1. channel \in Seq(Publication) /\ Len(channel) <= BufCap /\ sending \in Seq(Publication)
      /\ sending # <<>> /\ Len(sending) <= 1 /\ BufCap \in Nat \ {0}
  BY WatcherAssumption DEF TypeOK, DropOldest
<1>4. Len(sending) = 1
  <2>1. Len(sending) \in Nat \ {0}
    BY <1>1
  <2>2. Len(sending) <= 1
    BY <1>1
  <2>3. \A n \in Nat \ {0} : n <= 1 => n = 1
    OBVIOUS
  <2> QED BY <2>1, <2>2, <2>3, Zenon
<1>2. CASE channel = <<>>
  <2>1. channel' = sending
    BY <1>1, <1>2 DEF DropOldest
  <2>2. Len(channel') <= BufCap
    <3>1. Len(channel') = 1 /\ BufCap \in Nat \ {0}
      BY <1>1, <1>4, <2>1
    <3> QED BY <3>1
  <2> QED BY <1>1, <2>1, <2>2 DEF TypeOK, DropOldest, informerVars
<1>3. CASE channel # <<>>
  <2>1. channel' = Tail(channel) \o sending
    BY <1>3 DEF DropOldest
  <2>2. Len(channel) \in Nat \ {0} /\ Tail(channel) \in Seq(Publication)
        /\ Len(Tail(channel)) = Len(channel) - 1
    BY <1>1, <1>3
  <2>3. channel' \in Seq(Publication) /\ Len(channel') = Len(channel)
    <3>1. channel' \in Seq(Publication) /\ Len(channel') = Len(Tail(channel)) + Len(sending)
      BY <1>1, <2>1, <2>2
    <3>2. Len(channel') = (Len(channel) - 1) + 1
      BY <1>4, <2>2, <3>1
    <3> QED BY <2>2, <3>1, <3>2
  <2> QED BY <1>1, <2>2, <2>3 DEF TypeOK, DropOldest, informerVars
<1> QED BY <1>2, <1>3

LEMMA ReceiveType ==
    ASSUME TypeOK, Receive
    PROVE  TypeOK'
<1>1. channel \in Seq(Publication) /\ channel # <<>> /\ Len(channel) <= BufCap
      /\ channel' = Tail(channel) /\ view \in [Objects -> Versions] /\ BufCap \in Nat
  BY WatcherAssumption DEF TypeOK, Receive
<1>2. PICK e : e = Head(channel)
  OBVIOUS
<1>3. e \in Publication /\ channel' \in Seq(Publication) /\ Len(channel) \in Nat
      /\ Len(channel') = Len(channel) - 1
  BY <1>1, <1>2
<1>4. e.obj \in Objects /\ e.ver \in Versions
  BY <1>3 DEF Publication
<1>5. view' = [view EXCEPT ![e.obj] = e.ver]
  BY <1>2 DEF Receive
<1>6. view' \in [Objects -> Versions]
  BY <1>1, <1>4, <1>5
<1>7. Len(channel') <= BufCap
  BY <1>1, <1>3
<1> QED BY <1>3, <1>6, <1>7 DEF TypeOK, Receive, informerVars

LEMMA StepType ==
    ASSUME TypeOK, [Next]_vars
    PROVE  TypeOK'
<1>1. ASSUME NEW o \in Objects, Write(o) PROVE TypeOK'
  <2>1. version + 1 \in 0..version + 1
    BY DEF TypeOK, Versions
  <2> QED BY <1>1, <2>1, ChangeType DEF Write
<1>2. ASSUME NEW o \in Objects, Delete(o) PROVE TypeOK'
  <2>1. 0 \in 0..version + 1
    BY DEF TypeOK, Versions
  <2> QED BY <1>2, <2>1, ChangeType DEF Delete
<1>3. CASE ReadWatch
  <2>1. watch' \in Seq(Change) /\ cache' \in [Objects -> Versions] /\ notes' \in Seq(Note)
    BY <1>3, ReadWatchNotes
  <2> QED BY <1>3, <2>1 DEF ReadWatch, TypeOK, handlerVars, streamVars
<1>4. CASE Break
  BY <1>4, WatcherAssumption DEF Break, TypeOK, handlerVars, streamVars
<1>5. CASE Relist
  BY <1>5, RelistType
<1>6. CASE Handle
  BY <1>6, HandleType
<1>7. CASE PublishOne
  BY <1>7, PublishType
<1>8. CASE DropOldest
  BY <1>8, DropType
<1>9. CASE Receive
  BY <1>9, ReceiveType
<1>10. CASE UNCHANGED vars
  BY <1>10 DEF TypeOK, vars, informerVars, handlerVars, streamVars
<1> QED BY <1>1, <1>2, <1>3, <1>4, <1>5, <1>6, <1>7, <1>8, <1>9, <1>10
    DEF Next, ServerStep, InformerStep, HandlerStep, StreamStep

\* The resource versions stay within their bound, the stream's channel within its
\* capacity, and every event is one the watcher can have published.
THEOREM TypeCorrect == Spec => []TypeOK
<1>1. Init => TypeOK
  BY InitType
<1>2. TypeOK /\ [Next]_vars => TypeOK'
  BY StepType
<1> QED BY <1>1, <1>2, PTL DEF Spec

-----------------------------------------------------------------------------
(* The job *)

\* A callback's job: nothing for a tombstone, or the two publications.
LEMMA HandleEvents ==
    ASSUME TypeOK, Handle
    PROVE  LET n == notes[1]
           IN  /\ Len(job) = 0
               /\ n.obj \in Objects /\ n.ver \in Versions
               /\ n.tombstone => Len(job') = 0
               /\ ~n.tombstone =>
                    /\ Len(job') = 2
                    /\ \A k \in 1..2 : /\ job'[k].obj = n.obj /\ job'[k].ver = n.ver
                                       /\ job'[k].kind = KindOf(n.call)
                    /\ job'[1].topic = Clusters /\ job'[2].topic = Specific(n.obj)
<1>1. PICK n : n = notes[1]
  OBVIOUS
<1>2. n \in Note /\ (n.tombstone => job' = <<>>)
      /\ (~n.tombstone => job' = <<EventOf(n, Clusters), EventOf(n, Specific(n.obj))>>)
  BY <1>1, HandleJob
<1>3. n.obj \in Objects /\ n.ver \in Versions /\ Len(job) = 0
  BY <1>2 DEF Note, Handle
<1>4. ASSUME ~n.tombstone
      PROVE  /\ Len(job') = 2
             /\ \A k \in 1..2 : /\ job'[k].obj = n.obj /\ job'[k].ver = n.ver
                                /\ job'[k].kind = KindOf(n.call)
             /\ job'[1].topic = Clusters /\ job'[2].topic = Specific(n.obj)
  <2>1. PICK e, f : e = EventOf(n, Clusters) /\ f = EventOf(n, Specific(n.obj))
    OBVIOUS
  <2>2. job' = <<e, f>>
    BY <1>2, <1>4, <2>1
  <2>3. Len(job') = 2 /\ job'[1] = e /\ job'[2] = f
    BY <2>2
  <2>4. /\ e.obj = n.obj /\ e.ver = n.ver /\ e.kind = KindOf(n.call) /\ e.topic = Clusters
        /\ f.obj = n.obj /\ f.ver = n.ver /\ f.kind = KindOf(n.call)
        /\ f.topic = Specific(n.obj)
    BY <2>1 DEF EventOf
  <2>5. \A k \in 1..2 : k = 1 \/ k = 2
    OBVIOUS
  <2> QED BY <2>3, <2>4, <2>5
<1>5. n.tombstone => Len(job') = 0
  BY <1>2
<1> QED BY <1>1, <1>3, <1>4, <1>5

\* What the invariant says of the publication about to be made, and of the one after it.
LEMMA JobHead ==
    ASSUME TypeOK, JobInv, PublishOne
    PROVE  /\ Len(job) \in {1, 2} /\ Len(job') = Len(job) - 1
           /\ job[1].obj \in Objects /\ job[1].topic \in TopicsOf(job[1].obj)
           /\ job[1].topic \in Topics
           /\ Len(job) = 2 => /\ job'[1] = job[2] /\ job[1].topic = Clusters
                              /\ job[2].topic = Specific(job[1].obj)
                              /\ job[2].obj = job[1].obj /\ job[2].ver = job[1].ver
                              /\ job[2].kind = job[1].kind
           /\ Len(job) = 1 => /\ job[1].topic = Specific(job[1].obj)
                              /\ job[1].ver = shown[Clusters][job[1].obj]
<1>1. Len(job) \in Nat \ {0} /\ Len(job') = Len(job) - 1 /\ job[1] \in Publication
      /\ \A i \in 1..Len(job) - 1 : job'[i] = job[i + 1]
  BY PublishJob
<1>2. Len(job) \in {1, 2}
  BY <1>1 DEF JobInv
<1>3. Len(job) = 2 => job'[1] = job[2]
  BY <1>1
<1> QED BY <1>1, <1>2, <1>3 DEF JobInv, TopicsOf, Publication

LEMMA HandleJobInv ==
    ASSUME TypeOK, JobInv, Handle
    PROVE  JobInv'
<1>1. UNCHANGED shown
  BY DEF Handle
<1>2. \A o \in Objects : shown[Specific(o)][o] = shown[Clusters][o]
  BY HandleEvents DEF JobInv
<1>3. CASE Len(job') = 0
  BY <1>1, <1>2, <1>3 DEF JobInv
<1>4. CASE /\ Len(job') = 2
           /\ \A k \in 1..2 : /\ job'[k].obj = notes[1].obj /\ job'[k].ver = notes[1].ver
                              /\ job'[k].kind = KindOf(notes[1].call)
           /\ job'[1].topic = Clusters /\ job'[2].topic = Specific(notes[1].obj)
  BY <1>1, <1>2, <1>4 DEF JobInv
<1> QED BY <1>3, <1>4, HandleEvents

LEMMA PublishJobInv ==
    ASSUME TypeOK, JobInv, PublishOne
    PROVE  JobInv'
<1>1. PICK e : e = job[1]
  OBVIOUS
<1>2. \A t \in Topics, o \in Objects :
        shown'[t][o] = IF t = e.topic /\ o = e.obj THEN e.ver ELSE shown[t][o]
  BY <1>1, PublishJob
<1>3. CASE Len(job) = 2
  <2>1. Len(job') = 1 /\ job'[1].obj = e.obj /\ job'[1].topic = Specific(e.obj)
        /\ job'[1].ver = e.ver /\ e.topic = Clusters /\ e.obj \in Objects
    BY <1>1, <1>3, JobHead
  <2>2. shown'[Clusters][e.obj] = e.ver
    BY <1>2, <2>1, SpecificTopic
  <2>3. ASSUME NEW o \in Objects
        PROVE  shown'[Specific(o)][o] = shown'[Clusters][o]
               \/ (Len(job') = 1 /\ job'[1].obj = o)
    <3>1. CASE o = e.obj
      BY <2>1, <3>1
    <3>2. CASE o # e.obj
      BY <1>2, <1>3, <3>2, SpecificTopic DEF JobInv
    <3> QED BY <3>1, <3>2
  <2> QED BY <2>1, <2>2, <2>3 DEF JobInv
<1>4. CASE Len(job) = 1
  <2>1. Len(job') = 0 /\ e.topic = Specific(e.obj) /\ e.ver = shown[Clusters][e.obj]
        /\ e.obj \in Objects
    BY <1>1, <1>4, JobHead
  <2>2. ASSUME NEW o \in Objects
        PROVE  shown'[Specific(o)][o] = shown'[Clusters][o]
    <3>1. CASE o = e.obj
      BY <1>2, <2>1, <3>1, SpecificTopic
    <3>2. CASE o # e.obj
      BY <1>1, <1>2, <3>2, SpecificTopic DEF JobInv
    <3> QED BY <3>1, <3>2
  <2> QED BY <2>1, <2>2 DEF JobInv
<1> QED BY <1>3, <1>4, JobHead

LEMMA StepJobInv ==
    ASSUME TypeOK, JobInv, [Next]_vars
    PROVE  JobInv'
<1>1. CASE Handle
  BY <1>1, HandleJobInv
<1>2. CASE PublishOne
  BY <1>2, PublishJobInv
<1>3. CASE UNCHANGED <<job, shown>>
  BY <1>3 DEF JobInv
<1> QED BY <1>1, <1>2, <1>3
    DEF Next, ServerStep, InformerStep, HandlerStep, StreamStep, Write, Delete, ChangeTo,
        ReadWatch, Break, Relist, DropOldest, Receive, vars, handlerVars

LEMMA JobAgrees == TypeOK /\ JobInv => TopicsAgree
<1> SUFFICES ASSUME TypeOK, JobInv, NEW o \in Objects
             PROVE  \/ shown[Specific(o)][o] = shown[Clusters][o]
                    \/ /\ Len(job) = 1
                       /\ job[1].obj = o /\ job[1].topic = Specific(o)
                       /\ job[1].ver = shown[Clusters][o]
  BY DEF TopicsAgree
<1> QED BY DEF JobInv

\* The two topics give an object the same state, but while its callback is between its
\* two publications.
THEOREM TopicsAgreement == Spec => []TopicsAgree
<1>1. Init => TypeOK /\ JobInv
  <2>1. ASSUME Init PROVE JobInv
    BY <2>1, SpecificTopic DEF Init, JobInv
  <2> QED BY <2>1, InitType
<1>2. TypeOK /\ JobInv /\ [Next]_vars => (TypeOK /\ JobInv)'
  BY StepType, StepJobInv
<1>3. TypeOK /\ JobInv => TopicsAgree
  BY JobAgrees
<1> QED BY <1>1, <1>2, <1>3, PTL DEF Spec

-----------------------------------------------------------------------------
(* What a topic will show: how each step keeps it                           *)

LEMMA PublishDone ==
    ASSUME TypeOK, JobInv, PublishOne,
           NEW o \in Objects, NEW t \in TopicsOf(o), NEW v, DoneIs(t, o, v)
    PROVE  DoneIs(t, o, v)'
<1>1. t \in Topics
  BY SpecificTopic DEF TopicsOf
<1>2. PICK e : e = job[1]
  OBVIOUS
<1>3. shown'[t][o] = IF t = e.topic /\ o = e.obj THEN e.ver ELSE shown[t][o]
  BY <1>1, <1>2, PublishJob
<1>4. \A i \in 1..Len(job) - 1 : job'[i] = job[i + 1]
  BY PublishJob
<1>5. CASE Len(job) = 2
  <2>1. Len(job') = 1 /\ job'[1] = job[2] /\ e.topic = Clusters
        /\ job[2].topic = Specific(e.obj) /\ job[2].obj = e.obj /\ job[2].ver = e.ver
    BY <1>2, <1>5, JobHead
  <2>2. Publishes(t, o, 1) => ~Publishes(t, o, 2)
    BY <1>2, <2>1, SpecificTopic DEF Publishes
  <2>3. CASE Publishes(t, o, 2)
    <3>1. job[2].ver = v
      BY <1>5, <2>2, <2>3 DEF DoneIs
    <3>2. 1 \in 1..Len(job') /\ job'[1].topic = t /\ job'[1].obj = o /\ job'[1].ver = v
      BY <2>1, <2>3, <3>1 DEF Publishes
    <3> QED BY <3>2 DEF DoneIs, Publishes
  <2>4. CASE ~Publishes(t, o, 2)
    <3>1. \A k \in 1..Len(job') : ~(job'[k].topic = t /\ job'[k].obj = o)
      BY <2>1, <2>4 DEF Publishes
    <3>2. shown'[t][o] = v
      <4>1. CASE Publishes(t, o, 1)
        BY <1>2, <1>3, <1>5, <2>4, <4>1 DEF DoneIs, Publishes
      <4>2. CASE ~Publishes(t, o, 1)
        BY <1>2, <1>3, <1>5, <2>4, <4>2 DEF DoneIs, Publishes
      <4> QED BY <4>1, <4>2
    <3> QED BY <3>1, <3>2 DEF DoneIs, Publishes
  <2> QED BY <2>3, <2>4
<1>6. CASE Len(job) = 1
  <2>1. Len(job') = 0
    BY <1>6, JobHead
  <2>2. shown'[t][o] = v
    BY <1>2, <1>3, <1>6 DEF DoneIs, Publishes
  <2> QED BY <2>1, <2>2 DEF DoneIs
<1> QED BY <1>5, <1>6, JobHead

\* The callback that begins publishes its object's state to both topics, and nothing
\* about other objects.
LEMMA HandleDone ==
    ASSUME TypeOK, Handle, NEW o \in Objects, NEW t \in TopicsOf(o), NEW v
    PROVE  /\ notes[1].obj = o /\ ~notes[1].tombstone /\ notes[1].ver = v
              => DoneIs(t, o, v)'
           /\ (notes[1].obj # o \/ notes[1].tombstone) /\ DoneIs(t, o, v) => DoneIs(t, o, v)'
<1>1. ASSUME notes[1].obj = o, ~notes[1].tombstone, notes[1].ver = v
      PROVE  DoneIs(t, o, v)'
  <2>1. Len(job') = 2 /\ job'[1].topic = Clusters /\ job'[2].topic = Specific(o)
        /\ \A k \in 1..2 : job'[k].obj = o /\ job'[k].ver = v
    BY <1>1, HandleEvents
  <2>2. \E k \in 1..2 : job'[k].topic = t
    BY <2>1 DEF TopicsOf
  <2> QED BY <2>1, <2>2 DEF DoneIs, Publishes
<1>2. ASSUME notes[1].obj # o \/ notes[1].tombstone, DoneIs(t, o, v)
      PROVE  DoneIs(t, o, v)'
  <2>1. shown'[t][o] = v
    BY <1>2, HandleEvents DEF DoneIs, Handle
  <2>2. \A k \in 1..Len(job') : job'[k].obj # o
    BY <1>2, HandleEvents
  <2> QED BY <2>1, <2>2 DEF DoneIs, Publishes
<1> QED BY <1>1, <1>2

LEMMA HandleShows ==
    ASSUME TypeOK, Handle, notes[1].tombstone => notes[1].ver = 0,
           NEW n \in 1..Len(notes), NEW o \in Objects, NEW t \in TopicsOf(o),
           NEW v \in 1..MaxVersion, Shows(t, n, o, v)
    PROVE  Shows(t, n - 1, o, v)'
<1>1. n \in Nat \ {0}
  BY HandleJob
<1>4. \A i \in 1..n - 1 : notes'[i] = notes[i + 1]
  BY HandleJob
<1>5. /\ LatestIs(notes, n, o, v) =>
           \/ LatestIs(notes', n - 1, o, v)
           \/ Absent(notes', n - 1, o) /\ notes[1].obj = o /\ notes[1].ver = v
      /\ Absent(notes, n, o) => Absent(notes', n - 1, o) /\ notes[1].obj # o
  <2>1. PICK q, r : q = notes /\ r = notes'
    OBVIOUS
  <2>2. IsTail(q, r, n)
    BY <1>4, <2>1 DEF IsTail
  <2>3. /\ LatestIs(q, n, o, v) =>
             \/ LatestIs(r, n - 1, o, v)
             \/ Absent(r, n - 1, o) /\ q[1].obj = o /\ q[1].ver = v
        /\ Absent(q, n, o) => Absent(r, n - 1, o) /\ q[1].obj # o
    BY <1>1, <2>2, LatestTail
  <2> QED BY <2>1, <2>3
<1>2. CASE LatestIs(notes, n, o, v)
  <2>1. \/ LatestIs(notes', n - 1, o, v)
        \/ Absent(notes', n - 1, o) /\ notes[1].obj = o /\ notes[1].ver = v
    BY <1>2, <1>5
  <2>2. CASE LatestIs(notes', n - 1, o, v)
    BY <2>2 DEF Shows
  <2>3. CASE Absent(notes', n - 1, o) /\ notes[1].obj = o /\ notes[1].ver = v
    <3>1. v # 0
      BY WatcherAssumption
    <3>2. DoneIs(t, o, v)'
      BY <2>3, <3>1, HandleDone
    <3> QED BY <2>3, <3>2 DEF Shows
  <2> QED BY <2>1, <2>2, <2>3
<1>3. CASE Absent(notes, n, o) /\ DoneIs(t, o, v)
  <2>1. Absent(notes', n - 1, o) /\ notes[1].obj # o
    BY <1>3, <1>5
  <2>2. DoneIs(t, o, v)'
    BY <1>3, <2>1, HandleDone
  <2> QED BY <2>1, <2>2 DEF Shows
<1> QED BY <1>2, <1>3 DEF Shows

LEMMA PublishShows ==
    ASSUME TypeOK, JobInv, PublishOne,
           NEW n, NEW o \in Objects, NEW t \in TopicsOf(o), NEW v, Shows(t, n, o, v)
    PROVE  Shows(t, n, o, v)'
<1>1. UNCHANGED notes
  BY DEF PublishOne, informerVars
<1>2. DoneIs(t, o, v) => DoneIs(t, o, v)'
  BY PublishDone
<1> QED BY <1>1, <1>2 DEF Shows

\* What the first n callbacks will show does not depend on later ones.
LEMMA PrefixShows ==
    ASSUME NEW n \in Nat, \A i \in 1..n : notes'[i] = notes[i], UNCHANGED <<job, shown>>,
           NEW t, NEW o, NEW v, Shows(t, n, o, v)
    PROVE  Shows(t, n, o, v)'
<1>1. DoneIs(t, o, v)' <=> DoneIs(t, o, v)
  BY DEF DoneIs, Publishes
<1>2. /\ LatestIs(notes, n, o, v) => LatestIs(notes', n, o, v)
      /\ Absent(notes, n, o) => Absent(notes', n, o)
  BY LatestSame
<1> QED BY <1>1, <1>2 DEF Shows

\* Later callbacks about other objects make no difference.
LEMMA ExtendedShows ==
    ASSUME NEW n \in Nat, NEW k \in Nat, UNCHANGED <<job, shown>>,
           NEW t, NEW o, NEW v, Shows(t, n, o, v),
           \A i \in 1..n : notes'[i] = notes[i],
           \A m \in n + 1 .. n + k : notes'[m].obj # o
    PROVE  Shows(t, n + k, o, v)'
<1>1. Shows(t, n, o, v)'
  BY PrefixShows
<1>2. PICK r : r = notes'
  OBVIOUS
<1>3. \A m \in n + 1 .. n + k : r[m].obj # o
  BY <1>2
<1>4. /\ LatestIs(r, n, o, v) => LatestIs(r, n + k, o, v)
      /\ Absent(r, n, o) => Absent(r, n + k, o)
  BY <1>3, LatestExtended
<1> QED BY <1>1, <1>2, <1>4 DEF Shows

\* RelistNotes, element by element.
LEMMA RelistOrder ==
    ASSUME TypeOK, Relist
    PROVE  \E order \in Seq(Objects) :
             /\ Len(notes') = Len(notes) + Len(order)
             /\ \A i \in 1..Len(notes) : notes'[i] = notes[i]
             /\ \A i \in 1..Len(order) :
                  /\ notes'[Len(notes) + i] =
                        Callback(order[i], cache[order[i]], world[order[i]], TRUE)
                  /\ cache[order[i]] # 0 \/ world[order[i]] # 0
             /\ \A i, j \in 1..Len(order) : order[i] = order[j] => i = j
             /\ \A o \in Objects : cache[o] = world[o] \/ \E i \in 1..Len(order) : order[i] = o
<1>1. PICK same \in BOOLEAN, order \in Seq(Objects) :
        /\ notes' = notes \o [i \in 1..Len(order) |->
                        Callback(order[i], cache[order[i]], world[order[i]], TRUE)]
        /\ \A i \in 1..Len(order) :
             order[i] \in {o \in Objects : cache[o] # world[o] \/ (same /\ world[o] # 0)}
        /\ \A i, j \in 1..Len(order) : order[i] = order[j] => i = j
        /\ \A o \in {o \in Objects : cache[o] # world[o] \/ (same /\ world[o] # 0)} :
             \E i \in 1..Len(order) : order[i] = o
  BY RelistNotes
<1> DEFINE add == [i \in 1..Len(order) |->
                    Callback(order[i], cache[order[i]], world[order[i]], TRUE)]
<1>2. \A i \in 1..Len(order) : cache[order[i]] # 0 \/ world[order[i]] # 0
  BY <1>1
<1>3. \A o \in Objects : cache[o] = world[o] \/ \E i \in 1..Len(order) : order[i] = o
  BY <1>1
<1>4. Len(order) \in Nat /\ Len(notes) \in Nat /\ notes \in Seq(Note)
  BY DEF TypeOK
<1>5. \A i \in 1..Len(order) :
        add[i] = Callback(order[i], cache[order[i]], world[order[i]], TRUE)
  OBVIOUS
<1>6. DOMAIN add = 1..Len(order) /\ notes' = notes \o add
  BY <1>1
<1> HIDE DEF add
<1>7. \E S : add \in Seq(S)
  <2>1. add \in [1..Len(order) -> Note]
    <3>1. ASSUME NEW i \in 1..Len(order)
          PROVE  Callback(order[i], cache[order[i]], world[order[i]], TRUE) \in Note
      <4>1. order[i] \in Objects
        OBVIOUS
      <4>2. cache[order[i]] \in Versions /\ world[order[i]] \in Versions
        BY <4>1 DEF TypeOK
      <4> QED BY <4>1, <4>2, CallbackType
    <3> QED BY <3>1, Zenon DEF add
  <2> QED BY <1>4, <2>1
<1>8. PICK S : add \in Seq(S)
  BY <1>7
<1>9. Len(add) = Len(order)
  BY <1>4, <1>6, <1>8
<1>10. Len(notes') = Len(notes) + Len(order)
       /\ (\A i \in 1..Len(notes) : notes'[i] = notes[i])
       /\ \A i \in 1..Len(order) : notes'[Len(notes) + i] = add[i]
  BY <1>4, <1>6, <1>8, <1>9
<1>11. \A i \in 1..Len(order) :
        /\ notes'[Len(notes) + i] =
                Callback(order[i], cache[order[i]], world[order[i]], TRUE)
        /\ cache[order[i]] # 0 \/ world[order[i]] # 0
  BY <1>2, <1>5, <1>10
<1>12. \A i, j \in 1..Len(order) : order[i] = order[j] => i = j
  BY <1>1
<1> WITNESS order \in Seq(Objects)
<1> QED BY <1>3, <1>10, <1>11, <1>12

-----------------------------------------------------------------------------
(* The order of creation, update and deletion *)

LEMMA HandleKinds ==
    ASSUME TypeOK, KindInv, Handle
    PROVE  KindInv'
<1>1. notes[1] \in Note /\ 1 \in 1..Len(notes) /\ Len(notes) \in Nat
      /\ Len(notes') = Len(notes) - 1
  BY HandleJob
<1>2. ShownKinds'
  BY DEF Handle, KindInv, ShownKinds
<1>3. ASSUME NEW k \in 1..Len(job')
      PROVE  /\ job'[k].kind = "cluster.deleted" <=> job'[k].ver = 0
             /\ job'[k].kind # "cluster.created" => shown'[job'[k].topic][job'[k].obj] # 0
  <2>1. ~notes[1].tombstone
    BY <1>3, HandleEvents
  <2>2. PICK n : n = notes[1]
    OBVIOUS
  <2>3. job'[k].obj = n.obj /\ job'[k].ver = n.ver /\ job'[k].kind = KindOf(n.call)
        /\ job'[k].topic \in TopicsOf(n.obj)
    BY <2>1, <2>2, HandleEvents DEF TopicsOf
  <2>4. n.call \in {"OnAdd", "OnUpdate", "OnDelete"} /\ (n.call = "OnDelete" <=> n.ver = 0)
        /\ Follows(1)
    BY <1>1, <2>2 DEF KindInv, NoteKinds, Note
  <2>5. /\ job'[k].kind = "cluster.deleted" <=> job'[k].ver = 0
        /\ job'[k].kind # "cluster.created" => n.call # "OnAdd"
    BY <2>3, <2>4 DEF KindOf
  <2>6. ASSUME n.call # "OnAdd" PROVE shown[job'[k].topic][n.obj] # 0
    <3>1. PICK t : t = job'[k].topic
      OBVIOUS
    <3>2. PICK v \in 1..MaxVersion : Shows(t, 1 - 1, n.obj, v)
      BY <2>2, <2>3, <2>4, <2>6, <3>1 DEF Follows
    <3>3. shown[t][n.obj] = v
      BY <3>2, HandleEvents DEF Shows, LatestIs, DoneIs
    <3> QED BY <3>1, <3>3, WatcherAssumption
  <2> QED BY <2>3, <2>5, <2>6 DEF Handle
<1>4. ASSUME NEW m \in 1..Len(notes')
      PROVE  /\ notes'[m].call = "OnDelete" <=> notes'[m].ver = 0
             /\ notes'[m].tombstone => notes'[m].ver = 0
             /\ Follows(m)'
  <2>1. m \in Nat /\ m \in 1..Len(notes) /\ m + 1 \in 1..Len(notes) /\ (m + 1) - 1 = m
        /\ notes'[m] = notes[m + 1]
    BY <1>1, HandleJob
  <2>2. PICK n : n = notes'[m]
    OBVIOUS
  <2>3. n = notes[m + 1] /\ n.obj \in Objects
    <3>1. notes[m + 1] \in Note
      BY <2>1 DEF TypeOK
    <3> QED BY <2>1, <2>2, <3>1 DEF Note
  <2>4. (n.call = "OnDelete" <=> n.ver = 0) /\ (n.tombstone => n.ver = 0) /\ Follows(m + 1)
    BY <2>1, <2>3 DEF KindInv, NoteKinds
  <2>5. ASSUME n.call # "OnAdd", NEW t \in TopicsOf(n.obj)
        PROVE  \E v \in 1..MaxVersion : Shows(t, m - 1, n.obj, v)'
    <3>1. PICK v \in 1..MaxVersion : Shows(t, m, n.obj, v)
      BY <2>1, <2>3, <2>4, <2>5 DEF Follows
    <3>2. Shows(t, m - 1, n.obj, v)'
      BY <1>1, <2>1, <2>3, <3>1, HandleShows DEF KindInv, NoteKinds
    <3> QED BY <3>2
  <2> QED BY <2>2, <2>4, <2>5 DEF Follows
<1> QED BY <1>2, <1>3, <1>4 DEF KindInv, JobKinds, NoteKinds

LEMMA PublishKinds ==
    ASSUME TypeOK, JobInv, KindInv, PublishOne
    PROVE  KindInv'
<1>1. PICK e : e = job[1]
  OBVIOUS
<1>2. /\ Len(job) \in {1, 2} /\ Len(job') = Len(job) - 1
      /\ e.obj \in Objects /\ e.topic \in Topics
      /\ Len(job) = 2 => /\ job'[1] = job[2] /\ e.topic = Clusters
                         /\ job[2].topic = Specific(e.obj) /\ job[2].obj = e.obj
  BY <1>1, JobHead
<1>3. \A t \in Topics, o \in Objects :
        IF t = e.topic /\ o = e.obj
        THEN shown'[t][o] = e.ver /\ kinds'[t][o] = e.kind
        ELSE shown'[t][o] = shown[t][o] /\ kinds'[t][o] = kinds[t][o]
  BY <1>1, PublishJob
<1>4. e.kind \in Kinds \ {"none"} /\ (e.kind = "cluster.deleted" <=> e.ver = 0)
  <2>1. e.kind \in Kinds \ {"none"}
    BY <1>1, PublishJob DEF Publication
  <2>2. 1 \in 1..Len(job)
    BY <1>2
  <2> QED BY <1>1, <2>1, <2>2 DEF KindInv, JobKinds
<1>5. ShownKinds'
  <2>1. ASSUME NEW t \in Topics, NEW o \in Objects
        PROVE  shown'[t][o] # 0 <=> kinds'[t][o] \in {"cluster.created", "cluster.updated"}
    <3>1. CASE t = e.topic /\ o = e.obj
      <4>1. shown'[t][o] = e.ver /\ kinds'[t][o] = e.kind
        BY <1>3, <3>1
      <4> QED BY <1>4, <4>1 DEF Kinds
    <3>2. CASE ~(t = e.topic /\ o = e.obj)
      <4>1. shown'[t][o] = shown[t][o] /\ kinds'[t][o] = kinds[t][o]
        BY <1>3, <3>2
      <4> QED BY <4>1 DEF KindInv, ShownKinds
    <3> QED BY <3>1, <3>2
  <2> QED BY <2>1 DEF ShownKinds
<1>6. JobKinds'
  <2>1. ASSUME NEW k \in 1..Len(job')
        PROVE  /\ job'[k].kind = "cluster.deleted" <=> job'[k].ver = 0
               /\ job'[k].kind # "cluster.created" => shown'[job'[k].topic][job'[k].obj] # 0
    <3>1. Len(job) = 2 /\ k = 1
      BY <1>2
    <3>2. PICK f : f = job[2]
      OBVIOUS
    <3>3. job'[k] = f /\ f.topic = Specific(e.obj) /\ f.obj = e.obj /\ e.topic = Clusters
      BY <1>2, <3>1, <3>2
    <3>4. shown'[f.topic][f.obj] = shown[f.topic][f.obj]
      BY <1>2, <1>3, <3>3, SpecificTopic
    <3>5. 2 \in 1..Len(job)
      BY <3>1
    <3>6. /\ f.kind = "cluster.deleted" <=> f.ver = 0
          /\ f.kind # "cluster.created" => shown[f.topic][f.obj] # 0
      BY <3>2, <3>5 DEF KindInv, JobKinds
    <3> QED BY <3>3, <3>4, <3>6
  <2> QED BY <2>1 DEF JobKinds
<1>7. NoteKinds'
  <2>1. UNCHANGED notes
    BY DEF PublishOne, informerVars
  <2>2. ASSUME NEW n \in 1..Len(notes), Follows(n) PROVE Follows(n)'
    <3>1. PICK o : o = notes[n].obj
      OBVIOUS
    <3>2. o \in Objects
      <4>1. notes[n] \in Note
        BY DEF TypeOK
      <4> QED BY <3>1, <4>1 DEF Note
    <3>3. ASSUME notes[n].call # "OnAdd", NEW t \in TopicsOf(o)
          PROVE  \E v \in 1..MaxVersion : Shows(t, n - 1, o, v)'
      <4>1. PICK v \in 1..MaxVersion : Shows(t, n - 1, o, v)
        BY <2>2, <3>1, <3>3 DEF Follows
      <4>2. Shows(t, n - 1, o, v)'
        BY <3>2, <3>3, <4>1, PublishShows
      <4> QED BY <4>2
    <3> QED BY <2>1, <3>1, <3>3 DEF Follows
  <2> QED BY <2>1, <2>2 DEF KindInv, NoteKinds
<1> QED BY <1>5, <1>6, <1>7 DEF KindInv

\* Callbacks that were there keep what they follow.
LEMMA OldFollows ==
    ASSUME TypeOK, UNCHANGED <<job, shown>>, NEW n \in 1..Len(notes), Follows(n),
           \A i \in 1..Len(notes) : notes'[i] = notes[i]
    PROVE  Follows(n)'
<1>1. PICK o : o = notes[n].obj
  OBVIOUS
<1>2. notes'[n] = notes[n] /\ n - 1 \in Nat /\ \A i \in 1..n - 1 : notes'[i] = notes[i]
  <2>1. Len(notes) \in Nat
    BY DEF TypeOK
  <2>2. n - 1 \in Nat /\ \A i \in 1..n - 1 : i \in 1..Len(notes)
    BY <2>1
  <2> QED BY <2>2
<1>3. ASSUME notes[n].call # "OnAdd", NEW t \in TopicsOf(o)
      PROVE  \E v \in 1..MaxVersion : Shows(t, n - 1, o, v)'
  <2>1. PICK v \in 1..MaxVersion : Shows(t, n - 1, o, v)
    BY <1>1, <1>3 DEF Follows
  <2>2. Shows(t, n - 1, o, v)'
    BY <1>2, <2>1, PrefixShows
  <2> QED BY <2>2
<1> QED BY <1>1, <1>2, <1>3 DEF Follows

LEMMA ReadWatchKinds ==
    ASSUME TypeOK, KindInv, CurrentInv, ReadWatch
    PROVE  KindInv'
<1>1. UNCHANGED <<job, shown, kinds>>
  BY DEF ReadWatch, handlerVars
<1>2. PICK c, old : c = watch[1] /\ old = cache[c.obj]
  OBVIOUS
<1>3. /\ c \in Change /\ Len(watch) \in Nat \ {0}
      /\ Len(notes) \in Nat /\ Len(notes') = Len(notes) + 1
      /\ \A i \in 1..Len(notes) : notes'[i] = notes[i]
      /\ notes'[Len(notes) + 1] = Callback(c.obj, old, c.ver, FALSE)
  BY <1>2, ReadWatchNotes
<1>4. PICK n : n = notes'[Len(notes) + 1]
  OBVIOUS
<1>5. /\ n.obj = c.obj /\ n.ver = c.ver
      /\ n.call = "OnDelete" <=> c.ver = 0
      /\ n.call # "OnAdd" => c.ver = 0 \/ old # 0
      /\ n.tombstone => c.ver = 0
  <2>1. n = Callback(c.obj, old, c.ver, FALSE)
    BY <1>3, <1>4
  <2> QED BY <2>1 DEF Callback
<1>6. c.obj \in Objects /\ old \in Versions
  BY <1>2, <1>3 DEF Change, TypeOK
<1>7. c.ver = 0 => old # 0
  <2> SUFFICES ASSUME c.ver = 0 PROVE old # 0
    OBVIOUS
  <2>1. PICK v \in 1..MaxVersion : Stores(1 - 1, c.obj, v)
    <3>1. 1 \in 1..Len(watch)
      BY <1>3
    <3> QED BY <1>2, <3>1 DEF CurrentInv, WatchCurrent
  <2> QED BY <1>2, <2>1, WatcherAssumption DEF Stores, LatestIs
<1>8. PICK l : l = Len(notes)
  OBVIOUS
<1>9. ASSUME n.call # "OnAdd", NEW t \in TopicsOf(n.obj)
      PROVE  \E v \in 1..MaxVersion : Shows(t, l, n.obj, v)'
  <2>1. old \in 1..MaxVersion
    BY <1>5, <1>6, <1>7, <1>9, WatcherAssumption DEF Versions
  <2>2. Shows(t, l, c.obj, old)
    <3>1. old # 0
      BY <2>1, WatcherAssumption
    <3> QED BY <1>2, <1>5, <1>6, <1>8, <1>9, <3>1 DEF CurrentInv, StoreShown
  <2>3. Shows(t, l, c.obj, old)'
    BY <1>1, <1>3, <1>8, <2>2, PrefixShows
  <2> QED BY <1>5, <2>1, <2>3
<1>10. Follows(l + 1)'
  <2>1. (l + 1) - 1 = l
    BY <1>3, <1>8
  <2> QED BY <1>4, <1>8, <1>9, <2>1 DEF Follows
<1>11. \A m \in 1..Len(notes) : Follows(m)'
  BY <1>1, <1>3, OldFollows DEF KindInv, NoteKinds
<1>12. \A m \in 1..Len(notes') : m \in 1..Len(notes) \/ m = l + 1
  BY <1>3, <1>8
<1>13. NoteKinds'
  BY <1>3, <1>4, <1>5, <1>8, <1>10, <1>11, <1>12 DEF KindInv, NoteKinds
<1> QED BY <1>1, <1>13 DEF KindInv, ShownKinds, JobKinds

\* In a list each object is reported once, after what the callbacks so far show of it.
LEMMA RelistKinds ==
    ASSUME TypeOK, KindInv, CurrentInv, Relist
    PROVE  KindInv'
<1>1. UNCHANGED <<job, shown, kinds>>
  BY DEF Relist, handlerVars
<1>2. PICK order \in Seq(Objects) :
             /\ Len(notes') = Len(notes) + Len(order)
             /\ \A i \in 1..Len(notes) : notes'[i] = notes[i]
             /\ \A i \in 1..Len(order) :
                  /\ notes'[Len(notes) + i] =
                        Callback(order[i], cache[order[i]], world[order[i]], TRUE)
                  /\ cache[order[i]] # 0 \/ world[order[i]] # 0
             /\ \A i, j \in 1..Len(order) : order[i] = order[j] => i = j
  BY RelistOrder
<1>3. PICK l : l = Len(notes)
  OBVIOUS
<1>4. l \in Nat /\ Len(order) \in Nat
  BY <1>3 DEF TypeOK
<1>5. ASSUME NEW i \in 1..Len(order)
      PROVE  /\ notes'[l + i].call = "OnDelete" <=> notes'[l + i].ver = 0
             /\ notes'[l + i].tombstone => notes'[l + i].ver = 0
             /\ Follows(l + i)'
  <2>1. PICK o, old, new : o = order[i] /\ old = cache[o] /\ new = world[o]
    OBVIOUS
  <2>2. PICK n : n = notes'[l + i]
    OBVIOUS
  <2>3. n = Callback(o, old, new, TRUE) /\ (old # 0 \/ new # 0)
    BY <1>2, <1>3, <2>1, <2>2
  <2>4. /\ n.obj = o /\ n.ver = new
        /\ n.call = "OnDelete" <=> new = 0
        /\ n.call # "OnAdd" => old # 0
        /\ n.tombstone => new = 0
    BY <2>3 DEF Callback
  <2>5. o \in Objects /\ old \in Versions
    BY <2>1 DEF TypeOK
  <2>6. ASSUME old # 0, NEW t \in TopicsOf(o)
        PROVE  \E v \in 1..MaxVersion : Shows(t, l + (i - 1), o, v)'
    <3>1. old \in 1..MaxVersion
      BY <2>5, <2>6, WatcherAssumption DEF Versions
    <3>2. Shows(t, l, o, old)
      BY <1>3, <2>1, <2>5, <2>6 DEF CurrentInv, StoreShown
    <3>3. ASSUME NEW m \in l + 1 .. l + (i - 1) PROVE notes'[m].obj # o
      <4>1. PICK j \in 1..Len(order) : m = l + j /\ j < i
        <5>1. m - l \in 1..Len(order) /\ m = l + (m - l) /\ m - l < i
          BY <1>4
        <5> QED BY <5>1
      <4>2. notes'[m] = Callback(order[j], cache[order[j]], world[order[j]], TRUE)
        BY <1>2, <1>3, <4>1
      <4>3. notes'[m].obj = order[j]
        BY <4>2 DEF Callback
      <4>4. order[j] # order[i]
        BY <1>2, <4>1
      <4> QED BY <2>1, <4>3, <4>4
    <3>4. i - 1 \in Nat
      OBVIOUS
    <3>5. Shows(t, l + (i - 1), o, old)'
      BY <1>1, <1>2, <1>3, <1>4, <3>2, <3>3, <3>4, ExtendedShows
    <3> QED BY <3>1, <3>5
  <2>7. (l + i) - 1 = l + (i - 1)
    BY <1>4
  <2> QED BY <2>2, <2>4, <2>6, <2>7 DEF Follows
<1>6. \A m \in 1..Len(notes') : m \in 1..l \/ \E i \in 1..Len(order) : m = l + i
  <2>1. ASSUME NEW m \in 1..Len(notes'), m \notin 1..l
        PROVE  m - l \in 1..Len(order) /\ m = l + (m - l)
    BY <1>2, <1>3, <1>4, <2>1
  <2> QED BY <2>1
<1>7. ASSUME NEW m \in 1..l
      PROVE  /\ notes'[m].call = "OnDelete" <=> notes'[m].ver = 0
             /\ notes'[m].tombstone => notes'[m].ver = 0
             /\ Follows(m)'
  <2>1. Follows(m)'
    BY <1>1, <1>2, <1>3, OldFollows DEF KindInv, NoteKinds
  <2> QED BY <1>2, <1>3, <2>1 DEF KindInv, NoteKinds
<1>8. NoteKinds'
  BY <1>5, <1>6, <1>7 DEF NoteKinds
<1> QED BY <1>1, <1>8 DEF KindInv, ShownKinds, JobKinds

LEMMA StepKinds ==
    ASSUME TypeOK, JobInv, KindInv, CurrentInv, [Next]_vars
    PROVE  KindInv'
<1>1. CASE Handle
  BY <1>1, HandleKinds
<1>2. CASE PublishOne
  BY <1>2, PublishKinds
<1>3. CASE ReadWatch
  BY <1>3, ReadWatchKinds
<1>4. CASE Relist
  BY <1>4, RelistKinds
<1>5. CASE UNCHANGED <<job, shown, kinds, notes>>
  BY <1>5 DEF KindInv, ShownKinds, JobKinds, NoteKinds, Follows, Shows, DoneIs, Publishes
<1> QED BY <1>1, <1>2, <1>3, <1>4, <1>5
    DEF Next, ServerStep, InformerStep, HandlerStep, StreamStep, Write, Delete, ChangeTo,
        Break, DropOldest, Receive, vars, handlerVars, informerVars

-----------------------------------------------------------------------------
(* The informer's store *)

LEMMA ReadWatchStoreShown ==
    ASSUME TypeOK, StoreShown, ReadWatch
    PROVE  StoreShown'
<1>1. UNCHANGED <<job, shown>>
  BY DEF ReadWatch, handlerVars
<1>2. PICK c, l : c = watch[1] /\ l = Len(notes)
  OBVIOUS
<1>3. /\ c \in Change /\ l \in Nat /\ Len(notes') = l + 1
      /\ cache' = [cache EXCEPT ![c.obj] = c.ver]
      /\ \A i \in 1..l : notes'[i] = notes[i]
      /\ notes'[l + 1] = Callback(c.obj, cache[c.obj], c.ver, FALSE)
  BY <1>2, ReadWatchNotes
<1>4. notes'[l + 1].obj = c.obj /\ notes'[l + 1].ver = c.ver
  BY <1>3 DEF Callback
<1>5. ASSUME NEW o \in Objects, cache'[o] # 0, NEW t \in TopicsOf(o)
      PROVE  LatestIs(notes', l + 1, o, cache'[o]) \/ \E v : cache'[o] = v /\ Shows(t, l + 1, o, v)'
  <2>1. CASE o = c.obj
    <3>1. cache'[o] = c.ver
      BY <1>3, <2>1 DEF TypeOK
    <3>2. PICK r : r = notes'
      OBVIOUS
    <3>3. LatestIs(r, l + 1, o, r[l + 1].ver)
      BY <1>3, <1>4, <2>1, <3>2, LatestSnoc
    <3> QED BY <1>4, <3>1, <3>2, <3>3
  <2>2. CASE o # c.obj
    <3>1. PICK v : v = cache[o]
      OBVIOUS
    <3>2. cache'[o] = v
      BY <1>3, <2>2, <3>1 DEF TypeOK
    <3>3. Shows(t, l, o, v)
      BY <1>2, <1>5, <3>1, <3>2 DEF StoreShown
    <3>4. \A m \in l + 1 .. l + 1 : notes'[m].obj # o
      <4>1. l \in Nat
        BY <1>3
      <4>2. \A m \in l + 1 .. l + 1 : m = l + 1
        BY <4>1
      <4> QED BY <1>4, <2>2, <4>2
    <3>5. Shows(t, l + 1, o, v)'
      BY <1>1, <1>3, <3>3, <3>4, ExtendedShows
    <3> QED BY <3>2, <3>5
  <2> QED BY <2>1, <2>2
<1>6. ASSUME NEW o \in Objects, cache'[o] # 0, NEW t \in TopicsOf(o)
      PROVE  Shows(t, Len(notes), o, cache[o])'
  BY <1>3, <1>5, <1>6 DEF Shows
<1> QED BY <1>6 DEF StoreShown, TopicsOf

LEMMA RelistStoreShown ==
    ASSUME TypeOK, StoreShown, Relist
    PROVE  StoreShown'
<1>1. UNCHANGED <<job, shown>> /\ cache' = world
  BY DEF Relist, handlerVars
<1>2. PICK l : l = Len(notes)
  OBVIOUS
<1>3. PICK order \in Seq(Objects) :
             /\ Len(notes') = l + Len(order)
             /\ \A i \in 1..l : notes'[i] = notes[i]
             /\ \A i \in 1..Len(order) :
                  notes'[l + i] = Callback(order[i], cache[order[i]], world[order[i]], TRUE)
             /\ \A i, j \in 1..Len(order) : order[i] = order[j] => i = j
             /\ \A o \in Objects : cache[o] = world[o] \/ \E i \in 1..Len(order) : order[i] = o
  BY <1>2, RelistOrder
<1>4. l \in Nat /\ Len(order) \in Nat
  BY <1>2 DEF TypeOK
<1>5. ASSUME NEW i \in 1..Len(order)
      PROVE  notes'[l + i].obj = order[i] /\ notes'[l + i].ver = world[order[i]]
  <2>1. notes'[l + i] = Callback(order[i], cache[order[i]], world[order[i]], TRUE)
    BY <1>3
  <2> QED BY <2>1 DEF Callback
<1>6. \A m \in l + 1 .. l + Len(order) : m - l \in 1..Len(order) /\ m = l + (m - l)
  BY <1>4
<1>7. ASSUME NEW o \in Objects, world[o] # 0, NEW t \in TopicsOf(o)
      PROVE  LatestIs(notes', l + Len(order), o, world[o])
             \/ Shows(t, l + Len(order), o, world[o])'
  <2>1. CASE \E i \in 1..Len(order) : order[i] = o
    <3>1. PICK i \in 1..Len(order) : order[i] = o
      BY <2>1
    <3>2. l + i \in 1 .. l + Len(order)
      BY <1>4
    <3>3. \A m \in (l + i) + 1 .. l + Len(order) :
            m - l \in 1..Len(order) /\ m = l + (m - l) /\ m - l # i
      BY <1>4
    <3>4. \A m \in (l + i) + 1 .. l + Len(order) : notes'[m].obj # o
      BY <1>3, <1>5, <3>1, <3>3
    <3> QED BY <1>5, <3>1, <3>2, <3>4 DEF LatestIs
  <2>2. CASE ~\E i \in 1..Len(order) : order[i] = o
    <3>1. PICK v : v = world[o]
      OBVIOUS
    <3>2. Shows(t, l, o, v)
      BY <1>2, <1>3, <1>7, <2>2, <3>1 DEF StoreShown
    <3>3. \A m \in l + 1 .. l + Len(order) : notes'[m].obj # o
      BY <1>5, <1>6, <2>2
    <3>4. Shows(t, l + Len(order), o, v)'
      BY <1>1, <1>3, <1>4, <3>2, <3>3, ExtendedShows
    <3> QED BY <1>1, <3>1, <3>4 DEF Relist
  <2> QED BY <2>1, <2>2
<1>8. UNCHANGED world
  BY DEF Relist
<1>9. ASSUME NEW o \in Objects, cache'[o] # 0, NEW t \in TopicsOf(o)
      PROVE  Shows(t, Len(notes), o, cache[o])'
  BY <1>1, <1>3, <1>7, <1>8, <1>9 DEF Shows
<1> QED BY <1>9 DEF StoreShown, TopicsOf

LEMMA StepStoreShown ==
    ASSUME TypeOK, JobInv, KindInv, StoreShown, [Next]_vars
    PROVE  StoreShown'
<1>1. CASE ReadWatch
  BY <1>1, ReadWatchStoreShown
<1>2. CASE Relist
  BY <1>2, RelistStoreShown
<1>3. CASE Handle
  <2>1. PICK l : l = Len(notes)
    OBVIOUS
  <2>2. UNCHANGED cache /\ l \in Nat \ {0} /\ Len(notes') = l - 1
    BY <1>3, <2>1, HandleJob DEF Handle
  <2>3. l \in 1..Len(notes) /\ 1 \in 1..Len(notes)
    BY <2>1, <2>2
  <2>4. notes[1].tombstone => notes[1].ver = 0
    BY <2>3 DEF KindInv, NoteKinds
  <2>5. ASSUME NEW o \in Objects, cache[o] # 0, NEW t \in TopicsOf(o)
        PROVE  Shows(t, Len(notes), o, cache[o])'
    <3>1. PICK v : v = cache[o]
      OBVIOUS
    <3>2. v \in 1..MaxVersion
      BY <2>5, <3>1, WatcherAssumption DEF TypeOK, Versions
    <3>3. Shows(t, l, o, v)
      BY <2>1, <2>5, <3>1 DEF StoreShown
    <3>4. Shows(t, l - 1, o, v)'
      BY <1>3, <2>3, <2>4, <3>2, <3>3, HandleShows
    <3> QED BY <2>2, <3>1, <3>4 DEF Shows
  <2> QED BY <2>2, <2>5 DEF StoreShown, TopicsOf
<1>4. CASE PublishOne
  <2>1. UNCHANGED <<cache, notes>>
    BY <1>4 DEF PublishOne, informerVars
  <2>2. ASSUME NEW o \in Objects, cache[o] # 0, NEW t \in TopicsOf(o)
        PROVE  Shows(t, Len(notes), o, cache[o])'
    <3>1. PICK l, v : l = Len(notes) /\ v = cache[o]
      OBVIOUS
    <3>2. Shows(t, l, o, v)
      BY <2>2, <3>1 DEF StoreShown
    <3>3. Shows(t, l, o, v)'
      BY <1>4, <3>2, PublishShows
    <3> QED BY <2>1, <3>1, <3>3 DEF Shows
  <2> QED BY <2>1, <2>2 DEF StoreShown, TopicsOf
<1>5. CASE UNCHANGED <<job, shown, cache, notes>>
  BY <1>5 DEF StoreShown, Shows, DoneIs, Publishes, TopicsOf
<1> QED BY <1>1, <1>2, <1>3, <1>4, <1>5
    DEF Next, ServerStep, InformerStep, HandlerStep, StreamStep, Write, Delete, ChangeTo,
        Break, DropOldest, Receive, vars, handlerVars, informerVars

\* A change that the server sends is behind those it has sent.
LEMMA ChangeWatchCurrent ==
    ASSUME TypeOK, WatchCurrent, NEW o \in Objects, NEW v \in Versions, ChangeTo(o, v),
           v = 0 => world[o] # 0
    PROVE  WatchCurrent'
<1>1. UNCHANGED <<broken, cache>> /\ world' = [world EXCEPT ![o] = v]
  BY DEF ChangeTo
<1>2. CASE broken
  <2>1. watch' = <<>>
    BY <1>2 DEF ChangeTo, WatchCurrent
  <2>2. Len(watch') = 0
    BY <2>1
  <2> QED BY <1>1, <1>2, <2>1, <2>2 DEF WatchCurrent
<1>3. CASE ~broken
  <2>1. PICK l, c : l = Len(watch) /\ c = [obj |-> o, ver |-> v]
    OBVIOUS
  <2>2. c \in Change /\ c.obj = o /\ c.ver = v /\ watch \in Seq(Change)
        /\ watch' = Append(watch, c)
    BY <1>3, <2>1 DEF ChangeTo, TypeOK, Change
  <2>3. l \in Nat /\ Len(watch') = l + 1 /\ watch'[l + 1] = c
        /\ \A i \in 1..l : watch'[i] = watch[i]
    BY <2>1, <2>2
  <2>4. PICK r : r = watch'
    OBVIOUS
  <2>5. ASSUME NEW n \in 0..l, NEW x, NEW y, Stores(n, x, y) PROVE Stores(n, x, y)'
    <3>1. \A i \in 1..n : r[i] = watch[i]
      BY <2>3, <2>4
    <3>2. /\ LatestIs(watch, n, x, y) => LatestIs(r, n, x, y)
          /\ Absent(watch, n, x) => Absent(r, n, x)
      BY <3>1, LatestSame
    <3> QED BY <1>1, <2>4, <2>5, <3>2 DEF Stores
  <2>6. \A x \in Objects : Stores(l, x, world[x])
    BY <1>3, <2>1 DEF WatchCurrent
  <2>7. l \in 0..l
    BY <2>3
  <2>8. ASSUME NEW x \in Objects PROVE Stores(Len(watch), x, world[x])'
    <3>1. CASE x = o
      <4>1. world'[x] = v /\ r[l + 1].obj = o /\ r[l + 1].ver = v
        BY <1>1, <2>2, <2>3, <2>4, <3>1 DEF TypeOK
      <4>2. LatestIs(r, l + 1, o, r[l + 1].ver)
        BY <2>3, <4>1, LatestSnoc
      <4> QED BY <2>3, <2>4, <3>1, <4>1, <4>2 DEF Stores
    <3>2. CASE x # o
      <4>1. PICK y : y = world[x]
        OBVIOUS
      <4>2. world'[x] = y /\ r[l + 1].obj # x
        BY <1>1, <2>2, <2>3, <2>4, <3>2, <4>1 DEF TypeOK
      <4>3. Stores(l, x, y)'
        BY <2>5, <2>6, <2>7, <4>1
      <4>4. /\ LatestIs(r, l, x, y) => LatestIs(r, l + 1, x, y)
            /\ Absent(r, l, x) => Absent(r, l + 1, x)
        BY <2>3, <4>2, LatestSnocOther
      <4> QED BY <2>3, <2>4, <4>2, <4>3, <4>4 DEF Stores
    <3> QED BY <3>1, <3>2
  <2>9. ASSUME NEW n \in 1..Len(watch'), watch'[n].ver = 0
        PROVE  \E y \in 1..MaxVersion : Stores(n - 1, watch[n].obj, y)'
    <3>1. PICK x : x = watch'[n].obj
      OBVIOUS
    <3>2. n - 1 \in 0..l /\ (n = l + 1 \/ n \in 1..l)
      BY <2>3
    <3>3. CASE n \in 1..l
      <4>1. watch[n].ver = 0 /\ watch[n].obj = x /\ n \in 1..Len(watch)
        BY <2>1, <2>3, <2>9, <3>1, <3>3
      <4>2. PICK y \in 1..MaxVersion : Stores(n - 1, x, y)
        BY <4>1 DEF WatchCurrent
      <4>3. Stores(n - 1, x, y)'
        BY <2>5, <3>2, <4>2
      <4> QED BY <3>1, <4>3 DEF Stores
    <3>4. CASE n = l + 1
      <4>1. x = o /\ v = 0
        BY <2>2, <2>3, <2>9, <3>1, <3>4
      <4>2. PICK y : y = world[o]
        OBVIOUS
      <4>3. y \in 1..MaxVersion
        BY <4>1, <4>2, WatcherAssumption DEF TypeOK, Versions
      <4>4. Stores(l, x, y)'
        BY <2>5, <2>6, <2>7, <4>1, <4>2
      <4>5. n - 1 = l
        BY <2>3, <3>4
      <4> QED BY <3>1, <4>3, <4>4, <4>5 DEF Stores
    <3> QED BY <3>2, <3>3, <3>4
  <2> QED BY <1>1, <1>3, <2>8, <2>9 DEF WatchCurrent
<1> QED BY <1>2, <1>3

\* The informer stores the oldest change.
LEMMA ReadWatchCurrent ==
    ASSUME TypeOK, WatchCurrent, ReadWatch
    PROVE  WatchCurrent'
<1>1. ~broken /\ UNCHANGED <<broken, world>>
  BY DEF ReadWatch
<1>2. PICK c, l : c = watch[1] /\ l = Len(watch)
  OBVIOUS
<1>3. /\ c \in Change /\ l \in Nat \ {0} /\ Len(watch') = l - 1
      /\ cache' = [cache EXCEPT ![c.obj] = c.ver]
      /\ \A i \in 1..l - 1 : watch'[i] = watch[i + 1]
  BY <1>2, ReadWatchNotes
<1>4. PICK q, r : q = watch /\ r = watch'
  OBVIOUS
<1>5. ASSUME NEW n \in 1..l, NEW x \in Objects, NEW y, Stores(n, x, y)
      PROVE  Stores(n - 1, x, y)'
  <2>1. n \in Nat \ {0}
    BY <1>3
  <2>2. IsTail(q, r, n)
    <3>1. \A i \in 1..n - 1 : i \in 1..l - 1
      BY <1>3
    <3> QED BY <1>3, <1>4, <3>1 DEF IsTail
  <2>3. /\ LatestIs(q, n, x, y) =>
             \/ LatestIs(r, n - 1, x, y)
             \/ Absent(r, n - 1, x) /\ q[1].obj = x /\ q[1].ver = y
        /\ Absent(q, n, x) => Absent(r, n - 1, x) /\ q[1].obj # x
    BY <2>1, <2>2, LatestTail
  <2>4. c.obj = x /\ c.ver = y => cache'[x] = y
    BY <1>3 DEF TypeOK
  <2>5. c.obj # x => cache'[x] = cache[x]
    BY <1>3 DEF TypeOK
  <2> QED BY <1>2, <1>4, <1>5, <2>3, <2>4, <2>5 DEF Stores
<1>6. ASSUME NEW x \in Objects PROVE Stores(Len(watch), x, world[x])'
  <2>1. PICK y : y = world[x]
    OBVIOUS
  <2>2. Stores(l, x, y) /\ l \in 1..l
    BY <1>1, <1>2, <1>3, <2>1 DEF WatchCurrent
  <2>3. Stores(l - 1, x, y)'
    BY <1>5, <2>2
  <2> QED BY <1>1, <1>3, <2>1, <2>3 DEF Stores
<1>7. ASSUME NEW n \in 1..Len(watch'), watch'[n].ver = 0
      PROVE  \E y \in 1..MaxVersion : Stores(n - 1, watch[n].obj, y)'
  <2>1. PICK x : x = watch'[n].obj
    OBVIOUS
  <2>2. n \in 1..l /\ n + 1 \in 1..l /\ n \in 1..l - 1 /\ (n + 1) - 1 = n
    BY <1>3
  <2>3. watch[n + 1].ver = 0 /\ watch[n + 1].obj = x
    BY <1>3, <1>7, <2>1, <2>2
  <2>4. PICK y \in 1..MaxVersion : Stores(n, x, y)
    BY <1>2, <2>2, <2>3 DEF WatchCurrent
  <2>5. x \in Objects
    <3>1. watch[n + 1] \in Change
      BY <1>2, <2>2 DEF TypeOK
    <3> QED BY <2>3, <3>1 DEF Change
  <2>6. Stores(n - 1, x, y)'
    BY <1>5, <2>2, <2>4, <2>5
  <2> QED BY <2>1, <2>6 DEF Stores
<1> QED BY <1>1, <1>6, <1>7 DEF WatchCurrent

LEMMA StepWatchCurrent ==
    ASSUME TypeOK, WatchCurrent, [Next]_vars
    PROVE  WatchCurrent'
<1>1. ASSUME NEW o \in Objects, Write(o) PROVE WatchCurrent'
  <2>1. version + 1 \in Versions /\ version + 1 # 0
    BY <1>1, WatcherAssumption DEF Write, ChangeTo, TypeOK, Versions
  <2> QED BY <1>1, <2>1, ChangeWatchCurrent DEF Write
<1>2. ASSUME NEW o \in Objects, Delete(o) PROVE WatchCurrent'
  <2>1. 0 \in Versions
    BY WatcherAssumption DEF Versions
  <2> QED BY <1>2, <2>1, ChangeWatchCurrent DEF Delete
<1>3. CASE ReadWatch
  BY <1>3, ReadWatchCurrent
<1>4. CASE Break
  <2>1. broken' /\ watch' = <<>>
    BY <1>4 DEF Break
  <2>2. Len(watch') = 0
    BY <2>1
  <2> QED BY <2>1, <2>2 DEF WatchCurrent
<1>5. CASE Relist
  <2>1. watch' = <<>> /\ cache' = world' /\ Len(watch') = 0
    BY <1>5 DEF Relist, WatchCurrent
  <2> QED BY <2>1 DEF WatchCurrent, Stores, Absent
<1>6. CASE UNCHANGED <<watch, broken, cache, world>>
  BY <1>6 DEF WatchCurrent, Stores
<1> QED BY <1>1, <1>2, <1>3, <1>4, <1>5, <1>6
    DEF Next, ServerStep, InformerStep, HandlerStep, StreamStep, Handle, PublishOne,
        DropOldest, Receive, vars, informerVars

LEMMA InitPublishInv == Init => PublishInv
<1> SUFFICES ASSUME Init PROVE PublishInv
  OBVIOUS
<1>1. TypeOK
  BY InitType
<1>2. JobInv
  BY SpecificTopic DEF Init, JobInv
<1>3. KindInv
  BY DEF Init, KindInv, ShownKinds, JobKinds, NoteKinds
<1>4. CurrentInv
  BY DEF Init, CurrentInv, StoreShown, WatchCurrent
<1> QED BY <1>1, <1>2, <1>3, <1>4 DEF PublishInv

LEMMA StepPublishInv == PublishInv /\ [Next]_vars => PublishInv'
  BY StepType, StepJobInv, StepKinds, StepStoreShown, StepWatchCurrent
  DEF PublishInv, CurrentInv

\* A topic never says that an object was updated or deleted that its own events have not
\* created, or have deleted already: whatever the watches lost and however often the
\* object came and went.
THEOREM Lifecycle == Spec => LifecycleOrder
<1>1. PublishInv /\ [Next]_vars =>
        [Len(job') < Len(job) =>
            LET e == Head(job)
            IN  e.kind \in {"cluster.updated", "cluster.deleted"} =>
                    kinds[e.topic][e.obj] \in {"cluster.created", "cluster.updated"}]_vars
  <2> SUFFICES ASSUME PublishInv, Next, Len(job') < Len(job), NEW e, e = Head(job),
                      e.kind \in {"cluster.updated", "cluster.deleted"}
               PROVE  kinds[e.topic][e.obj] \in {"cluster.created", "cluster.updated"}
    OBVIOUS
  <2>1. Len(job) \in Nat /\ Len(job') \in Nat
    BY StepType DEF PublishInv, TypeOK
  <2>2. job # <<>> /\ job' # job
    BY <2>1
  <2>3. PublishOne
    BY <2>2 DEF Next, ServerStep, InformerStep, HandlerStep, StreamStep, Write, Delete,
           ChangeTo, ReadWatch, Break, Relist, Handle, DropOldest, Receive, handlerVars
  <2>4. e = job[1] /\ e \in Publication /\ 1 \in 1..Len(job) /\ e.kind # "cluster.created"
    BY <2>3, PublishJob DEF PublishInv
  <2>5. e.topic \in Topics /\ e.obj \in Objects
    BY <2>4 DEF Publication
  <2>6. shown[e.topic][e.obj] # 0
    BY <2>4 DEF PublishInv, KindInv, JobKinds
  <2> QED BY <2>5, <2>6 DEF PublishInv, KindInv, ShownKinds
<1> QED BY <1>1, InitPublishInv, StepPublishInv, PTL DEF Spec, LifecycleOrder

-----------------------------------------------------------------------------
(* Versions grow along the way                                              *)

\* Each change is newer than all there is.
LEMMA ChangeShape ==
    ASSUME TypeOK, NEW o \in Objects, NEW v \in {0, version + 1}, ChangeTo(o, v)
    PROVE  /\ version \in Nat /\ version' = version + 1
           /\ \A x \in Objects : world'[x] = IF x = o THEN v ELSE world[x]
           /\ Len(watch) \in Nat
           /\ \/ UNCHANGED watch
              \/ /\ Len(watch') = Len(watch) + 1
                 /\ \A i \in 1..Len(watch) : watch'[i] = watch[i]
                 /\ watch'[Len(watch) + 1].obj = o /\ watch'[Len(watch) + 1].ver = v
           /\ UNCHANGED <<notes, job, shown>>
<1>1. PICK c : c = [obj |-> o, ver |-> v]
  OBVIOUS
<1>2. c.obj = o /\ c.ver = v /\ (UNCHANGED watch \/ watch' = Append(watch, c))
  BY <1>1 DEF ChangeTo
<1>3. watch \in Seq(Change) /\ version \in Nat
  BY DEF TypeOK, Versions
<1>4. \A x \in Objects : world'[x] = IF x = o THEN v ELSE world[x]
  BY DEF ChangeTo, TypeOK
<1>5. Len(watch) \in Nat
  BY <1>3
<1>6. CASE watch' = Append(watch, c)
  <2>1. Len(watch') = Len(watch) + 1 /\ watch'[Len(watch) + 1] = c
        /\ \A i \in 1..Len(watch) : watch'[i] = watch[i]
    BY <1>3, <1>6
  <2> QED BY <1>2, <1>3, <1>4, <1>5, <2>1 DEF ChangeTo, handlerVars
<1> QED BY <1>2, <1>3, <1>4, <1>5, <1>6 DEF ChangeTo, handlerVars

LEMMA ServerChange ==
    ASSUME TypeOK, ServerStep
    PROVE  \E o \in Objects, v \in {0, version + 1} : ChangeTo(o, v)
  BY DEF ServerStep, Write, Delete

LEMMA ChangeBehind ==
    ASSUME TypeOK, ServerStep, NEW x \in Versions, NEW p \in Objects, Behind(x, p)
    PROVE  Behind(x, p)'
<1>1. PICK o \in Objects, v \in {0, version + 1} : ChangeTo(o, v)
  BY ServerChange
<1>2. x \in Nat /\ version \in Nat /\ version' = version + 1 /\ x <= version
  BY <1>1, ChangeShape, WatcherAssumption DEF Versions, Behind
<1>3. x <= version' /\ Up(x, v)
  BY <1>2 DEF Up
<1>4. Up(x, world'[p])
  BY <1>1, <1>3, ChangeShape DEF Behind
<1>5. ASSUME NEW k \in 1..Len(watch'), watch'[k].obj = p
      PROVE  Up(x, watch'[k].ver)
  <2>1. CASE k \in 1..Len(watch) /\ watch'[k] = watch[k]
    BY <1>5, <2>1 DEF Behind, UpSeq
  <2>2. CASE watch'[k].ver = v
    BY <1>3, <2>2
  <2>3. CASE UNCHANGED watch
    BY <2>1, <2>3
  <2>4. CASE /\ Len(watch) \in Nat /\ Len(watch') = Len(watch) + 1
             /\ \A i \in 1..Len(watch) : watch'[i] = watch[i]
             /\ watch'[Len(watch) + 1].ver = v
    <3>1. k \in 1..Len(watch) \/ k = Len(watch) + 1
      BY <2>4
    <3> QED BY <2>1, <2>2, <2>4, <3>1
  <2> QED BY <1>1, <2>3, <2>4, ChangeShape
<1> QED BY <1>3, <1>4, <1>5 DEF Behind, UpSeq

LEMMA StepBehind ==
    ASSUME TypeOK, [Next]_vars, NEW x \in Versions, NEW p \in Objects, Behind(x, p)
    PROVE  Behind(x, p)'
<1>1. CASE ServerStep
  BY <1>1, ChangeBehind
<1>2. CASE ReadWatch
  <2>1. UNCHANGED <<version, world>>
    BY <1>2 DEF ReadWatch
  <2>2. \A k \in 1..Len(watch') : k + 1 \in 1..Len(watch) /\ watch'[k] = watch[k + 1]
    BY <1>2, ReadWatchNotes
  <2>3. UpSeq(x, p, watch)'
    BY <2>2 DEF Behind, UpSeq
  <2> QED BY <2>1, <2>3 DEF Behind
<1>3. CASE Break
  <2>1. Len(watch') = 0
    BY <1>3 DEF Break
  <2> QED BY <1>3, <2>1 DEF Break, Behind, UpSeq
<1>4. CASE UNCHANGED <<version, world, watch>>
  BY <1>4 DEF Behind
<1> QED BY <1>1, <1>2, <1>3, <1>4
    DEF Next, InformerStep, HandlerStep, StreamStep, Relist, Handle, PublishOne,
        DropOldest, Receive, vars, informerVars

\* A callback that the informer adds is about a change, or the server's state.
LEMMA AddedNotes ==
    ASSUME TypeOK, CurrentInv, [Next]_vars, ~Handle
    PROVE  /\ Len(notes) \in Nat /\ Len(notes') \in Nat /\ Len(notes) <= Len(notes')
           /\ \A i \in 1..Len(notes) : notes'[i] = notes[i]
           /\ \A i \in Len(notes) + 1 .. Len(notes') :
                /\ notes'[i].obj \in Objects
                /\ \/ /\ Len(watch) > 0 /\ i = Len(notes) + 1 /\ UNCHANGED world
                      /\ notes'[i].obj = watch[1].obj /\ notes'[i].ver = watch[1].ver
                   \/ /\ Len(watch) = 0 /\ UNCHANGED <<world, watch>>
                      /\ notes'[i].ver = world[notes'[i].obj]
<1>1. CASE ReadWatch
  <2>1. PICK c : c = watch[1]
    OBVIOUS
  <2>2. /\ c \in Change /\ Len(watch) \in Nat \ {0}
        /\ Len(notes) \in Nat /\ Len(notes') = Len(notes) + 1
        /\ \A i \in 1..Len(notes) : notes'[i] = notes[i]
        /\ notes'[Len(notes) + 1] = Callback(c.obj, cache[c.obj], c.ver, FALSE)
    BY <1>1, <2>1, ReadWatchNotes
  <2>3. notes'[Len(notes) + 1].obj = c.obj /\ notes'[Len(notes) + 1].ver = c.ver
        /\ c.obj \in Objects
    BY <2>2 DEF Callback, Change
  <2>4. /\ Len(notes) \in Nat /\ Len(notes') \in Nat /\ Len(notes) <= Len(notes')
        /\ \A i \in Len(notes) + 1 .. Len(notes') : i = Len(notes) + 1
        /\ Len(watch) > 0
    BY <2>2
  <2>5. UNCHANGED world
    BY <1>1 DEF ReadWatch
  <2> QED BY <2>1, <2>2, <2>3, <2>4, <2>5
<1>2. CASE Relist
  <2>1. PICK order \in Seq(Objects) :
             /\ Len(notes') = Len(notes) + Len(order)
             /\ \A i \in 1..Len(notes) : notes'[i] = notes[i]
             /\ \A i \in 1..Len(order) :
                  notes'[Len(notes) + i] =
                        Callback(order[i], cache[order[i]], world[order[i]], TRUE)
    BY <1>2, RelistOrder
  <2>2. Len(notes) \in Nat /\ Len(order) \in Nat
    BY DEF TypeOK
  <2>3. Len(watch) = 0 /\ UNCHANGED <<world, watch>>
    BY <1>2 DEF Relist, CurrentInv, WatchCurrent
  <2>4. ASSUME NEW i \in Len(notes) + 1 .. Len(notes')
        PROVE  notes'[i].obj \in Objects /\ notes'[i].ver = world[notes'[i].obj]
    <3>1. PICK j \in 1..Len(order) : i = Len(notes) + j
      <4>1. i - Len(notes) \in 1..Len(order) /\ i = Len(notes) + (i - Len(notes))
        BY <2>1, <2>2
      <4> QED BY <4>1
    <3>2. notes'[i] = Callback(order[j], cache[order[j]], world[order[j]], TRUE)
      BY <2>1, <3>1
    <3> QED BY <3>2 DEF Callback
  <2>5. Len(notes') \in Nat /\ Len(notes) <= Len(notes')
    BY <2>1, <2>2
  <2> QED BY <2>1, <2>2, <2>3, <2>4, <2>5
<1>3. CASE UNCHANGED notes
  <2>1. Len(notes) \in Nat
    BY DEF TypeOK
  <2>2. \A n \in Nat : n <= n /\ \A i \in n + 1 .. n : FALSE
    OBVIOUS
  <2> QED BY <1>3, <2>1, <2>2
<1> QED BY <1>1, <1>2, <1>3
    DEF Next, ServerStep, InformerStep, HandlerStep, StreamStep, Write, Delete, ChangeTo,
        Break, PublishOne, DropOldest, Receive, vars, informerVars

\* What the callbacks publish after version x may follow it, if it is behind them.
LEMMA StepNotesAhead ==
    ASSUME TypeOK, CurrentInv, [Next]_vars, NEW x \in Versions, NEW p \in Objects,
           Behind(x, p), UpSeq(x, p, notes)
    PROVE  UpSeq(x, p, notes)'
<1>1. CASE Handle
  <2>1. \A k \in 1..Len(notes') : k + 1 \in 1..Len(notes) /\ notes'[k] = notes[k + 1]
    BY <1>1, HandleJob
  <2> QED BY <2>1 DEF UpSeq
<1>2. CASE ~Handle
  <2>1. ASSUME NEW k \in 1..Len(notes'), notes'[k].obj = p PROVE Up(x, notes'[k].ver)
    <3>1. CASE k \in 1..Len(notes)
      <4>1. notes'[k] = notes[k]
        BY <1>2, <3>1, AddedNotes
      <4> QED BY <2>1, <3>1, <4>1 DEF UpSeq
    <3>2. CASE k \notin 1..Len(notes)
      <4>1. k \in Len(notes) + 1 .. Len(notes')
        BY <1>2, <3>2, AddedNotes
      <4>2. CASE Len(watch) > 0 /\ notes'[k].obj = watch[1].obj /\ notes'[k].ver = watch[1].ver
        <5>1. 1 \in 1..Len(watch)
          BY <4>2 DEF TypeOK
        <5> QED BY <2>1, <4>2, <5>1 DEF Behind, UpSeq
      <4>3. CASE notes'[k].ver = world[notes'[k].obj]
        BY <2>1, <4>3 DEF Behind
      <4> QED BY <1>2, <4>1, <4>2, <4>3, AddedNotes
    <3> QED BY <3>1, <3>2
  <2> QED BY <2>1 DEF UpSeq
<1> QED BY <1>1, <1>2

LEMMA StepJobAhead ==
    ASSUME TypeOK, [Next]_vars, NEW x \in Versions, NEW p \in Objects,
           UpSeq(x, p, notes), UpSeq(x, p, job)
    PROVE  UpSeq(x, p, job)'
<1>1. CASE Handle
  <2>1. \A k \in 1..Len(job') : job'[k].obj = notes[1].obj /\ job'[k].ver = notes[1].ver
    BY <1>1, HandleEvents
  <2>2. 1 \in 1..Len(notes)
    BY <1>1, HandleJob
  <2> QED BY <2>1, <2>2 DEF UpSeq
<1>2. CASE PublishOne
  <2>1. \A k \in 1..Len(job') : k + 1 \in 1..Len(job) /\ job'[k] = job[k + 1]
    BY <1>2, PublishJob
  <2> QED BY <2>1 DEF UpSeq
<1>3. CASE UNCHANGED job
  BY <1>3 DEF UpSeq
<1> QED BY <1>1, <1>2, <1>3
    DEF Next, ServerStep, InformerStep, HandlerStep, StreamStep, Write, Delete, ChangeTo,
        ReadWatch, Break, Relist, DropOldest, Receive, vars, handlerVars

LEMMA UpSame == \A x \in Versions : Up(x, x)
  BY WatcherAssumption DEF Up, Versions

\* All that follows the oldest change, or the server's state, may follow it.
LEMMA HeadBehind ==
    ASSUME TypeOK, WatchOrder, Len(watch) > 0
    PROVE  Behind(watch[1].ver, watch[1].obj)
<1>1. 1 \in 1..Len(watch) /\ Len(watch) \in Nat
  BY DEF TypeOK
<1>2. watch[1].ver \in Versions
  <2>1. watch[1] \in Change
    BY <1>1 DEF TypeOK
  <2> QED BY <2>1 DEF Change
<1>3. ASSUME NEW k \in 1..Len(watch), watch[k].obj = watch[1].obj
      PROVE  Up(watch[1].ver, watch[k].ver)
  <2>1. CASE k = 1
    BY <1>2, <2>1, UpSame
  <2>2. CASE k # 1
    <3>1. 1 < k
      BY <2>2
    <3> QED BY <1>1, <1>3, <3>1 DEF WatchOrder, UpWithin
  <2> QED BY <2>1, <2>2
<1> QED BY <1>1, <1>3 DEF Behind, WatchOrder, UpSeq

LEMMA WorldBehind ==
    ASSUME TypeOK, WatchOrder, NEW o \in Objects, Len(watch) = 0
    PROVE  Behind(world[o], o)
<1>1. world[o] \in Versions /\ world[o] <= version
  BY DEF TypeOK, WatchOrder
<1> QED BY <1>1, UpSame DEF Behind, UpSeq

LEMMA StepWatchOrder ==
    ASSUME TypeOK, WatchOrder, [Next]_vars
    PROVE  WatchOrder'
<1>1. CASE ServerStep
  <2>1. PICK o \in Objects, v \in {0, version + 1} : ChangeTo(o, v)
    BY <1>1, ServerChange
  <2>2. version \in Nat /\ version' = version + 1 /\ v <= version'
        /\ \A n \in Nat : n <= version => n <= version' /\ Up(n, v)
    <3>1. version \in Nat /\ version' = version + 1
      BY <2>1, ChangeShape
    <3> QED BY <3>1 DEF Up
  <2>3. \A x \in Objects : world'[x] = IF x = o THEN v ELSE world[x]
    BY <2>1, ChangeShape
  <2>4. \A x \in Objects : world'[x] <= version'
    <3>1. ASSUME NEW x \in Objects PROVE world'[x] <= version'
      <4>1. world[x] \in Nat /\ world[x] <= version
        BY DEF WatchOrder, TypeOK, Versions
      <4> QED BY <2>2, <2>3, <4>1
    <3> QED BY <3>1
  <2>5. ASSUME NEW k \in 1..Len(watch)
        PROVE  watch[k].ver <= version' /\ Up(watch[k].ver, world'[watch[k].obj])
    <3>1. watch[k].ver \in Nat /\ watch[k].obj \in Objects
      <4>1. watch[k] \in Change
        BY DEF TypeOK
      <4> QED BY <4>1 DEF Change, Versions
    <3> QED BY <2>2, <2>3, <3>1 DEF WatchOrder
  <2>6. CASE UNCHANGED watch
    BY <2>4, <2>5, <2>6 DEF WatchOrder
  <2>7. CASE /\ Len(watch) \in Nat /\ Len(watch') = Len(watch) + 1
             /\ \A i \in 1..Len(watch) : watch'[i] = watch[i]
             /\ watch'[Len(watch) + 1].obj = o /\ watch'[Len(watch) + 1].ver = v
    <3>1. \A k \in 1..Len(watch') : k \in 1..Len(watch) \/ k = Len(watch) + 1
      BY <2>7
    <3>2. Up(v, v)
      BY <2>2 DEF Up
    <3>3. \A k \in 1..Len(watch') :
            watch'[k].ver <= version' /\ Up(watch'[k].ver, world'[watch'[k].obj])
      BY <2>2, <2>3, <2>5, <2>7, <3>1, <3>2
    <3>4. ASSUME NEW j \in 1..Len(watch'), NEW k \in 1..Len(watch'), j < k,
                 watch'[j].obj = watch'[k].obj
          PROVE  Up(watch'[j].ver, watch'[k].ver)
      <4>1. j \in 1..Len(watch) /\ watch'[j] = watch[j]
        BY <2>7, <3>4
      <4>2. CASE k \in 1..Len(watch)
        BY <2>7, <3>4, <4>1, <4>2 DEF WatchOrder, UpWithin
      <4>3. CASE k = Len(watch) + 1
        <5>1. watch[j].obj = o /\ world'[o] = v
          BY <2>3, <2>7, <3>4, <4>1, <4>3
        <5> QED BY <2>5, <2>7, <4>1, <4>3, <5>1
      <4> QED BY <3>1, <4>2, <4>3
    <3> QED BY <2>4, <3>3, <3>4 DEF WatchOrder, UpWithin
  <2> QED BY <2>1, <2>6, <2>7, ChangeShape
<1>2. CASE ReadWatch
  <2>1. UNCHANGED <<version, world>>
    BY <1>2 DEF ReadWatch
  <2>2. \A k \in 1..Len(watch') : k + 1 \in 1..Len(watch) /\ watch'[k] = watch[k + 1]
    BY <1>2, ReadWatchNotes
  <2>3. \A j, k \in 1..Len(watch') : j < k => j + 1 < k + 1
    OBVIOUS
  <2>4. UpWithin(watch')
    BY <2>2, <2>3 DEF WatchOrder, UpWithin
  <2> QED BY <2>1, <2>2, <2>4 DEF WatchOrder, UpWithin
<1>3. CASE Break
  <2>1. Len(watch') = 0
    BY <1>3 DEF Break
  <2> QED BY <1>3, <2>1 DEF Break, WatchOrder, UpWithin
<1>4. CASE UNCHANGED <<version, world, watch>>
  BY <1>4 DEF WatchOrder
<1> QED BY <1>1, <1>2, <1>3, <1>4
    DEF Next, InformerStep, HandlerStep, StreamStep, Relist, Handle, PublishOne,
        DropOldest, Receive, vars, informerVars

LEMMA StepNotesOrder ==
    ASSUME TypeOK, CurrentInv, WatchOrder, NotesOrder, [Next]_vars
    PROVE  NotesOrder'
<1>1. ASSUME NEW k \in 1..Len(notes)
      PROVE  /\ notes[k].ver \in Versions /\ notes[k].obj \in Objects
             /\ Behind(notes[k].ver, notes[k].obj)
  <2>1. notes[k] \in Note
    BY DEF TypeOK
  <2> QED BY <2>1 DEF Note, NotesOrder
<1>2. ASSUME NEW k \in 1..Len(notes), NEW n, n = notes[k]
      PROVE  Behind(n.ver, n.obj)'
  <2>1. n.ver \in Versions /\ n.obj \in Objects /\ Behind(n.ver, n.obj)
    BY <1>1, <1>2
  <2> QED BY <2>1, StepBehind
<1>3. CASE Handle
  <2>1. \A k \in 1..Len(notes') : k + 1 \in 1..Len(notes) /\ notes'[k] = notes[k + 1]
    BY <1>3, HandleJob
  <2>2. ASSUME NEW k \in 1..Len(notes') PROVE Behind(notes[k].ver, notes[k].obj)'
    <3>1. PICK n : n = notes[k + 1]
      OBVIOUS
    <3>2. Behind(n.ver, n.obj)'
      BY <1>2, <2>1, <3>1
    <3> QED BY <2>1, <3>1, <3>2 DEF Behind
  <2>3. \A j, k \in 1..Len(notes') : j < k => j + 1 < k + 1
    OBVIOUS
  <2>4. UpWithin(notes')
    BY <2>1, <2>3 DEF NotesOrder, UpWithin
  <2> QED BY <2>2, <2>4 DEF NotesOrder, UpWithin
<1>4. CASE ~Handle
  <2>1. \A i \in 1..Len(notes) : notes'[i] = notes[i]
    BY <1>4, AddedNotes
  <2>2. \A i \in 1..Len(notes') : i \in 1..Len(notes) \/ i \in Len(notes) + 1 .. Len(notes')
    BY <1>4, AddedNotes
  <2>3. ASSUME NEW i \in Len(notes) + 1 .. Len(notes'), NEW n, n = notes'[i]
        PROVE  /\ n.ver \in Versions /\ n.obj \in Objects /\ Behind(n.ver, n.obj)
    <3>1. CASE Len(watch) > 0 /\ n.obj = watch[1].obj /\ n.ver = watch[1].ver
      <4>1. 1 \in 1..Len(watch)
        BY <3>1 DEF TypeOK
      <4>2. watch[1] \in Change
        BY <4>1 DEF TypeOK
      <4>3. Behind(watch[1].ver, watch[1].obj)
        BY <3>1, HeadBehind
      <4> QED BY <3>1, <4>2, <4>3 DEF Change
    <3>2. CASE Len(watch) = 0 /\ n.ver = world[n.obj] /\ n.obj \in Objects
      <4>1. world[n.obj] \in Versions
        BY <3>2 DEF TypeOK
      <4> QED BY <3>2, <4>1, WorldBehind
    <3> QED BY <1>4, <2>3, <3>1, <3>2, AddedNotes
  <2>4. ASSUME NEW k \in 1..Len(notes') PROVE Behind(notes[k].ver, notes[k].obj)'
    <3>1. PICK n : n = notes'[k]
      OBVIOUS
    <3>2. Behind(n.ver, n.obj)'
      <4>1. CASE k \in 1..Len(notes)
        BY <1>2, <2>1, <3>1, <4>1
      <4>2. CASE k \in Len(notes) + 1 .. Len(notes')
        <5>1. n.ver \in Versions /\ n.obj \in Objects /\ Behind(n.ver, n.obj)
          BY <2>3, <3>1, <4>2
        <5> QED BY <5>1, StepBehind
      <4> QED BY <2>2, <4>1, <4>2
    <3> QED BY <3>1, <3>2 DEF Behind
  <2>5. ASSUME NEW j \in 1..Len(notes'), NEW k \in 1..Len(notes'), j < k,
               notes'[j].obj = notes'[k].obj
        PROVE  Up(notes'[j].ver, notes'[k].ver)
    <3>1. CASE k \in 1..Len(notes)
      <4>1. j \in 1..Len(notes)
        BY <2>5, <3>1
      <4> QED BY <2>1, <2>5, <3>1, <4>1 DEF NotesOrder, UpWithin
    <3>2. CASE j \in 1..Len(notes) /\ k \in Len(notes) + 1 .. Len(notes')
      <4>1. PICK m, n : m = notes'[j] /\ n = notes'[k]
        OBVIOUS
      <4>2. Behind(m.ver, m.obj) /\ m.obj = n.obj
        BY <1>1, <2>1, <2>5, <3>2, <4>1
      <4>3. CASE Len(watch) > 0 /\ n.obj = watch[1].obj /\ n.ver = watch[1].ver
        <5>1. 1 \in 1..Len(watch)
          BY <4>3 DEF TypeOK
        <5> QED BY <4>1, <4>2, <4>3, <5>1 DEF Behind, UpSeq
      <4>4. CASE n.ver = world[n.obj]
        BY <4>1, <4>2, <4>4 DEF Behind
      <4> QED BY <1>4, <3>2, <4>1, <4>3, <4>4, AddedNotes
    <3>3. CASE j \in Len(notes) + 1 .. Len(notes') /\ k \in Len(notes) + 1 .. Len(notes')
      <4>1. ~(j = Len(notes) + 1 /\ k = Len(notes) + 1)
        BY <2>5
      <4>2. notes'[j].ver = world[notes'[j].obj] /\ notes'[k].ver = world[notes'[k].obj]
        BY <1>4, <3>3, <4>1, AddedNotes
      <4>3. notes'[j].ver = notes'[k].ver /\ notes'[j].ver \in Versions
        BY <2>3, <2>5, <3>3, <4>2
      <4> QED BY <4>3, UpSame
    <3> QED BY <2>2, <2>5, <3>1, <3>2, <3>3
  <2> QED BY <2>4, <2>5 DEF NotesOrder, UpWithin
<1> QED BY <1>3, <1>4

LEMMA StepJobOrder ==
    ASSUME TypeOK, CurrentInv, NotesOrder, JobOrder, [Next]_vars
    PROVE  JobOrder'
<1>1. ASSUME NEW x \in Versions, NEW p \in Objects, Behind(x, p), UpSeq(x, p, notes)
      PROVE  Behind(x, p)' /\ UpSeq(x, p, notes)'
  BY <1>1, StepBehind, StepNotesAhead
<1>2. ASSUME NEW e, e.ver \in Versions, e.obj \in Objects, Behind(e.ver, e.obj),
             UpSeq(e.ver, e.obj, notes), NEW k \in 1..Len(job'),
             job'[k].ver = e.ver, job'[k].obj = e.obj
      PROVE  (Behind(job[k].ver, job[k].obj) /\ UpSeq(job[k].ver, job[k].obj, notes))'
  <2>1. Behind(e.ver, e.obj)' /\ UpSeq(e.ver, e.obj, notes)'
    BY <1>1, <1>2
  <2> QED BY <1>2, <2>1 DEF Behind, UpSeq
<1>3. ASSUME NEW k \in 1..Len(job)
      PROVE  job[k].ver \in Versions /\ job[k].obj \in Objects
  <2>1. job[k] \in Publication
    BY DEF TypeOK
  <2> QED BY <2>1 DEF Publication
<1>4. CASE Handle
  <2>1. ASSUME NEW k \in 1..Len(job')
        PROVE  (Behind(job[k].ver, job[k].obj) /\ UpSeq(job[k].ver, job[k].obj, notes))'
    <3>1. PICK e : e.ver = notes[1].ver /\ e.obj = notes[1].obj
      OBVIOUS
    <3>2. job'[k].obj = e.obj /\ job'[k].ver = e.ver /\ e.obj \in Objects /\ e.ver \in Versions
      BY <1>4, <2>1, <3>1, HandleEvents
    <3>3. 1 \in 1..Len(notes)
      BY <1>4, HandleJob
    <3>4. Behind(e.ver, e.obj)
      BY <3>1, <3>3 DEF NotesOrder
    <3>5. ASSUME NEW m \in 1..Len(notes), notes[m].obj = e.obj PROVE Up(e.ver, notes[m].ver)
      <4>1. CASE m = 1
        BY <3>1, <3>2, <4>1, UpSame
      <4>2. CASE m # 1
        <5>1. 1 < m
          BY <4>2
        <5> QED BY <3>1, <3>3, <3>5, <5>1 DEF NotesOrder, UpWithin
      <4> QED BY <4>1, <4>2
    <3>6. UpSeq(e.ver, e.obj, notes)
      BY <3>5 DEF UpSeq
    <3> QED BY <1>2, <3>2, <3>4, <3>6
  <2> QED BY <2>1 DEF JobOrder
<1>5. CASE PublishOne
  <2>1. \A k \in 1..Len(job') : k + 1 \in 1..Len(job) /\ job'[k] = job[k + 1]
    BY <1>5, PublishJob
  <2>2. ASSUME NEW k \in 1..Len(job')
        PROVE  (Behind(job[k].ver, job[k].obj) /\ UpSeq(job[k].ver, job[k].obj, notes))'
    <3>1. PICK e : e = job[k + 1]
      OBVIOUS
    <3>2. e.ver \in Versions /\ e.obj \in Objects /\ Behind(e.ver, e.obj)
          /\ UpSeq(e.ver, e.obj, notes) /\ job'[k] = e
      BY <1>3, <2>1, <3>1 DEF JobOrder
    <3> QED BY <1>2, <3>2
  <2> QED BY <2>2 DEF JobOrder
<1>6. CASE UNCHANGED job
  <2>1. ASSUME NEW k \in 1..Len(job')
        PROVE  (Behind(job[k].ver, job[k].obj) /\ UpSeq(job[k].ver, job[k].obj, notes))'
    <3>1. PICK e : e = job[k]
      OBVIOUS
    <3>2. e.ver \in Versions /\ e.obj \in Objects /\ Behind(e.ver, e.obj)
          /\ UpSeq(e.ver, e.obj, notes) /\ job'[k] = e
      BY <1>3, <1>6, <3>1 DEF JobOrder
    <3> QED BY <1>2, <3>2
  <2> QED BY <2>1 DEF JobOrder
<1> QED BY <1>4, <1>5, <1>6
    DEF Next, ServerStep, InformerStep, HandlerStep, StreamStep, Write, Delete, ChangeTo,
        ReadWatch, Break, Relist, DropOldest, Receive, vars, handlerVars

LEMMA StepShownOrder ==
    ASSUME TypeOK, JobInv, CurrentInv, JobOrder, ShownOrder, [Next]_vars
    PROVE  ShownOrder'
<1>1. ASSUME NEW t \in Topics, NEW o \in Objects
      PROVE  (Behind(shown[t][o], o) /\ UpSeq(shown[t][o], o, notes)
              /\ UpSeq(shown[t][o], o, job))'
  <2>1. PICK x : x = shown'[t][o]
    OBVIOUS
  <2>2. /\ x \in Versions
        /\ Behind(x, o) /\ UpSeq(x, o, notes) /\ UpSeq(x, o, job)'
    <3>1. CASE x = shown[t][o]
      <4>1. x \in Versions /\ Behind(x, o) /\ UpSeq(x, o, notes) /\ UpSeq(x, o, job)
        BY <3>1 DEF TypeOK, ShownOrder
      <4> QED BY <4>1, StepJobAhead
    <3>2. CASE PublishOne /\ x # shown[t][o]
      <4>1. PICK e : e = job[1]
        OBVIOUS
      <4>2. o = e.obj /\ x = e.ver
        BY <2>1, <3>2, <4>1, PublishJob
      <4>3. 1 \in 1..Len(job) /\ e.ver \in Versions
        BY <3>2, <4>1, PublishJob DEF Publication
      <4>4. Behind(x, o) /\ UpSeq(x, o, notes)
        BY <4>1, <4>2, <4>3 DEF JobOrder
      <4>5. ASSUME NEW k \in 1..Len(job') PROVE job'[k].ver = x
        <5>1. k = 1 /\ Len(job) = 2 /\ job'[k] = job[2] /\ job[2].ver = job[1].ver
          BY <3>2, JobHead
        <5> QED BY <4>1, <4>2, <5>1
      <4>6. UpSeq(x, o, job)'
        BY <4>2, <4>3, <4>5, UpSame DEF UpSeq
      <4> QED BY <4>2, <4>3, <4>4, <4>6
    <3>3. CASE UNCHANGED shown
      BY <2>1, <3>1, <3>3
    <3> QED BY <3>1, <3>2, <3>3
      DEF Next, ServerStep, InformerStep, HandlerStep, StreamStep, Write, Delete, ChangeTo,
          ReadWatch, Break, Relist, Handle, DropOldest, Receive, vars, handlerVars
  <2>3. Behind(x, o)' /\ UpSeq(x, o, notes)'
    BY <2>2, StepBehind, StepNotesAhead
  <2> QED BY <2>1, <2>2, <2>3 DEF Behind, UpSeq
<1> QED BY <1>1 DEF ShownOrder

\* However the watch is lost and listed again, and whatever is deleted and created anew,
\* no topic gives a reader an older version of an object after a newer one.
THEOREM NeverBack == Spec => NeverBackwards
<1>1. Init => PublishInv /\ OrderInv
  <2> SUFFICES ASSUME Init PROVE PublishInv /\ OrderInv
    OBVIOUS
  <2>1. \A o \in Objects : world[o] = 0 /\ \A t \in Topics : shown[t][o] = 0
    BY DEF Init
  <2>2. version = 0 /\ Len(watch) = 0 /\ Len(notes) = 0 /\ Len(job) = 0
    BY DEF Init
  <2>3. OrderInv
    BY <2>1, <2>2 DEF OrderInv, WatchOrder, NotesOrder, JobOrder, ShownOrder, UpWithin,
        Behind, UpSeq, Up
  <2> QED BY <2>3, InitPublishInv
<1>2. PublishInv /\ OrderInv /\ [Next]_vars => (PublishInv /\ OrderInv)'
  <2> SUFFICES ASSUME PublishInv, OrderInv, [Next]_vars PROVE PublishInv' /\ OrderInv'
    OBVIOUS
  <2>1. PublishInv'
    BY StepPublishInv
  <2>2. TypeOK /\ JobInv /\ CurrentInv /\ WatchOrder /\ NotesOrder /\ JobOrder /\ ShownOrder
    BY DEF PublishInv, OrderInv
  <2>3. WatchOrder' /\ NotesOrder'
    BY <2>2, StepWatchOrder, StepNotesOrder
  <2>4. JobOrder' /\ ShownOrder'
    BY <2>2, StepJobOrder, StepShownOrder
  <2> QED BY <2>1, <2>3, <2>4 DEF OrderInv
<1>3. PublishInv /\ OrderInv /\ [Next]_vars =>
        [\A t \in Topics, o \in Objects :
            shown'[t][o] # 0 => shown'[t][o] >= shown[t][o]]_vars
  <2> SUFFICES ASSUME PublishInv, OrderInv, Next, NEW t \in Topics, NEW o \in Objects,
                      shown'[t][o] # 0
               PROVE  shown'[t][o] >= shown[t][o]
    OBVIOUS
  <2>1. TypeOK
    BY DEF PublishInv
  <2>2. shown[t][o] \in Nat
    BY <2>1 DEF TypeOK, Versions
  <2>3. CASE shown'[t][o] = shown[t][o]
    BY <2>2, <2>3
  <2>4. CASE PublishOne /\ shown'[t][o] # shown[t][o]
    <3>1. 1 \in 1..Len(job) /\ o = job[1].obj /\ shown'[t][o] = job[1].ver
          /\ job[1] \in Publication
      BY <2>1, <2>4, PublishJob
    <3>2. job[1].ver \in Nat
      BY <3>1 DEF Publication, Versions
    <3>3. shown[t][o] <= job[1].ver
      BY <3>1 DEF OrderInv, ShownOrder, UpSeq, Up
    <3> QED BY <2>2, <3>1, <3>2, <3>3
  <2>5. CASE UNCHANGED shown
    BY <2>3, <2>5
  <2> QED BY <2>3, <2>4, <2>5
    DEF Next, ServerStep, InformerStep, HandlerStep, StreamStep, Write, Delete, ChangeTo,
        ReadWatch, Break, Relist, Handle, DropOldest, Receive, handlerVars
<1> QED BY <1>1, <1>2, <1>3, PTL DEF Spec, NeverBackwards

-----------------------------------------------------------------------------
(* The stream                                                               *)

\* The event published last is the newest in the channel, or waits to get into it.
LEMMA PublishStream ==
    ASSUME TypeOK, JobInv, StreamInv, PublishOne
    PROVE  StreamInv'
<1>1. PICK e : e = job[1]
  OBVIOUS
<1>2. /\ e.obj \in Objects /\ e.topic \in TopicsOf(e.obj) /\ e.topic \in Topics
      /\ e \in Publication
  BY <1>1, JobHead, PublishJob
<1>3. /\ sending = <<>> /\ UNCHANGED <<heard, view>>
      /\ IF e.topic = heard THEN Offer(e) /\ last' = {e.obj}
         ELSE UNCHANGED <<channel, sending, last>>
  BY <1>1, PublishJob DEF PublishOne
<1>4. CASE e.topic = heard
  <2>1. shown'[heard][e.obj] = e.ver
    BY <1>1, <1>2, <1>4, PublishJob
  <2>2. CASE channel' = Append(channel, e) /\ UNCHANGED sending
    <3>1. channel \in Seq(Publication)
      BY DEF TypeOK
    <3>2. channel' # <<>> /\ channel'[Len(channel')] = e
      BY <1>2, <2>2, <3>1
    <3> QED BY <1>2, <1>3, <1>4, <2>1, <2>2, <3>2 DEF StreamInv
  <2>3. CASE sending' = <<e>>
    <3>1. sending' # <<>> /\ sending'[1] = e
      BY <2>3
    <3> QED BY <1>2, <1>3, <1>4, <2>1, <3>1 DEF StreamInv
  <2> QED BY <1>3, <1>4, <2>2, <2>3 DEF Offer
<1>5. CASE e.topic # heard
  <2>1. \A o \in last : shown'[heard][o] = shown[heard][o]
    BY <1>1, <1>5, PublishJob DEF TypeOK
  <2> QED BY <1>3, <1>5, <2>1 DEF StreamInv
<1> QED BY <1>4, <1>5

\* Making room takes the oldest event, never the one to be sent.
LEMMA DropStream ==
    ASSUME TypeOK, StreamInv, DropOldest
    PROVE  StreamInv'
<1>1. PICK e : e = sending[1]
  OBVIOUS
<1>2. sending \in Seq(Publication) /\ sending # <<>> /\ channel \in Seq(Publication)
      /\ Len(sending) \in Nat \ {0}
  BY DEF TypeOK, DropOldest
<1>3. Len(sending) = 1
  <2>1. Len(sending) <= 1 /\ \A n \in Nat \ {0} : n <= 1 => n = 1
    BY DEF TypeOK
  <2> QED BY <1>2, <2>1, Zenon
<1>4. PICK rest \in Seq(Publication) : channel' = rest \o sending
  <2>1. <<>> \in Seq(Publication)
    OBVIOUS
  <2>2. channel # <<>> => Tail(channel) \in Seq(Publication)
    BY <1>2
  <2> QED BY <2>1, <2>2 DEF DropOldest
<1>5. Len(rest) \in Nat /\ Len(rest \o sending) = Len(rest) + Len(sending)
      /\ (rest \o sending)[Len(rest) + 1] = e
  <2>1. Len(rest) \in Nat /\ 1 \in 1..Len(sending)
    BY <1>2, <1>3
  <2>2. Len(rest \o sending) = Len(rest) + Len(sending)
    BY <1>2, <2>1
  <2>3. (rest \o sending)[Len(rest) + 1] = sending[1]
    BY <1>2, <1>3, <2>1
  <2> QED BY <1>1, <2>1, <2>2, <2>3
<1>6. channel' # <<>> /\ channel'[Len(channel')] = e
  <2>1. Len(channel') = Len(rest) + 1 /\ channel'[Len(rest) + 1] = e
    BY <1>3, <1>4, <1>5
  <2>2. Len(channel') # 0
    BY <1>5, <2>1
  <2> QED BY <2>1, <2>2
<1>7. sending' = <<>> /\ UNCHANGED <<shown, heard, view, last>>
  BY DEF DropOldest
<1> QED BY <1>1, <1>2, <1>6, <1>7 DEF StreamInv

LEMMA ReceiveStream ==
    ASSUME TypeOK, StreamInv, Receive
    PROVE  StreamInv'
<1>1. UNCHANGED <<shown, heard, sending, last>>
  BY DEF Receive
<1>2. PICK e : e = Head(channel)
  OBVIOUS
<1>3. channel \in Seq(Publication) /\ channel # <<>> /\ channel' = Tail(channel)
      /\ view' = [view EXCEPT ![e.obj] = e.ver] /\ view \in [Objects -> Versions]
  BY <1>2 DEF TypeOK, Receive
<1>4. Len(channel) \in Nat \ {0} /\ Len(channel') = Len(channel) - 1 /\ e = channel[1]
      /\ \A i \in 1..Len(channel) - 1 : channel'[i] = channel[i + 1]
  BY <1>2, <1>3
<1>5. CASE Len(channel) = 1
  <2>1. channel' = <<>>
    BY <1>3, <1>4, <1>5
  <2>2. ASSUME NEW o \in last, sending = <<>> PROVE view'[o] = shown[heard][o]
    <3>1. o = e.obj /\ e.ver = shown[heard][o] /\ o \in Objects
      BY <1>3, <1>4, <1>5, <2>2 DEF StreamInv, TypeOK
    <3> QED BY <1>3, <3>1
  <2> QED BY <1>1, <2>1, <2>2 DEF StreamInv, TopicsOf
<1>6. CASE Len(channel) # 1
  <2>1. Len(channel) - 1 \in 1..Len(channel) - 1 /\ (Len(channel) - 1) + 1 = Len(channel)
    BY <1>4, <1>6
  <2>2. channel'[Len(channel')] = channel[Len(channel)]
    BY <1>4, <2>1
  <2>3. channel' # <<>>
    BY <1>4, <2>1
  <2> QED BY <1>1, <1>3, <2>2, <2>3 DEF StreamInv, TopicsOf
<1> QED BY <1>5, <1>6

LEMMA StepStream ==
    ASSUME TypeOK, JobInv, StreamInv, [Next]_vars
    PROVE  StreamInv'
<1>1. CASE PublishOne
  BY <1>1, PublishStream
<1>2. CASE DropOldest
  BY <1>2, DropStream
<1>3. CASE Receive
  BY <1>3, ReceiveStream
<1>4. CASE UNCHANGED <<shown, streamVars>>
  BY <1>4 DEF StreamInv, TopicsOf, streamVars
<1> QED BY <1>1, <1>2, <1>3, <1>4
    DEF Next, ServerStep, InformerStep, HandlerStep, StreamStep, Write, Delete, ChangeTo,
        ReadWatch, Break, Relist, Handle, vars, handlerVars

\* The badge is green for the phases that are known to be healthy, and for no other.
LEMMA GreenBadge ==
    ASSUME NEW o, NEW v \in 1..MaxVersion
    PROVE  PageBadge(o, v) = "badge-green" <=> PhaseOf[v] \in {Healthy, NoPhase}
<1>1. PICK p : p = PhaseOf[v]
  OBVIOUS
<1>2. v # 0
  BY WatcherAssumption
<1>3. toSummary(o, v).status = MapPhaseToStatus(p)
  BY <1>1 DEF toSummary
<1>4. MapPhaseToStatus(p) \in {"HEALTHY", "TRANSIENT", "FAULT"}
      /\ (MapPhaseToStatus(p) = "HEALTHY" <=> p \in {Healthy, NoPhase})
  <2>1. p \in {Healthy, NoPhase} => p \notin Transient
    BY WatcherAssumption
  <2>2. CASE p \in {Healthy, NoPhase}
    BY <2>1, <2>2 DEF MapPhaseToStatus
  <2>3. CASE p \notin {Healthy, NoPhase}
    BY <2>3 DEF MapPhaseToStatus
  <2> QED BY <2>2, <2>3
<1>5. PageBadge(o, v) = StatusBadgeClass(MapPhaseToStatus(p))
  BY <1>2, <1>3 DEF PageBadge
<1> QED BY <1>1, <1>4, <1>5 DEF StatusBadgeClass

LEMMA DrainedIsCurrent == PublishInv /\ StreamInv => LatestObjectIsCurrent
<1> SUFFICES ASSUME PublishInv, StreamInv, Drained, NEW o \in last, world[o] # 0
             PROVE  /\ view[o] # 0
                    /\ buildPayload(o, view[o]) = toSummary(o, world[o])
                    /\ PageBadge(o, world[o]) = "badge-green"
                       <=> PhaseOf[world[o]] \in {Healthy, NoPhase}
  BY DEF LatestObjectIsCurrent
<1>1. TypeOK /\ o \in Objects /\ heard \in TopicsOf(o)
  BY DEF PublishInv, TypeOK, StreamInv
<1>2. Len(watch) = 0 /\ Len(notes) = 0 /\ Len(job) = 0 /\ ~broken
  BY DEF Drained, Quiet
<1>3. cache[o] = world[o]
  BY <1>1, <1>2 DEF PublishInv, CurrentInv, WatchCurrent, Stores, LatestIs
<1>4. shown[heard][o] = cache[o]
  <2>1. Shows(heard, Len(notes), o, cache[o])
    BY <1>1, <1>3 DEF PublishInv, CurrentInv, StoreShown
  <2> QED BY <1>2, <2>1 DEF Shows, LatestIs, DoneIs
<1>5. view[o] = world[o]
  BY <1>3, <1>4 DEF StreamInv, Drained
<1>6. world[o] \in 1..MaxVersion
  BY <1>1, WatcherAssumption DEF TypeOK, Versions
<1> QED BY <1>5, <1>6, GreenBadge DEF buildPayload, toSummary

\* However small its channel and however many events were dropped from it, a reader that
\* has read everything was told what the API answers of the object its topic spoke of
\* last.
THEOREM LatestCurrent == Spec => []LatestObjectIsCurrent
<1>1. Init => PublishInv /\ StreamInv
  <2>1. Init => StreamInv
    BY DEF Init, StreamInv
  <2> QED BY <2>1, InitPublishInv
<1>2. PublishInv /\ StreamInv /\ [Next]_vars => (PublishInv /\ StreamInv)'
  BY StepPublishInv, StepStream DEF PublishInv
<1> QED BY <1>1, <1>2, DrainedIsCurrent, PTL DEF Spec

=============================================================================
