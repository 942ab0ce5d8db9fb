------------------------------ MODULE Watcher ------------------------------
(***************************************************************************)
(* From the Cluster objects of the API server to the hub's topics: the     *)
(* informer that main.go starts (client-go, external: modelled from the    *)
(* callbacks it makes), and the handlers of internal/hub/watcher.go that   *)
(* publish each change to "clusters" and then to "cluster/<name>".         *)
(*                                                                         *)
(* An object's state is its resource version; 0 means it does not exist.   *)
(* Its phase, as its operator reports it, goes with the version.           *)
(* The hub is represented by the feed it promises (module Feed), the       *)
(* publications of a topic in order, and by one stream that reads one of   *)
(* the topics from the start, at its own pace, through its channel.  The   *)
(* hub's publish channel is left out: it only delays.                      *)
(***************************************************************************)
EXTENDS Naturals, Sequences, SequencesExt

CONSTANTS
    Namespaces,
    Names,
    K8sNamespace, \* cfg.K8sNamespace
    Clusters,     \* the broadcast topic "clusters"
    Transient,    \* transientPhases: the phases of a temporary operation
    Fault,        \* faultPhases: the phases of an error
    Healthy,      \* PhaseHealthy
    NoPhase,      \* "", the phase of a cluster that no operator has seen yet
    PhaseOf,      \* the phase of each version
    BufCap,       \* capacity of the stream's channel (64 in the code)
    MaxVersion,   \* bound: changes made to the objects
    MaxBreaks     \* bound: times the informer's watch breaks

ASSUME WatcherAssumption ==
    /\ IsFiniteSet(Namespaces) /\ IsFiniteSet(Names)
    /\ K8sNamespace \in Namespaces
    /\ Clusters \notin Names
    /\ {Healthy, NoPhase} \cap (Transient \cup Fault) = {}
    /\ Transient \cap Fault = {}
    /\ BufCap \in Nat \ {0}
    /\ MaxVersion \in Nat
    /\ DOMAIN PhaseOf = 1..MaxVersion
    /\ MaxBreaks \in Nat

Objects == Namespaces \X Names

\* Mutant: the topic is named by the namespace.
SpecificByNamespace(o) == o[1]

\* "cluster/<name>": the topic is named by the name alone.
Specific(o) == o[2]
Topics == {Clusters} \cup Names

-----------------------------------------------------------------------------
(* What clients are told of an object *)

\* Mutant: what is not known to be a fault is none.
MapPhaseToStatusOptimistic(phase) ==
    CASE phase \in Transient -> "TRANSIENT"
      [] phase \in Fault -> "FAULT"
      [] OTHER -> "HEALTHY"

\* An unknown phase, of a newer operator, is a fault.
MapPhaseToStatus(phase) ==
    CASE phase \in {NoPhase, Healthy} -> "HEALTHY"
      [] phase \in Transient -> "TRANSIENT"
      [] OTHER -> "FAULT"

StatusBadgeClass(status) ==
    CASE status = "HEALTHY" -> "badge-green"
      [] status = "TRANSIENT" -> "badge-yellow"
      [] status = "FAULT" -> "badge-red"
      [] status = "HIBERNATED" -> "badge-blue"
      [] OTHER -> "badge-gray"

\* The payload of an event for version v of o ...
buildPayload(o, v) ==
    [name |-> o[2], namespace |-> o[1], status |-> MapPhaseToStatus(PhaseOf[v]),
     phase |-> PhaseOf[v], version |-> v]

\* ... and what List and Get answer when the API server has that version.
toSummary(o, v) ==
    [name |-> o[2], namespace |-> o[1], status |-> MapPhaseToStatus(PhaseOf[v]),
     phase |-> PhaseOf[v], version |-> v]

\* The badge of the page of a cluster whose read found version v, 0 if it failed.
PageBadge(o, v) ==
    StatusBadgeClass(IF v = 0 THEN "HEALTHY" ELSE toSummary(o, v).status)

VARIABLES
    world,    \* the objects, at the API server
    version,  \* the latest resource version
    watch,    \* changes the server has sent and the informer not yet read
    broken,   \* the informer's watch is lost: it must list again
    breaks,   \* how often it was lost
    cache,    \* the informer's store
    notes,    \* callbacks the informer has yet to make, in order
    job,      \* the publications the running callback has yet to make
    shown,    \* per topic: the state its events give each object
    kinds,    \* per topic and object: the type of the last event
    heard,    \* the topic of the stream
    channel,  \* the stream's channel
    sending,  \* the event for which Run has found the channel full, if any
    view,     \* what the stream has told its client of each object
    last      \* history: the object of the topic's last event, if any

informerVars == <<watch, broken, breaks, cache, notes>>
streamVars   == <<heard, channel, sending, view, last>>
handlerVars  == <<job, shown, kinds, streamVars>>
vars == <<world, version, informerVars, handlerVars>>

Versions == 0..MaxVersion
Change == [obj : Objects, ver : Versions]
Note == [call : {"OnAdd", "OnUpdate", "OnDelete"}, obj : Objects, ver : Versions,
         tombstone : BOOLEAN]
Kinds == {"none", "cluster.created", "cluster.updated", "cluster.deleted"}
Publication == [topic : Topics, kind : Kinds \ {"none"}, obj : Objects, ver : Versions]

TypeOK ==
    /\ world \in [Objects -> Versions]
    /\ version \in Versions
    /\ watch \in Seq(Change)
    /\ broken \in BOOLEAN
    /\ breaks \in 0..MaxBreaks
    /\ cache \in [Objects -> Versions]
    /\ notes \in Seq(Note)
    /\ job \in Seq(Publication)
    /\ shown \in [Topics -> [Objects -> Versions]]
    /\ kinds \in [Topics -> [Objects -> Kinds]]
    /\ heard \in Topics
    /\ channel \in Seq(Publication) /\ Len(channel) <= BufCap
    /\ sending \in Seq(Publication) /\ Len(sending) <= 1
    /\ view \in [Objects -> Versions]
    /\ last \in SUBSET Objects

\* main.go registers the handlers before it starts the informer, which then
\* lists: the initial list is the first relist.
Init ==
    /\ world = [o \in Objects |-> 0]
    /\ version = 0
    /\ watch = <<>>
    /\ broken = TRUE
    /\ breaks = 0
    /\ cache = [o \in Objects |-> 0]
    /\ notes = <<>>
    /\ job = <<>>
    /\ shown = [t \in Topics |-> [o \in Objects |-> 0]]
    /\ kinds = [t \in Topics |-> [o \in Objects |-> "none"]]
    /\ heard \in Topics
    /\ channel = <<>>
    /\ sending = <<>>
    /\ view = [o \in Objects |-> 0]
    /\ last = {}

-----------------------------------------------------------------------------
(* The API server *)

\* A Cluster is created or updated (by anyone), or deleted.
ChangeTo(o, v) ==
    /\ version < MaxVersion
    /\ version' = version + 1
    /\ world' = [world EXCEPT ![o] = v]
    /\ watch' = IF broken THEN watch ELSE Append(watch, [obj |-> o, ver |-> v])
    /\ UNCHANGED <<broken, breaks, cache, notes, handlerVars>>

Write(o)  == ChangeTo(o, version + 1)
Delete(o) == world[o] # 0 /\ ChangeTo(o, 0)

-----------------------------------------------------------------------------
(* The informer *)

\* The callback for a change from old to new.  A tombstone
\* (DeletedFinalStateUnknown) is passed for a deletion that was not seen.
Callback(o, old, new, unseen) ==
    [call |-> IF new = 0 THEN "OnDelete" ELSE IF old = 0 THEN "OnAdd" ELSE "OnUpdate",
     obj |-> o,
     ver |-> new,
     tombstone |-> new = 0 /\ unseen]

ReadWatch ==
    /\ ~broken
    /\ watch # <<>>
    /\ LET c == Head(watch)
       IN  /\ cache' = [cache EXCEPT ![c.obj] = c.ver]
           /\ notes' = Append(notes, Callback(c.obj, cache[c.obj], c.ver, FALSE))
    /\ watch' = Tail(watch)
    /\ UNCHANGED <<world, version, broken, breaks, handlerVars>>

Break ==
    /\ ~broken
    /\ breaks < MaxBreaks
    /\ broken' = TRUE
    /\ breaks' = breaks + 1
    /\ watch' = <<>>
    /\ UNCHANGED <<world, version, cache, notes, handlerVars>>

\* List replaces the store.  Objects that changed, or appeared or went away
\* unseen, are reported in any order; those that did not change may be, too.
Relist ==
    /\ broken
    /\ broken' = FALSE
    /\ cache' = world
    /\ \E same \in BOOLEAN :
        LET changed == {o \in Objects : cache[o] # world[o] \/ (same /\ world[o] # 0)}
        IN  \E order \in SetToSeqs(changed) :
                notes' = notes \o [i \in 1..Len(order) |->
                    Callback(order[i], cache[order[i]], world[order[i]], TRUE)]
    /\ UNCHANGED <<world, version, watch, breaks, handlerVars>>

-----------------------------------------------------------------------------
(* The handlers.  One goroutine makes the callbacks, one after the other.  *)

\* Mutant: the types of creation and update are mixed up.
KindOfSwapped(call) ==
    CASE call = "OnAdd"    -> "cluster.updated"
      [] call = "OnUpdate" -> "cluster.created"
      [] call = "OnDelete" -> "cluster.deleted"

KindOf(call) ==
    CASE call = "OnAdd"    -> "cluster.created"
      [] call = "OnUpdate" -> "cluster.updated"
      [] call = "OnDelete" -> "cluster.deleted"

\* Mutant: OnUpdate returns without publishing.
HandleSkipsUpdates ==
    /\ job = <<>>
    /\ notes # <<>>
    /\ LET n == Head(notes)
           event == [topic |-> Clusters, kind |-> KindOf(n.call), obj |-> n.obj, ver |-> n.ver]
       IN  job' = IF n.tombstone \/ n.call = "OnUpdate" THEN <<>>
                  ELSE <<event, [event EXCEPT !.topic = Specific(n.obj)]>>
    /\ notes' = Tail(notes)
    /\ UNCHANGED <<world, version, watch, broken, breaks, cache, shown, kinds, streamVars>>

\* Mutant: each callback publishes in a goroutine of its own.
HandleInGoroutine ==
    /\ notes # <<>>
    /\ LET n == Head(notes)
           event == [topic |-> Clusters, kind |-> KindOf(n.call), obj |-> n.obj, ver |-> n.ver]
       IN  job' = IF n.tombstone THEN job
                  ELSE <<event, [event EXCEPT !.topic = Specific(n.obj)]>> \o job
    /\ notes' = Tail(notes)
    /\ UNCHANGED <<world, version, watch, broken, breaks, cache, shown, kinds, streamVars>>

\* Mutant: the second call of Publish forgets the deletions.
HandleOneTopic ==
    /\ job = <<>>
    /\ notes # <<>>
    /\ LET n == Head(notes)
           event == [topic |-> Clusters, kind |-> KindOf(n.call), obj |-> n.obj, ver |-> n.ver]
       IN  job' = IF n.tombstone THEN <<>>
                  ELSE IF n.call = "OnDelete" THEN <<event>>
                  ELSE <<event, [event EXCEPT !.topic = Specific(n.obj)]>>
    /\ notes' = Tail(notes)
    /\ UNCHANGED <<world, version, watch, broken, breaks, cache, shown, kinds, streamVars>>

\* OnAdd, OnUpdate, OnDelete up to the first Publish: toCluster refuses what is
\* not a Cluster, a tombstone for one, and the callback returns.
Handle ==
    /\ job = <<>>
    /\ notes # <<>>
    /\ LET n == Head(notes)
           event == [topic |-> Clusters, kind |-> KindOf(n.call), obj |-> n.obj, ver |-> n.ver]
       IN  job' = IF n.tombstone THEN <<>>
                  ELSE <<event, [event EXCEPT !.topic = Specific(n.obj)]>>
    /\ notes' = Tail(notes)
    /\ UNCHANGED <<world, version, watch, broken, breaks, cache, shown, kinds, streamVars>>

\* Mutant: an event that finds the channel full is dropped.
OfferDropsNewest(e) ==
    IF Len(channel) < BufCap
    THEN channel' = Append(channel, e) /\ UNCHANGED sending
    ELSE UNCHANGED <<channel, sending>>

\* Run's first send to the stream's channel: it may find it full.
Offer(e) ==
    IF Len(channel) < BufCap
    THEN channel' = Append(channel, e) /\ UNCHANGED sending
    ELSE sending' = <<e>> /\ UNCHANGED channel

\* One call of hub.Publish, and Run's delivery of it.
PublishOne ==
    /\ job # <<>>
    /\ sending = <<>>
    /\ LET e == Head(job)
       IN  /\ shown' = [shown EXCEPT ![e.topic][e.obj] = e.ver]
           /\ kinds' = [kinds EXCEPT ![e.topic][e.obj] = e.kind]
           /\ IF e.topic = heard THEN Offer(e) /\ last' = {e.obj}
              ELSE UNCHANGED <<channel, sending, last>>
    /\ job' = Tail(job)
    /\ UNCHANGED <<world, version, informerVars, heard, view>>

\* Run takes the oldest event out of the channel, which the stream may have drained
\* meanwhile, and sends again.
DropOldest ==
    /\ sending # <<>>
    /\ channel' = (IF channel = <<>> THEN <<>> ELSE Tail(channel)) \o sending
    /\ sending' = <<>>
    /\ UNCHANGED <<world, version, informerVars, job, shown, kinds, heard, view, last>>

\* The stream writes an event to its client.
Receive ==
    /\ channel # <<>>
    /\ view' = [view EXCEPT ![Head(channel).obj] = Head(channel).ver]
    /\ channel' = Tail(channel)
    /\ UNCHANGED <<world, version, informerVars, job, shown, kinds, heard, sending, last>>

ServerStep == \E o \in Objects : Write(o) \/ Delete(o)
InformerStep == ReadWatch \/ Break \/ Relist
HandlerStep == Handle \/ PublishOne
StreamStep == DropOldest \/ Receive

Next == ServerStep \/ InformerStep \/ HandlerStep \/ StreamStep

Spec == Init /\ [][Next]_vars

\* The informer's, the handler's and the hub's goroutines run; nobody has to change
\* an object, no watch has to break and the stream need not read.
FairSpec ==
    Spec /\ WF_vars(ReadWatch) /\ WF_vars(Relist) /\ WF_vars(Handle) /\ WF_vars(PublishOne)
         /\ WF_vars(DropOldest)

-----------------------------------------------------------------------------
(* Safety *)

Quiet == ~broken /\ watch = <<>> /\ notes = <<>> /\ job = <<>>

\* All that was published has been read, or dropped.
Drained == Quiet /\ sending = <<>> /\ channel = <<>>

\* However many events a slow reader missed, the last one published on its topic
\* is not among them (hub.go:131): of that object the events have told it what the
\* API now answers, and its badge is not green if its phase is one that nobody knows
\* (status.go:70).
LatestObjectIsCurrent ==
    Drained => \A o \in last : world[o] # 0 =>
        /\ view[o] # 0
        /\ buildPayload(o, view[o]) = toSummary(o, world[o])
        /\ PageBadge(o, world[o]) = "badge-green" <=> PhaseOf[world[o]] \in {Healthy, NoPhase}

\* The two topics never disagree about an object but while its callback is
\* between its two calls of Publish, and then "clusters" is ahead by that event.
TopicsAgree ==
    \A o \in Objects :
        \/ shown[Specific(o)][o] = shown[Clusters][o]
        \/ /\ Len(job) = 1
           /\ job[1].obj = o /\ job[1].topic = Specific(o)
           /\ job[1].ver = shown[Clusters][o]

\* A topic never takes a reader back to an earlier state of an object.
NeverBackwards ==
    [][\A t \in Topics, o \in Objects :
        shown'[t][o] # 0 => shown'[t][o] >= shown[t][o]]_vars

\* Each update and each deletion that is published is of an object the topic's
\* events have created, and not yet deleted: nothing is deleted twice.
LifecycleOrder ==
    [][Len(job') < Len(job) =>
        LET e == Head(job)
        IN  e.kind \in {"cluster.updated", "cluster.deleted"} =>
                kinds[e.topic][e.obj] \in {"cluster.created", "cluster.updated"}]_vars

-----------------------------------------------------------------------------
(* Liveness *)

\* A state that is not replaced is shown on both topics, in spite of the watches
\* lost meanwhile ("Reconnection is handled by the informer framework",
\* watcher.go:31).
EventuallyShown ==
    \A o \in Objects, v \in 1..MaxVersion :
        world[o] = v ~> \/ world[o] # v
                        \/ shown[Clusters][o] = v /\ shown[Specific(o)][o] = v

-----------------------------------------------------------------------------
(* What the comments say and the code does not do *)

\* "OnDelete is called when a Cluster CR is removed.  It publishes a
\* cluster.deleted event to both topics" (watcher.go:75-76): once everything has
\* been delivered no reader still has an object that is gone.
RemovalIsPublished ==
    Quiet => \A o \in Objects : world[o] = 0 => shown[Clusters][o] = 0

\* Events are all that "browser clients [need] to update their UI state"
\* (watcher.go:14-15): a reader of "clusters" that has read everything has the state
\* of every cluster.  Its channel is shared: the events of one cluster push out the
\* last one of another.
EveryObjectIsCurrent ==
    Drained => \A o \in Objects : heard = Clusters /\ world[o] # 0 => view[o] = world[o]

\* A page without data shows "the cluster name with an unknown status"
\* (ui/handler.go:149): its badge is the one of an unknown status.
UnreadPageIsGray == \A o \in Objects : PageBadge(o, 0) = "badge-gray"

\* "K8sNamespace is the Kubernetes namespace to watch" (config.go:17).
OnlyWatchedNamespace ==
    \A t \in Topics, o \in Objects : kinds[t][o] # "none" => o[1] = K8sNamespace

=============================================================================
