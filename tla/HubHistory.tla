----------------------------- MODULE HubHistory -----------------------------
(***************************************************************************)
(* Hub with history variables.  A publication's payload is its position in *)
(* the order in which publications entered the publish channel, so that an *)
(* event names the publication it came from.  The history variables only   *)
(* record: they put no guard on a step of the hub, except that TLC's bound *)
(* on the number of publications (the set Events) stops new Publish calls. *)
(***************************************************************************)
EXTENDS Hub, FiniteSets

VARIABLES
    log,      \* topic of every message that entered the publish channel
    received, \* per stream: the events its goroutine took from the channel
    since,    \* per stream: Len(log) when its Subscribe returned
    dropped   \* per stream: the events deliverDropOldest discarded

history == <<log, received, since, dropped>>
hvars == <<vars, history>>

ASSUME EventAssumption == Events \subseteq Nat

HInit ==
    /\ Init
    /\ log = <<>>
    /\ received = [s \in Streams |-> <<>>]
    /\ since = [s \in Streams |-> 0]
    /\ dropped = [s \in Streams |-> {}]

\* Bound: a call starts only if its publication will find a number in Events.
MayPublish ==
    Len(log) + Cardinality({p \in Publishers : call[p] # None}) + 1 \in Events

HCallPublish(p, t) ==
    /\ MayPublish
    /\ CallPublish(p, t)
    /\ UNCHANGED history

HSendPublish(p) ==
    /\ Len(log) + 1 \in Events
    /\ SendPublish(p, Len(log) + 1)
    /\ log' = Append(log, call[p])
    /\ UNCHANGED <<received, since, dropped>>

HCallSubscribe(s, t) ==
    /\ CallSubscribe(s, t)
    /\ received' = [received EXCEPT ![s] = <<>>]
    /\ since' = [since EXCEPT ![s] = 0]
    /\ dropped' = [dropped EXCEPT ![s] = {}]
    /\ UNCHANGED log

HSubscribeReturns(s) ==
    /\ SubscribeReturns(s)
    /\ since' = [since EXCEPT ![s] = Len(log)]
    /\ UNCHANGED <<log, received, dropped>>

HReceive(s) ==
    /\ Receive(s)
    /\ received' = [received EXCEPT ![s] = Append(@, Head(buffer[s]))]
    /\ UNCHANGED <<log, since, dropped>>

HDropOldest ==
    /\ DropOldest
    /\ dropped' = IF buffer[cur] = <<>> THEN dropped
                  ELSE [dropped EXCEPT ![cur] = @ \cup {Head(buffer[cur])}]
    /\ UNCHANGED <<log, received, since>>

HOther ==
    /\ \/ \E s \in Streams :
            \/ SendSubscribe(s)
            \/ ClientGone(s)
            \/ SendUnsubscribe(s)
            \/ UnsubscribeReturns(s)
            \/ Deliver(s)
            \/ FindFull(s)
       \/ RunSubscribe
       \/ RunUnsubscribe
       \/ RunPublish
       \/ DeliverAgain
    /\ UNCHANGED history

HNextUp ==
    \/ \E p \in Publishers :
        \/ \E t \in Topics : HCallPublish(p, t)
        \/ HSendPublish(p)
    \/ \E s \in Streams :
        \/ \E t \in Topics : HCallSubscribe(s, t)
        \/ HSubscribeReturns(s)
        \/ HReceive(s)
    \/ HDropOldest
    \/ HOther

\* The program serving requests, and with the hub's shutdown.
HNext == HNextUp \/ ((Cancel \/ RunStops) /\ UNCHANGED history)

HSpec == HInit /\ [][HNext]_hvars

\* While the hub runs: its own fairness, and streams that go on reading: what a reader is
\* owed it can only get by reading.
HFairSpec == HInit /\ [][HNextUp]_hvars
             /\ Fairness /\ \A s \in Streams : WF_vars(Receive(s))

-----------------------------------------------------------------------------
(* Safety *)

\* What the stream has read and what it can still read.
Delivered(s) == received[s] \o buffer[s]

\* Where an event published after Subscribe returned may be: on its way, in
\* the stream's channel, read, or discarded by the drop-oldest strategy.
OnItsWay(s, i) ==
    \/ \E k \in 1..Len(publishQ) : publishQ[k].event = i
    \/ msg.event = i /\ s \in targets
Whereabouts(s, i) ==
    OnItsWay(s, i) \/ InSeq(i, Delivered(s)) \/ i \in dropped[s]

\* "Any subsequent Publish call will reach this subscriber" (hub.go:107): no
\* event of its topic is lost between the publish channel and the stream,
\* except for those discarded to make room for a newer one.
NothingLostSilently ==
    \A s \in Streams : pc[s] = "streaming" =>
        \A i \in since[s] + 1 .. Len(log) : log[i] = topicOf[s] => Whereabouts(s, i)

\* A discarded event is older than everything its channel still holds.
DropsOldestFirst ==
    \A s \in Streams : \A d \in dropped[s], k \in 1..Len(buffer[s]) : d < buffer[s][k]

\* The newest event of the topic is never the one that is discarded: a stream
\* that reads on ends up with the last state published.
NewestIsKept ==
    \A s \in Streams : pc[s] = "streaming" =>
        \A i \in since[s] + 1 .. Len(log) :
            /\ log[i] = topicOf[s]
            /\ \A j \in i + 1 .. Len(log) : log[j] # topicOf[s]
            => OnItsWay(s, i) \/ InSeq(i, Delivered(s))

-----------------------------------------------------------------------------
(* The hub implements the feed: a stream is open while its goroutine is in *)
(* its loop.                                                               *)

Open(s) == pc[s] = "streaming"

F == INSTANCE Feed WITH
        Readers <- Streams,
        topic <- [s \in Streams |-> IF Open(s) THEN topicOf[s] ELSE None],
        from <- [s \in Streams |-> IF Open(s) THEN since[s] ELSE 0],
        seen <- [s \in Streams |-> IF Open(s) THEN received[s] ELSE <<>>]

FeedSpec == F!Spec

\* With readers that read on, what was published after Subscribe returned is
\* seen, or something newer of the topic is (while the hub runs).
FeedFresh == F!Fresh(Events)

=============================================================================
