-------------------------------- MODULE Hub --------------------------------
(***************************************************************************)
(* The SSE broker of internal/hub/hub.go: one goroutine (Run) that owns    *)
(* the subscriber table and is reached through three buffered channels,    *)
(* the goroutines that call Publish, and the SSE request goroutines        *)
(* (streamTopic in internal/hub/handler.go) that call Subscribe, read      *)
(* their channel and call Unsubscribe when they return.                    *)
(*                                                                         *)
(* A stream stands for one request goroutine and for the channel Subscribe *)
(* makes for it; when the goroutine has returned, the same stream may      *)
(* serve a later request, with a fresh channel.  Every channel operation   *)
(* is a step of its own, so a reader may drain its channel between any two *)
(* of the hub's non-blocking sends and receives.                           *)
(***************************************************************************)
EXTENDS Naturals, Sequences

CONSTANTS
    Streams,     \* the SSE request goroutines, each with its channel
    Publishers,  \* the goroutines that call Publish
    Topics,      \* "clusters", "cluster/<name>"
    Events,      \* the payloads; the hub never looks at one
    None,        \* no topic, no stream, no event
    BufCap,      \* subscriberBufferCap (64 in the code)
    PubCap,      \* capacity of the publish channel (256)
    SubCap,      \* capacity of the subscribe channel (64)
    UnsubCap     \* capacity of the unsubscribe channel (64)

ASSUME CapAssumption ==
    /\ BufCap \in Nat \ {0}
    /\ PubCap \in Nat \ {0}
    /\ SubCap \in Nat \ {0}
    /\ UnsubCap \in Nat \ {0}

ASSUME NoneAssumption == None \notin Topics \cup Streams \cup Events

VARIABLES
    pc,           \* where each stream's goroutine stands
    topicOf,      \* the topic argument of each stream
    buffer,       \* the stream's channel: chan Event of capacity BufCap
    acked,        \* streams whose pending ack channel the hub has closed
    call,         \* per publisher: the topic of its Publish call, or None
    publishQ,     \* h.publish
    subscribeQ,   \* h.subscribe
    unsubscribeQ, \* h.unsubscribe
    subscribers,  \* h.subscribers: topic -> the registered streams
    hub,          \* where Run stands
    msg,          \* the message Run is delivering
    targets,      \* the subscribers of the snapshot still to be served
    cur,          \* the subscriber whose channel was found full
    ctxDone       \* Run's context is cancelled

streamVars == <<pc, topicOf>>
queueVars  == <<publishQ, subscribeQ, unsubscribeQ>>
runVars    == <<hub, msg, targets, cur>>
vars == <<streamVars, buffer, acked, call, queueVars, subscribers, runVars, ctxDone>>

Message == [topic : Topics, event : Events]
NoMsg   == [topic |-> None, event |-> None]

PCs == {"idle", "subscribing", "subscribeWait", "streaming", "leaving", "leaveWait"}
Phases == {"select", "send", "drop", "resend", "stopped"}

TypeOK ==
    /\ pc \in [Streams -> PCs]
    /\ topicOf \in [Streams -> Topics \cup {None}]
    /\ buffer \in [Streams -> Seq(Events)]
    /\ acked \in SUBSET Streams
    /\ call \in [Publishers -> Topics \cup {None}]
    /\ publishQ \in Seq(Message)
    /\ subscribeQ \in Seq(Streams)
    /\ unsubscribeQ \in Seq(Streams)
    /\ subscribers \in [Topics -> SUBSET Streams]
    /\ hub \in Phases
    /\ msg \in Message \cup {NoMsg}
    /\ targets \in SUBSET Streams
    /\ cur \in Streams \cup {None}
    /\ ctxDone \in BOOLEAN

Init ==
    /\ pc = [s \in Streams |-> "idle"]
    /\ topicOf = [s \in Streams |-> None]
    /\ buffer = [s \in Streams |-> <<>>]
    /\ acked = {}
    /\ call = [p \in Publishers |-> None]
    /\ publishQ = <<>>
    /\ subscribeQ = <<>>
    /\ unsubscribeQ = <<>>
    /\ subscribers = [t \in Topics |-> {}]
    /\ hub = "select"
    /\ msg = NoMsg
    /\ targets = {}
    /\ cur = None
    /\ ctxDone = FALSE

-----------------------------------------------------------------------------
(* Publish: the goroutine is in the call until its message is in the       *)
(* channel.  The payload is picked when the message enters the channel:    *)
(* nothing looks at it before.                                             *)

CallPublish(p, t) ==
    /\ call[p] = None
    /\ call' = [call EXCEPT ![p] = t]
    /\ UNCHANGED <<streamVars, buffer, acked, queueVars, subscribers, runVars, ctxDone>>

\* Mutant: the topic is read after the call has been taken back.
SendPublishStaleTopic(p, e) ==
    /\ call[p] # None
    /\ Len(publishQ) < PubCap
    /\ call' = [call EXCEPT ![p] = None]
    /\ publishQ' = Append(publishQ, [topic |-> call'[p], event |-> e])
    /\ UNCHANGED <<streamVars, buffer, acked, subscribeQ, unsubscribeQ, subscribers,
                   runVars, ctxDone>>

SendPublish(p, e) ==
    /\ call[p] # None
    /\ Len(publishQ) < PubCap
    /\ publishQ' = Append(publishQ, [topic |-> call[p], event |-> e])
    /\ call' = [call EXCEPT ![p] = None]
    /\ UNCHANGED <<streamVars, buffer, acked, subscribeQ, unsubscribeQ, subscribers,
                   runVars, ctxDone>>

-----------------------------------------------------------------------------
(* streamTopic: Subscribe, the select loop over the request context and    *)
(* the channel, and the deferred Unsubscribe.                              *)

CallSubscribe(s, t) ==
    /\ pc[s] = "idle"
    /\ pc' = [pc EXCEPT ![s] = "subscribing"]
    /\ topicOf' = [topicOf EXCEPT ![s] = t]
    /\ buffer' = [buffer EXCEPT ![s] = <<>>]
    /\ UNCHANGED <<acked, call, queueVars, subscribers, runVars, ctxDone>>

\* Mutant: Subscribe does not wait for the hub's acknowledgement.
SendSubscribeNoWait(s) ==
    /\ pc[s] = "subscribing"
    /\ Len(subscribeQ) < SubCap
    /\ subscribeQ' = Append(subscribeQ, s)
    /\ pc' = [pc EXCEPT ![s] = "streaming"]
    /\ UNCHANGED <<topicOf, buffer, acked, call, publishQ, unsubscribeQ, subscribers,
                   runVars, ctxDone>>

SendSubscribe(s) ==
    /\ pc[s] = "subscribing"
    /\ Len(subscribeQ) < SubCap
    /\ subscribeQ' = Append(subscribeQ, s)
    /\ pc' = [pc EXCEPT ![s] = "subscribeWait"]
    /\ UNCHANGED <<topicOf, buffer, acked, call, publishQ, unsubscribeQ, subscribers,
                   runVars, ctxDone>>

SubscribeReturns(s) ==
    /\ pc[s] = "subscribeWait"
    /\ s \in acked
    /\ acked' = acked \ {s}
    /\ pc' = [pc EXCEPT ![s] = "streaming"]
    /\ UNCHANGED <<topicOf, buffer, call, queueVars, subscribers, runVars, ctxDone>>

Receive(s) ==
    /\ pc[s] = "streaming"
    /\ buffer[s] # <<>>
    /\ buffer' = [buffer EXCEPT ![s] = Tail(@)]
    /\ UNCHANGED <<streamVars, acked, call, queueVars, subscribers, runVars, ctxDone>>

\* The request context is done: the client went away, or the HTTP server's 15 s
\* timeouts cut the connection.  Nothing else ends the loop.
ClientGone(s) ==
    /\ pc[s] = "streaming"
    /\ pc' = [pc EXCEPT ![s] = "leaving"]
    /\ UNCHANGED <<topicOf, buffer, acked, call, queueVars, subscribers, runVars, ctxDone>>

\* Mutant: Unsubscribe does not wait for the hub's acknowledgement.
SendUnsubscribeNoWait(s) ==
    /\ pc[s] = "leaving"
    /\ Len(unsubscribeQ) < UnsubCap
    /\ unsubscribeQ' = Append(unsubscribeQ, s)
    /\ pc' = [pc EXCEPT ![s] = "idle"]
    /\ UNCHANGED <<topicOf, buffer, acked, call, publishQ, subscribeQ, subscribers,
                   runVars, ctxDone>>

SendUnsubscribe(s) ==
    /\ pc[s] = "leaving"
    /\ Len(unsubscribeQ) < UnsubCap
    /\ unsubscribeQ' = Append(unsubscribeQ, s)
    /\ pc' = [pc EXCEPT ![s] = "leaveWait"]
    /\ UNCHANGED <<topicOf, buffer, acked, call, publishQ, subscribeQ, subscribers,
                   runVars, ctxDone>>

\* Mutant: Unsubscribe returns whether or not the hub has acknowledged it.
UnsubscribeReturnsEarly(s) ==
    /\ pc[s] = "leaveWait"
    /\ acked' = acked \ {s}
    /\ pc' = [pc EXCEPT ![s] = "idle"]
    /\ UNCHANGED <<topicOf, buffer, call, queueVars, subscribers, runVars, ctxDone>>

UnsubscribeReturns(s) ==
    /\ pc[s] = "leaveWait"
    /\ s \in acked
    /\ acked' = acked \ {s}
    /\ pc' = [pc EXCEPT ![s] = "idle"]
    /\ UNCHANGED <<topicOf, buffer, call, queueVars, subscribers, runVars, ctxDone>>

-----------------------------------------------------------------------------
(* Run: the select over the context and the three channels.  Go picks any  *)
(* ready case, so a cancelled context need not be noticed at once.         *)

RunStops ==
    /\ hub = "select"
    /\ ctxDone
    /\ hub' = "stopped"
    /\ UNCHANGED <<streamVars, buffer, acked, call, queueVars, subscribers,
                   msg, targets, cur, ctxDone>>

\* The table is a set per topic: a channel is registered by one Subscribe
\* call only, and no property tells apart the order of the slice.
RunSubscribe ==
    /\ hub = "select"
    /\ subscribeQ # <<>>
    /\ LET s == Head(subscribeQ)
       IN  /\ subscribers' = [subscribers EXCEPT ![topicOf[s]] = @ \cup {s}]
           /\ acked' = acked \cup {s}
    /\ subscribeQ' = Tail(subscribeQ)
    /\ UNCHANGED <<streamVars, buffer, call, publishQ, unsubscribeQ, runVars, ctxDone>>

\* Mutant: the acknowledgement of an Unsubscribe is forgotten.
RunUnsubscribeNoAck ==
    /\ hub = "select"
    /\ unsubscribeQ # <<>>
    /\ LET s == Head(unsubscribeQ)
       IN  subscribers' = [subscribers EXCEPT ![topicOf[s]] = @ \ {s}]
    /\ unsubscribeQ' = Tail(unsubscribeQ)
    /\ UNCHANGED <<streamVars, buffer, acked, call, publishQ, subscribeQ, runVars, ctxDone>>

RunUnsubscribe ==
    /\ hub = "select"
    /\ unsubscribeQ # <<>>
    /\ LET s == Head(unsubscribeQ)
       IN  /\ subscribers' = [subscribers EXCEPT ![topicOf[s]] = @ \ {s}]
           /\ acked' = acked \cup {s}
    /\ unsubscribeQ' = Tail(unsubscribeQ)
    /\ UNCHANGED <<streamVars, buffer, call, publishQ, subscribeQ, runVars, ctxDone>>

\* Mutant: a message goes to the subscribers of every topic.
RunPublishToAll ==
    /\ hub = "select"
    /\ publishQ # <<>>
    /\ publishQ' = Tail(publishQ)
    /\ LET subs == UNION {subscribers[t] : t \in Topics}
       IN  /\ targets' = subs
           /\ hub' = IF subs = {} THEN "select" ELSE "send"
           /\ msg' = IF subs = {} THEN NoMsg ELSE Head(publishQ)
    /\ UNCHANGED <<streamVars, buffer, acked, call, subscribeQ, unsubscribeQ, subscribers,
                   cur, ctxDone>>

RunPublish ==
    /\ hub = "select"
    /\ publishQ # <<>>
    /\ publishQ' = Tail(publishQ)
    /\ LET m == Head(publishQ)
           subs == subscribers[m.topic]
       IN  /\ targets' = subs
           /\ hub' = IF subs = {} THEN "select" ELSE "send"
           /\ msg' = IF subs = {} THEN NoMsg ELSE m
    /\ UNCHANGED <<streamVars, buffer, acked, call, subscribeQ, unsubscribeQ, subscribers,
                   cur, ctxDone>>

-----------------------------------------------------------------------------
(* deliverDropOldest: three non-blocking selects, one step each.           *)

\* The range loop over the snapshot goes on to its next subscriber, or ends.
Served(s) ==
    /\ targets' = targets \ {s}
    /\ hub' = IF targets = {s} THEN "select" ELSE "send"
    /\ msg' = IF targets = {s} THEN NoMsg ELSE msg
    /\ cur' = None

Deliver(s) ==
    /\ hub = "send"
    /\ s \in targets
    /\ Len(buffer[s]) < BufCap
    /\ buffer' = [buffer EXCEPT ![s] = Append(@, msg.event)]
    /\ Served(s)
    /\ UNCHANGED <<streamVars, acked, call, queueVars, subscribers, ctxDone>>

\* Mutant: the first send is a blocking one.
FindFullBlocks(s) ==
    /\ FALSE
    /\ cur' = s
    /\ UNCHANGED <<streamVars, buffer, acked, call, queueVars, subscribers,
                   hub, msg, targets, ctxDone>>

\* Mutant: drop-newest, a subscriber whose channel is full is skipped.
FindFullSkips(s) ==
    /\ hub = "send"
    /\ s \in targets
    /\ Len(buffer[s]) = BufCap
    /\ Served(s)
    /\ UNCHANGED <<streamVars, buffer, acked, call, queueVars, subscribers, ctxDone>>

FindFull(s) ==
    /\ hub = "send"
    /\ s \in targets
    /\ Len(buffer[s]) = BufCap
    /\ hub' = "drop"
    /\ cur' = s
    /\ UNCHANGED <<streamVars, buffer, acked, call, queueVars, subscribers,
                   msg, targets, ctxDone>>

\* Mutant: nothing is taken out of the channel.
DropNothing ==
    /\ hub = "drop"
    /\ hub' = "resend"
    /\ UNCHANGED <<streamVars, buffer, acked, call, queueVars, subscribers,
                   msg, targets, cur, ctxDone>>

DropOldest ==
    /\ hub = "drop"
    /\ buffer' = IF buffer[cur] = <<>> THEN buffer
                 ELSE [buffer EXCEPT ![cur] = Tail(@)]
    /\ hub' = "resend"
    /\ UNCHANGED <<streamVars, acked, call, queueVars, subscribers,
                   msg, targets, cur, ctxDone>>

\* Mutant: the newest event is not sent once room has been made.
DeliverAgainForgets ==
    /\ hub = "resend"
    /\ buffer' = buffer
    /\ Served(cur)
    /\ UNCHANGED <<streamVars, acked, call, queueVars, subscribers, ctxDone>>

\* Mutant: the newest event is put in front of those that wait.
DeliverAgainFirst ==
    /\ hub = "resend"
    /\ buffer' = IF Len(buffer[cur]) < BufCap
                 THEN [buffer EXCEPT ![cur] = <<msg.event>> \o @]
                 ELSE buffer
    /\ Served(cur)
    /\ UNCHANGED <<streamVars, acked, call, queueVars, subscribers, ctxDone>>

DeliverAgain ==
    /\ hub = "resend"
    /\ buffer' = IF Len(buffer[cur]) < BufCap
                 THEN [buffer EXCEPT ![cur] = Append(@, msg.event)]
                 ELSE buffer
    /\ Served(cur)
    /\ UNCHANGED <<streamVars, acked, call, queueVars, subscribers, ctxDone>>

-----------------------------------------------------------------------------
\* hubCancel() in main.go.
Cancel ==
    /\ ~ctxDone
    /\ ctxDone' = TRUE
    /\ UNCHANGED <<streamVars, buffer, acked, call, queueVars, subscribers, runVars>>

PublisherStep ==
    \E p \in Publishers :
        \/ \E t \in Topics : CallPublish(p, t)
        \/ \E e \in Events : SendPublish(p, e)

\* A stream whose request has come.
StreamGoesOn(s) ==
    \/ SendSubscribe(s)
    \/ SubscribeReturns(s)
    \/ Receive(s)
    \/ ClientGone(s)
    \/ SendUnsubscribe(s)
    \/ UnsubscribeReturns(s)

StreamStep ==
    \E s \in Streams :
        \/ \E t \in Topics : CallSubscribe(s, t)
        \/ StreamGoesOn(s)

RunStep ==
    \/ RunSubscribe
    \/ RunUnsubscribe
    \/ RunPublish
    \/ \E s \in Streams : Deliver(s) \/ FindFull(s)
    \/ DropOldest
    \/ DeliverAgain

\* The hub while the program serves requests, and with its shutdown.
NextUp == PublisherStep \/ StreamStep \/ RunStep
Next == NextUp \/ Cancel \/ RunStops

Spec == Init /\ [][Next]_vars

(***************************************************************************)
(* Fairness.  Goroutines that can run do run (weak fairness).  A goroutine *)
(* blocked on a full channel waits in the channel's FIFO queue, and select *)
(* picks among its ready cases at random, so neither can be passed over    *)
(* for ever (strong fairness).  Nothing is assumed of the readers: no      *)
(* Receive, no ClientGone, no new call ever has to happen.                 *)
(***************************************************************************)
Fairness ==
    /\ \A p \in Publishers : SF_vars(\E e \in Events : SendPublish(p, e))
    /\ \A s \in Streams :
        /\ SF_vars(SendSubscribe(s))
        /\ SF_vars(SendUnsubscribe(s))
        /\ WF_vars(SubscribeReturns(s))
        /\ WF_vars(UnsubscribeReturns(s))
    /\ SF_vars(RunSubscribe)
    /\ SF_vars(RunUnsubscribe)
    /\ SF_vars(RunPublish)
    /\ SF_vars(RunStops)
    /\ WF_vars(\E s \in Streams : Deliver(s) \/ FindFull(s))
    /\ WF_vars(DropOldest)
    /\ WF_vars(DeliverAgain)

FairSpec == Spec /\ Fairness

-----------------------------------------------------------------------------
(* Safety *)

Registered(s) == {t \in Topics : s \in subscribers[t]}
InSeq(x, q) == \E i \in 1..Len(q) : q[i] = x

\* No channel ever holds more than its capacity (hub.go:93-100): a sender that
\* finds it full waits, or drops.
Bounded ==
    /\ Len(publishQ) <= PubCap
    /\ Len(subscribeQ) <= SubCap
    /\ Len(unsubscribeQ) <= UnsubCap
    /\ \A s \in Streams : Len(buffer[s]) <= BufCap

\* Subscribe returns only once the hub has registered the stream
\* (hub.go:106-107): a goroutine that reads its channel, or has not yet asked
\* to leave, is registered for its topic and for no other.
StreamingIsRegistered ==
    \A s \in Streams :
        pc[s] \in {"streaming", "leaving"} => Registered(s) = {topicOf[s]}

\* Unsubscribe returns only once the stream is out of the table and out of the
\* snapshot being delivered (hub.go:122-123): nothing can be sent to it any more.
ReturnedIsDetached ==
    \A s \in Streams :
        pc[s] \in {"idle", "subscribing"} => Registered(s) = {} /\ s \notin targets

\* Run finds room in a channel it has just taken an event from: it is the
\* only sender, so the last select of deliverDropOldest always sends.
ResendHasRoom == hub = "resend" => Len(buffer[cur]) < BufCap

\* No event reaches the channel of a stream whose Unsubscribe has returned.
NoDeliveryAfterUnsubscribe ==
    [][\A s \in Streams :
        pc[s] = "idle" /\ pc'[s] = "idle" => buffer'[s] = buffer[s]]_vars

-----------------------------------------------------------------------------
(* Liveness *)

\* Until the hub is cancelled, a slow or stuck reader holds up no publisher:
\* every call of Publish returns (hub.go:130-137, "never blocks").
PublishReturns == \A p \in Publishers : call[p] # None ~> call[p] = None \/ ctxDone

\* ... and no other stream: every call of Subscribe returns, and every call of
\* Unsubscribe, although Run may just be sending to the stream that is leaving
\* (hub.go:111-128).
StreamCallsReturn ==
    \A s \in Streams :
        /\ pc[s] = "subscribing" ~> pc[s] = "streaming" \/ ctxDone
        /\ pc[s] = "leaving" ~> pc[s] = "idle" \/ ctxDone

-----------------------------------------------------------------------------
(* What the comments say and the code does not do *)

\* "Publish ... never blocks" (hub.go:134): there is always room for its message.
PublishNeverBlocks == \A p \in Publishers : call[p] # None => Len(publishQ) < PubCap

\* "If a subscriber's buffer is full, the oldest buffered event is dropped"
\* (hub.go:131): an event is taken out of a channel that is full.  The reader
\* may have drained it since Run found it full; only an empty one is spared.
DropsOnlyWhenFull == hub = "drop" => Len(buffer[cur]) \in {0, BufCap}

\* "Channel closed - hub shut down" (handler.go:73) ends the stream: once Run
\* has returned, a stream does not stay in its loop for ever.
StreamEndsWithHub ==
    \A s \in Streams : hub = "stopped" /\ pc[s] = "streaming" ~> pc[s] # "streaming"

=============================================================================
