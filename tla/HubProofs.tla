----------------------------- MODULE HubProofs -----------------------------
(***************************************************************************)
(* Proofs about Hub, and about the process of Server around it, for any    *)
(* number of streams, other requests, publishers and topics and any        *)
(* capacities.                                                             *)
(***************************************************************************)
EXTENDS Server, SequenceTheorems, TLAPS

(***************************************************************************)
(* The inductive invariant.  ReturnedIsDetached and StreamingIsRegistered  *)
(* speak of the goroutines that are not waiting; whether they hold after   *)
(* the next step depends on what the two request channels and the pending  *)
(* acks hold for those that are.                                           *)
(***************************************************************************)
Distinct(q) == \A i, j \in 1..Len(q) : i # j => q[i] # q[j]

RegisteredOnce(s) == \A t \in Topics : s \in subscribers[t] <=> t = topicOf[s]
Detached(s) == s \notin targets /\ \A t \in Topics : s \notin subscribers[t]

\* What the hub holds for a stream, by where its goroutine stands.
StreamInv(s) ==
    /\ pc[s] # "idle" => topicOf[s] \in Topics
    /\ pc[s] \in {"idle", "subscribing"} =>
        Detached(s) /\ ~InSeq(s, subscribeQ) /\ ~InSeq(s, unsubscribeQ) /\ s \notin acked
    /\ pc[s] = "subscribeWait" =>
        /\ ~InSeq(s, unsubscribeQ)
        /\ InSeq(s, subscribeQ) => Detached(s) /\ s \notin acked
        /\ s \in acked => RegisteredOnce(s)
    /\ pc[s] \in {"streaming", "leaving"} =>
        RegisteredOnce(s) /\ ~InSeq(s, subscribeQ) /\ ~InSeq(s, unsubscribeQ) /\ s \notin acked
    /\ pc[s] = "leaveWait" =>
        /\ ~InSeq(s, subscribeQ)
        /\ InSeq(s, unsubscribeQ) => RegisteredOnce(s) /\ s \notin acked
        /\ s \in acked => Detached(s)

\* Run serves requests only between two deliveries, when its snapshot is used up.
LoopInv ==
    /\ hub \in {"select", "stopped"} => targets = {}
    /\ hub \in {"send", "drop", "resend"} => msg \in Message /\ targets \subseteq subscribers[msg.topic]
    /\ hub \in {"drop", "resend"} => cur \in targets

RegistrationInv ==
    /\ Distinct(subscribeQ)
    /\ Distinct(unsubscribeQ)
    /\ LoopInv
    /\ \A s \in Streams : StreamInv(s)

IInv == TypeOK /\ RegistrationInv

BufferInv == Bounded /\ ResendHasRoom

-----------------------------------------------------------------------------
(* Lemmas on the request channels *)

\* What Append does to the elements of a channel.
LEMMA AppendLemma ==
    ASSUME NEW S, NEW q \in Seq(S), NEW x \in S
    PROVE  /\ \A y : InSeq(y, Append(q, x)) <=> InSeq(y, q) \/ y = x
           /\ Distinct(q) /\ ~InSeq(x, q) => Distinct(Append(q, x))
  BY DEF InSeq, Distinct

\* What Tail does to the elements of a channel.
LEMMA TailLemma ==
    ASSUME NEW S, NEW q \in Seq(S), q # <<>>
    PROVE  /\ Head(q) \in S
           /\ Tail(q) \in Seq(S)
           /\ Len(Tail(q)) = Len(q) - 1
           /\ Head(q) = q[1]
           /\ \A i \in 1..Len(Tail(q)) : Tail(q)[i] = q[i + 1]
           /\ InSeq(Head(q), q)
           /\ \A y : InSeq(y, Tail(q)) => InSeq(y, q)
           /\ \A y : y # Head(q) /\ InSeq(y, q) => InSeq(y, Tail(q))
           /\ Distinct(q) => ~InSeq(Head(q), Tail(q)) /\ Distinct(Tail(q))
<1>1. /\ Head(q) \in S
      /\ Tail(q) \in Seq(S)
      /\ Len(Tail(q)) = Len(q) - 1
      /\ Head(q) = q[1]
      /\ Len(q) \in Nat \ {0}
      /\ \A i \in 1..Len(Tail(q)) : Tail(q)[i] = q[i + 1]
  BY HeadTailProperties, LenProperties
<1>2. InSeq(Head(q), q)
  BY <1>1 DEF InSeq
<1>3. \A y : InSeq(y, Tail(q)) => InSeq(y, q)
  <2>1. SUFFICES ASSUME NEW y, NEW i \in 1..Len(Tail(q)), Tail(q)[i] = y
                 PROVE  \E k \in 1..Len(q) : q[k] = y
    BY DEF InSeq
  <2>2. i + 1 \in 1..Len(q) /\ q[i + 1] = y
    BY <1>1, <2>1
  <2> QED BY <2>2
<1>4. \A y : y # Head(q) /\ InSeq(y, q) => InSeq(y, Tail(q))
  <2>1. SUFFICES ASSUME NEW y, y # Head(q), NEW i \in 1..Len(q), q[i] = y
                 PROVE  \E k \in 1..Len(Tail(q)) : Tail(q)[k] = y
    BY DEF InSeq
  <2>2. i - 1 \in 1..Len(Tail(q)) /\ Tail(q)[i - 1] = q[(i - 1) + 1]
    BY <1>1, <2>1
  <2> QED BY <2>1, <2>2
<1>5. Distinct(q) => ~InSeq(Head(q), Tail(q)) /\ Distinct(Tail(q))
  <2>1. ASSUME Distinct(q), NEW i \in 1..Len(Tail(q)) PROVE Tail(q)[i] # Head(q)
    <3>1. i + 1 \in 1..Len(q) /\ 1 \in 1..Len(q) /\ i + 1 # 1
      BY <1>1
    <3>2. q[i + 1] # q[1]
      BY <2>1, <3>1 DEF Distinct
    <3> QED BY <1>1, <3>2
  <2>2. ASSUME Distinct(q), NEW i \in 1..Len(Tail(q)), NEW j \in 1..Len(Tail(q)), i # j
        PROVE  Tail(q)[i] # Tail(q)[j]
    <3>1. i + 1 \in 1..Len(q) /\ j + 1 \in 1..Len(q) /\ i + 1 # j + 1
      BY <1>1, <2>2
    <3> QED BY <1>1, <2>2, <3>1 DEF Distinct
  <2> QED BY <2>1, <2>2 DEF InSeq, Distinct
<1> QED BY <1>1, <1>2, <1>3, <1>4, <1>5

-----------------------------------------------------------------------------
(* Type correctness *)

\* Initially the channels are empty and nothing is registered.
LEMMA InitTypeOK == Init => TypeOK
<1> SUFFICES ASSUME Init PROVE TypeOK
  OBVIOUS
<1>1. /\ buffer \in [Streams -> Seq(Events)]
      /\ publishQ \in Seq(Message)
      /\ subscribeQ \in Seq(Streams)
      /\ unsubscribeQ \in Seq(Streams)
  BY DEF Init
<1>2. /\ pc \in [Streams -> PCs]
      /\ topicOf \in [Streams -> Topics \cup {None}]
      /\ call \in [Publishers -> Topics \cup {None}]
      /\ subscribers \in [Topics -> SUBSET Streams]
  BY DEF Init, PCs
<1>3. acked \in SUBSET Streams /\ targets \in SUBSET Streams /\ cur \in Streams \cup {None}
  BY DEF Init
<1>4. hub \in Phases /\ ctxDone \in BOOLEAN /\ msg \in Message \cup {NoMsg}
  BY DEF Init, Phases
<1> QED BY <1>1, <1>2, <1>3, <1>4 DEF TypeOK

\* The variables hold their types after every step.  TypeOK alone is not
\* inductive: what Run delivers is an event because Run holds a message.
LEMMA NextTypeOK == TypeOK /\ LoopInv /\ [Next]_vars => TypeOK'
<1> SUFFICES ASSUME TypeOK, LoopInv, [Next]_vars PROVE TypeOK'
  OBVIOUS
<1> USE DEF TypeOK
<1>1. ASSUME NEW p \in Publishers, NEW t \in Topics, CallPublish(p, t) PROVE TypeOK'
  BY <1>1 DEF CallPublish, streamVars, queueVars, runVars
<1>2. ASSUME NEW p \in Publishers, NEW e \in Events, SendPublish(p, e) PROVE TypeOK'
  <2>1. [topic |-> call[p], event |-> e] \in Message
    BY <1>2 DEF SendPublish, Message
  <2> QED BY <1>2, <2>1 DEF SendPublish, streamVars, runVars
<1>3. ASSUME NEW s \in Streams, NEW t \in Topics, CallSubscribe(s, t) PROVE TypeOK'
  BY <1>3 DEF CallSubscribe, queueVars, runVars, PCs
<1>4. ASSUME NEW s \in Streams, SendSubscribe(s) PROVE TypeOK'
  BY <1>4 DEF SendSubscribe, runVars, PCs
<1>5. ASSUME NEW s \in Streams, SubscribeReturns(s) PROVE TypeOK'
  BY <1>5 DEF SubscribeReturns, queueVars, runVars, PCs
<1>6. ASSUME NEW s \in Streams, Receive(s) PROVE TypeOK'
  <2>1. Tail(buffer[s]) \in Seq(Events)
    BY <1>6, HeadTailProperties DEF Receive
  <2> QED BY <1>6, <2>1 DEF Receive, streamVars, queueVars, runVars
<1>7. ASSUME NEW s \in Streams, ClientGone(s) PROVE TypeOK'
  BY <1>7 DEF ClientGone, queueVars, runVars, PCs
<1>8. ASSUME NEW s \in Streams, SendUnsubscribe(s) PROVE TypeOK'
  BY <1>8 DEF SendUnsubscribe, runVars, PCs
<1>9. ASSUME NEW s \in Streams, UnsubscribeReturns(s) PROVE TypeOK'
  BY <1>9 DEF UnsubscribeReturns, queueVars, runVars, PCs
<1>10. CASE RunStops
  BY <1>10 DEF RunStops, streamVars, queueVars, Phases
<1>11. CASE RunSubscribe
  <2>1. Head(subscribeQ) \in Streams /\ Tail(subscribeQ) \in Seq(Streams)
    BY <1>11, HeadTailProperties DEF RunSubscribe
  <2>2. subscribers' \in [Topics -> SUBSET Streams]
    BY <1>11, <2>1 DEF RunSubscribe
  <2> QED BY <1>11, <2>1, <2>2 DEF RunSubscribe, streamVars, runVars
<1>12. CASE RunUnsubscribe
  <2>1. Head(unsubscribeQ) \in Streams /\ Tail(unsubscribeQ) \in Seq(Streams)
    BY <1>12, HeadTailProperties DEF RunUnsubscribe
  <2>2. subscribers' \in [Topics -> SUBSET Streams]
    BY <1>12, <2>1 DEF RunUnsubscribe
  <2> QED BY <1>12, <2>1, <2>2 DEF RunUnsubscribe, streamVars, runVars
<1>13. CASE RunPublish
  <2>1. Head(publishQ) \in Message /\ Tail(publishQ) \in Seq(Message)
    BY <1>13, HeadTailProperties DEF RunPublish
  <2>2. Head(publishQ).topic \in Topics
    BY <2>1 DEF Message
  <2> QED BY <1>13, <2>1, <2>2 DEF RunPublish, streamVars, Phases
<1>14. ASSUME NEW s \in Streams, Deliver(s) PROVE TypeOK'
  <2>1. msg \in Message /\ msg.event \in Events
    BY <1>14 DEF LoopInv, Deliver, Message
  <2>2. Append(buffer[s], msg.event) \in Seq(Events)
    BY <2>1, AppendProperties
  <2> QED BY <1>14, <2>1, <2>2 DEF Deliver, Served, streamVars, queueVars, Phases, NoMsg
<1>15. ASSUME NEW s \in Streams, FindFull(s) PROVE TypeOK'
  BY <1>15 DEF FindFull, streamVars, queueVars, Phases
<1>16. CASE DropOldest
  <2>1. cur \in Streams
    BY <1>16 DEF LoopInv, DropOldest
  <2>2. buffer[cur] # <<>> => Tail(buffer[cur]) \in Seq(Events)
    BY <2>1, HeadTailProperties
  <2> QED BY <1>16, <2>1, <2>2 DEF DropOldest, streamVars, queueVars, Phases
<1>17. CASE DeliverAgain
  <2>1. cur \in Streams /\ msg \in Message /\ msg.event \in Events
    BY <1>17 DEF LoopInv, DeliverAgain, Message
  <2>2. Append(buffer[cur], msg.event) \in Seq(Events)
    BY <2>1, AppendProperties
  <2> QED BY <1>17, <2>1, <2>2 DEF DeliverAgain, Served, streamVars, queueVars, Phases, NoMsg
<1>18. CASE Cancel
  BY <1>18 DEF Cancel, streamVars, queueVars, runVars
<1>19. CASE UNCHANGED vars
  BY <1>19 DEF vars, streamVars, queueVars, runVars
<1> QED
  BY <1>1, <1>2, <1>3, <1>4, <1>5, <1>6, <1>7, <1>8, <1>9, <1>10, <1>11, <1>12, <1>13,
     <1>14, <1>15, <1>16, <1>17, <1>18, <1>19
     DEF Next, NextUp, PublisherStep, StreamStep, StreamGoesOn, RunStep

-----------------------------------------------------------------------------
(* Registration *)

\* Nothing is registered or asked for in the initial state.
LEMMA InitRegistrationInv == Init => RegistrationInv
  BY DEF Init, RegistrationInv, Distinct, LoopInv, StreamInv, Detached, InSeq, Message

\* A step that changes nothing of what the hub holds for the streams.
LEMMA QuietStep ==
    ASSUME RegistrationInv, LoopInv',
           UNCHANGED <<streamVars, acked, subscribeQ, unsubscribeQ, subscribers>>,
           targets' \subseteq targets
    PROVE  RegistrationInv'
  BY DEF RegistrationInv, StreamInv, RegisteredOnce, Detached, InSeq, Distinct, streamVars

\* A stream that moves on: it is the only one whose invariant is at stake.
LEMMA OneStream ==
    ASSUME RegistrationInv, NEW s \in Streams, StreamInv(s)',
           Distinct(subscribeQ)', Distinct(unsubscribeQ)',
           \A x \in Streams \ {s} :
              /\ pc'[x] = pc[x] /\ topicOf'[x] = topicOf[x]
              /\ x \in acked' <=> x \in acked
              /\ InSeq(x, subscribeQ)' <=> InSeq(x, subscribeQ)
              /\ InSeq(x, unsubscribeQ)' <=> InSeq(x, unsubscribeQ)
              /\ \A t \in Topics : x \in subscribers'[t] <=> x \in subscribers[t],
           targets' = targets, LoopInv'
    PROVE  RegistrationInv'
<1>1. ASSUME NEW x \in Streams \ {s} PROVE StreamInv(x)'
  BY <1>1 DEF RegistrationInv, StreamInv, RegisteredOnce, Detached
<1> QED BY <1>1 DEF RegistrationInv

\* RegistrationInv is preserved: what the hub holds for a stream changes only
\* along the protocol of Subscribe and Unsubscribe.
LEMMA NextRegistrationInv == IInv /\ [Next]_vars => RegistrationInv'
<1> SUFFICES ASSUME TypeOK, RegistrationInv, [Next]_vars PROVE RegistrationInv'
  BY DEF IInv
<1>a. LoopInv /\ Distinct(subscribeQ) /\ Distinct(unsubscribeQ) /\ \A s \in Streams : StreamInv(s)
  BY DEF RegistrationInv
<1>1. ASSUME NEW p \in Publishers, NEW t \in Topics, CallPublish(p, t) PROVE RegistrationInv'
  BY <1>1, <1>a, QuietStep DEF CallPublish, queueVars, runVars, LoopInv
<1>2. ASSUME NEW p \in Publishers, NEW e \in Events, SendPublish(p, e) PROVE RegistrationInv'
  BY <1>2, <1>a, QuietStep DEF SendPublish, queueVars, runVars, LoopInv
<1>3. ASSUME NEW s \in Streams, NEW t \in Topics, CallSubscribe(s, t) PROVE RegistrationInv'
  <2>1. StreamInv(s) /\ LoopInv'
    BY <1>3, <1>a DEF CallSubscribe, LoopInv, runVars
  <2>2. StreamInv(s)'
    BY <1>3, <2>1 DEF CallSubscribe, TypeOK, StreamInv, Detached, InSeq, queueVars, runVars
  <2> QED BY <1>3, <1>a, <2>1, <2>2, OneStream
          DEF CallSubscribe, TypeOK, InSeq, Distinct, queueVars, runVars
<1>4. ASSUME NEW s \in Streams, SendSubscribe(s) PROVE RegistrationInv'
  <2>1. StreamInv(s) /\ LoopInv'
    BY <1>4, <1>a DEF SendSubscribe, LoopInv, runVars
  <2>2. /\ \A y : InSeq(y, subscribeQ') <=> InSeq(y, subscribeQ) \/ y = s
        /\ Distinct(subscribeQ')
    BY <1>4, <1>a, <2>1, AppendLemma DEF SendSubscribe, TypeOK, StreamInv
  <2>3. StreamInv(s)'
    BY <1>4, <2>1, <2>2 DEF SendSubscribe, TypeOK, StreamInv, Detached, runVars
  <2> QED BY <1>4, <1>a, <2>1, <2>2, <2>3, OneStream DEF SendSubscribe, TypeOK, runVars
<1>5. ASSUME NEW s \in Streams, SubscribeReturns(s) PROVE RegistrationInv'
  <2>1. StreamInv(s) /\ LoopInv'
    BY <1>5, <1>a DEF SubscribeReturns, LoopInv, runVars
  <2>2. ~InSeq(s, subscribeQ)
    BY <1>5, <2>1 DEF SubscribeReturns, StreamInv
  <2>3. StreamInv(s)'
    BY <1>5, <2>1, <2>2
       DEF SubscribeReturns, TypeOK, StreamInv, RegisteredOnce, queueVars
  <2> QED BY <1>5, <1>a, <2>1, <2>3, OneStream DEF SubscribeReturns, TypeOK, queueVars, runVars
<1>6. ASSUME NEW s \in Streams, Receive(s) PROVE RegistrationInv'
  BY <1>6, <1>a, QuietStep DEF Receive, queueVars, runVars, LoopInv
<1>7. ASSUME NEW s \in Streams, ClientGone(s) PROVE RegistrationInv'
  <2>1. StreamInv(s) /\ LoopInv'
    BY <1>7, <1>a DEF ClientGone, LoopInv, runVars
  <2>2. StreamInv(s)'
    BY <1>7, <2>1 DEF ClientGone, TypeOK, StreamInv, RegisteredOnce, queueVars
  <2> QED BY <1>7, <1>a, <2>1, <2>2, OneStream DEF ClientGone, TypeOK, queueVars, runVars
<1>8. ASSUME NEW s \in Streams, SendUnsubscribe(s) PROVE RegistrationInv'
  <2>1. StreamInv(s) /\ LoopInv'
    BY <1>8, <1>a DEF SendUnsubscribe, LoopInv, runVars
  <2>2. /\ \A y : InSeq(y, unsubscribeQ') <=> InSeq(y, unsubscribeQ) \/ y = s
        /\ Distinct(unsubscribeQ')
    BY <1>8, <1>a, <2>1, AppendLemma DEF SendUnsubscribe, TypeOK, StreamInv
  <2>3. StreamInv(s)'
    BY <1>8, <2>1, <2>2 DEF SendUnsubscribe, TypeOK, StreamInv, RegisteredOnce, runVars
  <2> QED BY <1>8, <1>a, <2>1, <2>2, <2>3, OneStream DEF SendUnsubscribe, TypeOK, runVars
<1>9. ASSUME NEW s \in Streams, UnsubscribeReturns(s) PROVE RegistrationInv'
  <2>1. StreamInv(s) /\ LoopInv'
    BY <1>9, <1>a DEF UnsubscribeReturns, LoopInv, runVars
  <2>2. ~InSeq(s, unsubscribeQ)
    BY <1>9, <2>1 DEF UnsubscribeReturns, StreamInv
  <2>3. StreamInv(s)'
    BY <1>9, <2>1, <2>2 DEF UnsubscribeReturns, TypeOK, StreamInv, Detached, queueVars, runVars
  <2> QED BY <1>9, <1>a, <2>1, <2>3, OneStream DEF UnsubscribeReturns, TypeOK, queueVars, runVars
<1>10. CASE RunStops
  BY <1>10, <1>a, QuietStep DEF RunStops, queueVars, LoopInv
<1>11. CASE RunSubscribe
  <2>0. PICK s \in Streams : s = Head(subscribeQ)
    BY <1>11, HeadTailProperties DEF RunSubscribe, TypeOK
  <2>1. /\ InSeq(s, subscribeQ)
        /\ Distinct(subscribeQ') /\ ~InSeq(s, subscribeQ')
        /\ \A y : y # s => (InSeq(y, subscribeQ') <=> InSeq(y, subscribeQ))
    BY <1>11, <1>a, <2>0, TailLemma DEF RunSubscribe, TypeOK
  <2>2. /\ StreamInv(s)
        /\ pc[s] = "subscribeWait" /\ topicOf[s] \in Topics
        /\ Detached(s) /\ ~InSeq(s, unsubscribeQ)
    BY <1>a, <2>1 DEF StreamInv, TypeOK, PCs
  <2>3. /\ subscribers' = [subscribers EXCEPT ![topicOf[s]] = @ \cup {s}]
        /\ acked' = acked \cup {s}
    BY <1>11, <2>0 DEF RunSubscribe
  <2>4. RegisteredOnce(s)'
    BY <1>11, <2>2, <2>3 DEF RunSubscribe, RegisteredOnce, Detached, TypeOK, streamVars
  <2>5. StreamInv(s)' /\ LoopInv'
    BY <1>11, <1>a, <2>1, <2>2, <2>3, <2>4 DEF RunSubscribe, StreamInv, LoopInv, streamVars, runVars
  <2>6. \A x \in Streams \ {s} : \A t \in Topics : x \in subscribers'[t] <=> x \in subscribers[t]
    BY <2>3 DEF TypeOK
  <2> QED BY <1>11, <1>a, <2>1, <2>3, <2>5, <2>6, OneStream DEF RunSubscribe, streamVars, runVars
<1>12. CASE RunUnsubscribe
  <2>0. PICK s \in Streams : s = Head(unsubscribeQ)
    BY <1>12, HeadTailProperties DEF RunUnsubscribe, TypeOK
  <2>1. /\ InSeq(s, unsubscribeQ)
        /\ Distinct(unsubscribeQ') /\ ~InSeq(s, unsubscribeQ')
        /\ \A y : y # s => (InSeq(y, unsubscribeQ') <=> InSeq(y, unsubscribeQ))
    BY <1>12, <1>a, <2>0, TailLemma DEF RunUnsubscribe, TypeOK
  <2>2. /\ StreamInv(s)
        /\ pc[s] = "leaveWait" /\ topicOf[s] \in Topics
        /\ RegisteredOnce(s) /\ ~InSeq(s, subscribeQ)
    BY <1>a, <2>1 DEF StreamInv, TypeOK, PCs
  <2>3. /\ subscribers' = [subscribers EXCEPT ![topicOf[s]] = @ \ {s}]
        /\ acked' = acked \cup {s}
        /\ targets = {} /\ targets' = {}
    BY <1>12, <1>a, <2>0 DEF RunUnsubscribe, LoopInv, runVars
  <2>4. Detached(s)'
    BY <2>2, <2>3 DEF RegisteredOnce, Detached, TypeOK
  <2>5. StreamInv(s)' /\ LoopInv'
    BY <1>12, <1>a, <2>1, <2>2, <2>3, <2>4 DEF RunUnsubscribe, StreamInv, LoopInv, streamVars, runVars
  <2>6. \A x \in Streams \ {s} : \A t \in Topics : x \in subscribers'[t] <=> x \in subscribers[t]
    BY <2>3 DEF TypeOK
  <2> QED BY <1>12, <1>a, <2>1, <2>3, <2>5, <2>6, OneStream DEF RunUnsubscribe, streamVars, runVars
<1>13. CASE RunPublish
  <2> DEFINE m == Head(publishQ)
  <2>1. m \in Message /\ m.topic \in Topics
    <3>1. m \in Message
      BY <1>13, HeadTailProperties DEF RunPublish, TypeOK
    <3> QED BY <3>1 DEF Message
  <2>2. LoopInv'
    BY <1>13, <2>1, <1>a DEF RunPublish, LoopInv
  <2>3. ASSUME NEW x \in Streams PROVE StreamInv(x)'
    <3>1. StreamInv(x) /\ targets' = subscribers[m.topic]
      BY <1>13, <1>a DEF RunPublish
    <3>2. Detached(x) => Detached(x)'
      BY <1>13, <2>1, <3>1 DEF RunPublish, Detached
    <3> QED BY <1>13, <3>1, <3>2 DEF RunPublish, StreamInv, RegisteredOnce, streamVars
  <2> QED BY <1>13, <1>a, <2>2, <2>3 DEF RunPublish, RegistrationInv, Distinct
<1>14. ASSUME NEW s \in Streams, Deliver(s) PROVE RegistrationInv'
  <2>1. LoopInv'
    BY <1>14, <1>a DEF Deliver, Served, LoopInv
  <2> QED BY <1>14, <2>1, QuietStep DEF Deliver, Served, queueVars
<1>15. ASSUME NEW s \in Streams, FindFull(s) PROVE RegistrationInv'
  BY <1>15, <1>a, QuietStep DEF FindFull, queueVars, LoopInv
<1>16. CASE DropOldest
  BY <1>16, <1>a, QuietStep DEF DropOldest, queueVars, LoopInv
<1>17. CASE DeliverAgain
  <2>1. LoopInv'
    BY <1>17, <1>a DEF DeliverAgain, Served, LoopInv
  <2> QED BY <1>17, <2>1, QuietStep DEF DeliverAgain, Served, queueVars
<1>18. CASE Cancel
  BY <1>18, <1>a, QuietStep DEF Cancel, queueVars, runVars, LoopInv
<1>19. CASE UNCHANGED vars
  BY <1>19, <1>a, QuietStep DEF vars, queueVars, runVars, LoopInv
<1> QED
  BY <1>1, <1>2, <1>3, <1>4, <1>5, <1>6, <1>7, <1>8, <1>9, <1>10, <1>11, <1>12, <1>13,
     <1>14, <1>15, <1>16, <1>17, <1>18, <1>19
     DEF Next, NextUp, PublisherStep, StreamStep, StreamGoesOn, RunStep

-----------------------------------------------------------------------------
(* The theorems *)

\* The inductive invariant holds in every reachable state of the hub.
LEMMA Invariance == Spec => []IInv
<1>1. Init => IInv
  BY InitTypeOK, InitRegistrationInv DEF IInv
<1>2. IInv /\ [Next]_vars => IInv'
  BY NextTypeOK, NextRegistrationInv DEF IInv, RegistrationInv
<1> QED BY <1>1, <1>2, PTL DEF Spec

\* Type correctness: the channels of Hub and the locals of Run hold what their
\* Go types say, and Run holds an event whenever it delivers one.
THEOREM TypeCorrect == Spec => []TypeOK
<1>1. IInv => TypeOK
  BY DEF IInv
<1> QED BY <1>1, Invariance, PTL

\* What Subscribe and Unsubscribe promise follows from the invariant.
LEMMA PromisesHold == IInv => StreamingIsRegistered /\ ReturnedIsDetached
<1>1. ASSUME IInv, NEW s \in Streams, pc[s] \in {"streaming", "leaving"}
      PROVE  Registered(s) = {topicOf[s]}
  BY <1>1 DEF IInv, RegistrationInv, StreamInv, RegisteredOnce, Registered
<1>2. IInv => ReturnedIsDetached
  BY DEF IInv, RegistrationInv, StreamInv, Detached, Registered, ReturnedIsDetached
<1> QED BY <1>1, <1>2 DEF StreamingIsRegistered

\* A stream in its loop is registered for its topic, and for no other.
THEOREM SubscribeRegisters == Spec => []StreamingIsRegistered
BY PromisesHold, Invariance, PTL

\* A stream whose Unsubscribe has returned is in no list the hub sends to.
THEOREM UnsubscribeDetaches == Spec => []ReturnedIsDetached
BY PromisesHold, Invariance, PTL

\* Delivering an event, dropping one and sending again keep the channels within
\* their capacity, and a channel an event was taken from has room until Run has
\* sent: the reader can only make more.
LEMMA NextBufferInv == IInv /\ BufferInv /\ [Next]_vars => BufferInv'
<1> SUFFICES ASSUME TypeOK, LoopInv, BufferInv, [Next]_vars PROVE BufferInv'
  BY DEF IInv, RegistrationInv
<1> USE CapAssumption DEF BufferInv
<1>a. \A s \in Streams : Len(buffer[s]) \in Nat
  BY LenProperties DEF TypeOK
<1>b. /\ hub \in {"drop", "resend"} => cur \in Streams /\ cur \in targets
      /\ targets \subseteq Streams
  BY DEF LoopInv, TypeOK
<1>1. ASSUME NEW p \in Publishers, NEW t \in Topics, CallPublish(p, t) PROVE BufferInv'
  BY <1>1 DEF CallPublish, Bounded, ResendHasRoom, queueVars, runVars
<1>2. ASSUME NEW p \in Publishers, NEW e \in Events, SendPublish(p, e) PROVE BufferInv'
  <2>1. Len(publishQ') \in Nat /\ Len(publishQ') <= PubCap
    <3>1. [topic |-> call[p], event |-> e] \in Message
      BY <1>2 DEF SendPublish, TypeOK, Message
    <3> QED BY <1>2, <3>1, AppendProperties, LenProperties DEF SendPublish, TypeOK
  <2> QED BY <1>2, <2>1 DEF SendPublish, Bounded, ResendHasRoom, runVars
<1>3. ASSUME NEW s \in Streams, NEW t \in Topics, CallSubscribe(s, t) PROVE BufferInv'
  BY <1>3, <1>b DEF CallSubscribe, Bounded, ResendHasRoom, TypeOK, queueVars, runVars
<1>4. ASSUME NEW s \in Streams, SendSubscribe(s) PROVE BufferInv'
  <2>1. Len(subscribeQ') <= SubCap
    BY <1>4, AppendProperties, LenProperties DEF SendSubscribe, TypeOK
  <2> QED BY <1>4, <2>1 DEF SendSubscribe, Bounded, ResendHasRoom, runVars
<1>5. ASSUME NEW s \in Streams, SubscribeReturns(s) PROVE BufferInv'
  BY <1>5 DEF SubscribeReturns, Bounded, ResendHasRoom, queueVars, runVars
<1>6. ASSUME NEW s \in Streams, Receive(s) PROVE BufferInv'
  <2>1. /\ Len(buffer'[s]) = Len(buffer[s]) - 1
        /\ \A x \in Streams \ {s} : buffer'[x] = buffer[x]
    BY <1>6, HeadTailProperties DEF Receive, TypeOK
  <2>2. \A x \in Streams : Len(buffer'[x]) <= Len(buffer[x])
    BY <2>1, <1>a
  <2>3. Bounded'
    BY <1>6, <2>1, <1>a DEF Receive, Bounded, queueVars
  <2>4. ResendHasRoom'
    BY <1>6, <2>1, <1>a, <1>b DEF Receive, ResendHasRoom, runVars
  <2> QED BY <2>3, <2>4
<1>7. ASSUME NEW s \in Streams, ClientGone(s) PROVE BufferInv'
  BY <1>7 DEF ClientGone, Bounded, ResendHasRoom, queueVars, runVars
<1>8. ASSUME NEW s \in Streams, SendUnsubscribe(s) PROVE BufferInv'
  <2>1. Len(unsubscribeQ') <= UnsubCap
    BY <1>8, AppendProperties, LenProperties DEF SendUnsubscribe, TypeOK
  <2> QED BY <1>8, <2>1 DEF SendUnsubscribe, Bounded, ResendHasRoom, runVars
<1>9. ASSUME NEW s \in Streams, UnsubscribeReturns(s) PROVE BufferInv'
  BY <1>9 DEF UnsubscribeReturns, Bounded, ResendHasRoom, queueVars, runVars
<1>10. CASE RunStops
  BY <1>10 DEF RunStops, Bounded, ResendHasRoom, queueVars
<1>11. CASE RunSubscribe
  <2>1. Len(subscribeQ') <= Len(subscribeQ) /\ Len(subscribeQ) \in Nat /\ Len(subscribeQ') \in Nat
    BY <1>11, HeadTailProperties, LenProperties DEF RunSubscribe, TypeOK
  <2> QED BY <1>11, <2>1 DEF RunSubscribe, Bounded, ResendHasRoom, runVars
<1>12. CASE RunUnsubscribe
  <2>1. Len(unsubscribeQ') <= Len(unsubscribeQ) /\ Len(unsubscribeQ) \in Nat /\ Len(unsubscribeQ') \in Nat
    BY <1>12, HeadTailProperties, LenProperties DEF RunUnsubscribe, TypeOK
  <2> QED BY <1>12, <2>1 DEF RunUnsubscribe, Bounded, ResendHasRoom, runVars
<1>13. CASE RunPublish
  <2>1. Len(publishQ') <= Len(publishQ) /\ Len(publishQ) \in Nat /\ Len(publishQ') \in Nat
    BY <1>13, HeadTailProperties, LenProperties DEF RunPublish, TypeOK
  <2> QED BY <1>13, <2>1 DEF RunPublish, Bounded, ResendHasRoom
<1>14. ASSUME NEW s \in Streams, Deliver(s) PROVE BufferInv'
  <2>1. msg.event \in Events
    BY <1>14 DEF Deliver, LoopInv, Message
  <2>2. /\ Len(buffer'[s]) = Len(buffer[s]) + 1
        /\ \A x \in Streams \ {s} : buffer'[x] = buffer[x]
    BY <1>14, <2>1, AppendProperties DEF Deliver, TypeOK
  <2> QED BY <1>14, <2>2, <1>a DEF Deliver, Served, Bounded, ResendHasRoom, queueVars
<1>15. ASSUME NEW s \in Streams, FindFull(s) PROVE BufferInv'
  BY <1>15 DEF FindFull, Bounded, ResendHasRoom, queueVars
<1>16. CASE DropOldest
  <2>1. /\ \A x \in Streams \ {cur} : buffer'[x] = buffer[x]
        /\ buffer[cur] = <<>> => buffer' = buffer
        /\ buffer[cur] # <<>> => Len(buffer'[cur]) = Len(buffer[cur]) - 1
    BY <1>16, <1>b, HeadTailProperties DEF DropOldest, TypeOK
  <2>2. Bounded'
    BY <1>16, <2>1, <1>a, <1>b DEF DropOldest, Bounded, queueVars
  <2>3. ResendHasRoom'
    BY <1>16, <2>1, <1>a, <1>b DEF DropOldest, Bounded, ResendHasRoom
  <2> QED BY <2>2, <2>3
<1>17. CASE DeliverAgain
  <2>1. msg.event \in Events
    BY <1>17 DEF DeliverAgain, LoopInv, Message
  <2>2. /\ Len(buffer'[cur]) <= BufCap
        /\ \A x \in Streams \ {cur} : buffer'[x] = buffer[x]
    BY <1>17, <2>1, <1>a, <1>b, AppendProperties DEF DeliverAgain, Bounded, TypeOK
  <2> QED BY <1>17, <2>2, <1>a DEF DeliverAgain, Served, Bounded, ResendHasRoom, queueVars
<1>18. CASE Cancel
  BY <1>18 DEF Cancel, Bounded, ResendHasRoom, queueVars, runVars
<1>19. CASE UNCHANGED vars
  BY <1>19 DEF vars, Bounded, ResendHasRoom, queueVars, runVars
<1> QED
  BY <1>1, <1>2, <1>3, <1>4, <1>5, <1>6, <1>7, <1>8, <1>9, <1>10, <1>11, <1>12, <1>13,
     <1>14, <1>15, <1>16, <1>17, <1>18, <1>19
     DEF Next, NextUp, PublisherStep, StreamStep, StreamGoesOn, RunStep

LEMMA BufferInvariance == Spec => []BufferInv
<1>1. Init => BufferInv
  BY CapAssumption DEF Init, BufferInv, Bounded, ResendHasRoom
<1> QED BY <1>1, NextBufferInv, Invariance, PTL DEF Spec

\* No channel of the hub ever holds more than its capacity.
THEOREM ChannelsBounded == Spec => []Bounded
<1>1. BufferInv => Bounded
  BY DEF BufferInv
<1> QED BY <1>1, BufferInvariance, PTL

\* The last, non-blocking send of deliverDropOldest always sends, so the newest
\* event is never the one that is lost.
THEOREM ResendSends == Spec => []ResendHasRoom
<1>1. BufferInv => ResendHasRoom
  BY DEF BufferInv
<1> QED BY <1>1, BufferInvariance, PTL

\* After Unsubscribe has returned no event reaches the stream's channel.
THEOREM UnsubscribeIsFinal == Spec => NoDeliveryAfterUnsubscribe
<1>1. ASSUME IInv, [Next]_vars, NEW s \in Streams, pc[s] = "idle", pc'[s] = "idle"
      PROVE  buffer'[s] = buffer[s]
  <2>1. TypeOK /\ LoopInv /\ s \notin targets
    BY <1>1 DEF IInv, RegistrationInv, StreamInv, Detached
  <2>2. hub \in {"drop", "resend"} => cur # s
    BY <2>1 DEF LoopInv
  <2>3. CASE \E x \in Streams, t \in Topics : CallSubscribe(x, t)
    BY <1>1, <2>1, <2>3 DEF CallSubscribe, TypeOK
  <2>4. CASE \E x \in Streams : Receive(x)
    BY <1>1, <2>1, <2>4 DEF Receive, TypeOK
  <2>5. CASE \E x \in Streams : Deliver(x)
    BY <1>1, <2>1, <2>5 DEF Deliver, TypeOK
  <2>6. CASE DropOldest
    BY <2>1, <2>2, <2>6 DEF DropOldest, TypeOK
  <2>7. CASE DeliverAgain
    BY <2>1, <2>2, <2>7 DEF DeliverAgain, TypeOK
  <2>8. CASE UNCHANGED buffer
    BY <2>8
  <2> QED
    BY <1>1, <2>3, <2>4, <2>5, <2>6, <2>7, <2>8
       DEF Next, NextUp, PublisherStep, StreamStep, StreamGoesOn, RunStep, CallPublish, SendPublish,
           SendSubscribe, SubscribeReturns, ClientGone, SendUnsubscribe, UnsubscribeReturns,
           RunStops, RunSubscribe, RunUnsubscribe, RunPublish, FindFull, Cancel, vars
<1>2. IInv /\ [Next]_vars
      => [\A s \in Streams : pc[s] = "idle" /\ pc'[s] = "idle" => buffer'[s] = buffer[s]]_vars
  BY <1>1
<1> QED BY <1>2, Invariance, PTL DEF Spec, NoDeliveryAfterUnsubscribe

-----------------------------------------------------------------------------
(***************************************************************************)
(* The process.  Every step of it but its exit is a step of Hub or leaves  *)
(* the hub alone (StepOfHub), so the invariant above is one of the         *)
(* process, too.                                                           *)
(***************************************************************************)

\* The hub is cancelled by a return of run(), and without a failure that return has
\* waited for the requests.
CancelInv ==
    ctxDone =>
        /\ run \in {"return", "exited"}
        /\ result \in {"ok", "failed", "timeout"}
        /\ result = "ok" => InFlight = {}

ServerInv == IInv /\ ServerTypeOK /\ CancelInv

LEMMA StepOfHub ==
    ASSUME ServerNext, ~Exit
    PROVE  [Next]_vars
<1>1. CASE LoadFails \/ ServerError \/ ShutdownDone \/ ShutdownTimeout
  BY <1>1 DEF LoadFails, ServerError, ShutdownDone, ShutdownTimeout, Returns, Next
<1>2. CASE Wire \/ Start \/ Listen \/ BeginShutdown
  BY <1>2 DEF Wire, Start, Listen, BeginShutdown
<1>3. CASE Http
  BY <1>3 DEF Http, DropFresh, StreamBegins, CallBegins, CallEnds, Next, NextUp, StreamStep
<1>4. ASSUME NEW p \in Publishers, Informer(p) \/ Publisher(p)
      PROVE  [Next]_vars
  BY <1>4 DEF Informer, Publisher, Goes, Next, NextUp, PublisherStep
<1>5. ASSUME NEW s \in Streams, Stream(s) PROVE [Next]_vars
  BY <1>5 DEF Stream, Goes, Next, NextUp, StreamStep
<1>6. CASE Loop
  BY <1>6 DEF Loop, Goes, Next, NextUp
<1> QED BY <1>1, <1>2, <1>3, <1>4, <1>5, <1>6 DEF ServerNext, Life

\* The exit leaves nothing in memory.
LEMMA ExitKeepsHub ==
    ASSUME TypeOK, Exit
    PROVE  IInv'
<1>1. TypeOK'
  BY DEF Exit, TypeOK, Phases, PCs, NoMsg
<1>2. RegistrationInv'
  BY DEF Exit, RegistrationInv, Distinct, LoopInv, StreamInv, Detached, InSeq
<1> QED BY <1>1, <1>2 DEF IInv

LEMMA NextKeepsHub ==
    ASSUME IInv, [ServerNext]_svars
    PROVE  IInv'
<1>1. CASE Exit
  BY <1>1, ExitKeepsHub DEF IInv
<1>2. CASE ServerNext /\ ~Exit
  BY <1>2, StepOfHub, NextTypeOK, NextRegistrationInv DEF IInv, RegistrationInv
<1>3. CASE UNCHANGED svars
  BY <1>3, NextTypeOK, NextRegistrationInv DEF svars, IInv, RegistrationInv
<1> QED BY <1>1, <1>2, <1>3

-----------------------------------------------------------------------------
(* The process *)

LEMMA NextServerTypeOK ==
    ASSUME ServerTypeOK, TypeOK', [ServerNext]_svars
    PROVE  ServerTypeOK'
<1> USE DEF ServerTypeOK
<1>1. CASE LoadFails \/ ServerError \/ ShutdownDone \/ ShutdownTimeout
  BY <1>1 DEF LoadFails, ServerError, ShutdownDone, ShutdownTimeout, Returns
<1>2. CASE Wire \/ Start \/ Listen
  BY <1>2 DEF Wire, Start, Listen
<1>3. CASE BeginShutdown
  BY <1>3 DEF BeginShutdown
<1>4. CASE Exit
  BY <1>4 DEF Exit
<1>5. CASE Http
  BY <1>5 DEF Http, DropFresh, StreamBegins, CallBegins, CallEnds, Reads, lifeVars
<1>6. CASE \/ \E p \in Publishers : Informer(p) \/ Publisher(p)
           \/ \E s \in Streams : Stream(s)
           \/ Loop
  BY <1>6 DEF Informer, Publisher, Stream, Loop, Goes, serverVars, lifeVars
<1>7. CASE UNCHANGED svars
  BY <1>7 DEF svars, serverVars, lifeVars
<1> QED BY <1>1, <1>2, <1>3, <1>4, <1>5, <1>6, <1>7 DEF ServerNext, Life

\* No goroutine of the hub starts a request: that is net/http's part.
LEMMA NoRequestStarts ==
    ASSUME TypeOK,
           \/ \E p \in Publishers : Informer(p) \/ Publisher(p)
           \/ \E s \in Streams : Stream(s)
           \/ Loop
    PROVE  /\ \A s \in Streams : pc[s] = "idle" => pc'[s] = "idle"
           /\ UNCHANGED <<serverVars, ctxDone>>
<1>1. ASSUME NEW p \in Publishers, Informer(p) \/ Publisher(p)
      PROVE  UNCHANGED <<pc, serverVars, ctxDone>>
  BY <1>1 DEF Informer, Publisher, Goes, CallPublish, SendPublish, streamVars
<1>2. ASSUME NEW s \in Streams, Stream(s)
      PROVE  /\ UNCHANGED <<serverVars, ctxDone>>
             /\ \A x \in Streams : pc[x] = "idle" => pc'[x] = "idle"
  BY <1>2 DEF Stream, Goes, StreamGoesOn, SendSubscribe, SubscribeReturns, Receive, ClientGone,
              SendUnsubscribe, UnsubscribeReturns, streamVars, TypeOK
<1>3. CASE Loop
  <2>1. UNCHANGED <<pc, serverVars, ctxDone>>
    BY <1>3 DEF Loop, Goes, RunStep, RunStops, RunSubscribe, RunUnsubscribe, RunPublish, Deliver,
                FindFull, DropOldest, DeliverAgain, streamVars
  <2> QED BY <2>1
<1> QED BY <1>1, <1>2, <1>3

LEMMA NextCancelInv ==
    ASSUME ServerInv, [ServerNext]_svars
    PROVE  CancelInv'
<1> USE DEF ServerInv, CancelInv
<1>1. CASE LoadFails \/ ServerError \/ ShutdownTimeout
  BY <1>1 DEF LoadFails, ServerError, ShutdownTimeout, Returns
<1>2. CASE ShutdownDone
  <2>1. UNCHANGED <<pc, busy>> /\ InFlight = {}
    BY <1>2 DEF ShutdownDone, Returns, Cancel, streamVars
  <2>2. InFlight' = {}
    BY <2>1 DEF InFlight
  <2> QED BY <1>2, <2>2 DEF ShutdownDone, Returns
<1>3. CASE Wire \/ Start \/ Listen \/ BeginShutdown
  BY <1>3 DEF Wire, Start, Listen, BeginShutdown, vars
<1>4. CASE Exit
  <2>1. InFlight' = {}
    BY <1>4 DEF Exit, InFlight
  <2> QED BY <1>4, <2>1 DEF Exit
<1>5. CASE Http
  <2>1. ctxDone' = ctxDone /\ UNCHANGED lifeVars
    BY <1>5 DEF Http, DropFresh, StreamBegins, CallBegins, CallEnds, CallSubscribe, vars
  <2>2. ctxDone => InFlight' \subseteq InFlight
    BY <1>5 DEF Http, DropFresh, StreamBegins, CallBegins, CallEnds, Reads, InFlight, vars,
                streamVars
  <2> QED BY <2>1, <2>2 DEF lifeVars
<1>6. CASE \/ \E p \in Publishers : Informer(p) \/ Publisher(p)
           \/ \E s \in Streams : Stream(s)
           \/ Loop
  <2>1. /\ \A s \in Streams : pc[s] = "idle" => pc'[s] = "idle"
        /\ UNCHANGED <<serverVars, ctxDone>>
    BY <1>6, NoRequestStarts DEF IInv
  <2>2. InFlight' \subseteq InFlight
    BY <2>1 DEF InFlight, serverVars
  <2> QED BY <2>1, <2>2 DEF serverVars, lifeVars
<1>7. CASE UNCHANGED svars
  BY <1>7 DEF svars, serverVars, lifeVars, vars, streamVars, InFlight
<1> QED BY <1>1, <1>2, <1>3, <1>4, <1>5, <1>6, <1>7 DEF ServerNext, Life

LEMMA ServerInvariance == ServerSpec => []ServerInv
<1>1. ServerInit => ServerInv
  <2> SUFFICES ASSUME ServerInit PROVE ServerInv
    OBVIOUS
  <2>1. IInv
    BY InitTypeOK, InitRegistrationInv DEF ServerInit, IInv
  <2>2. ~ctxDone
    BY DEF ServerInit, Init
  <2> QED BY <2>1, <2>2 DEF ServerInit, ServerInv, ServerTypeOK, IInv, CancelInv
<1>2. ServerInv /\ [ServerNext]_svars => ServerInv'
  BY NextKeepsHub, NextServerTypeOK, NextCancelInv DEF ServerInv, IInv
<1> QED BY <1>1, <1>2, PTL DEF ServerSpec

\* The process keeps its types, for any number of streams, requests and publishers.
THEOREM ServerTypeCorrect == ServerSpec => []ServerTypeOK
<1>1. ServerInv => ServerTypeOK
  BY DEF ServerInv
<1> QED BY <1>1, ServerInvariance, PTL

\* The hub is there as long as a request is in flight, unless the server failed or
\* Shutdown gave up (main.go:62-63, 269-274).
THEOREM HubOutlives == ServerSpec => []HubOutlivesRequests
<1>1. ServerInv => HubOutlivesRequests
  BY DEF ServerInv, CancelInv, HubOutlivesRequests
<1> QED BY <1>1, ServerInvariance, PTL

\* What Subscribe and Unsubscribe promise holds in the process, too, with its
\* shutdown and its exit (hub.go:106-107, 122-123).
THEOREM ServerKeepsPromises == ServerSpec => [](StreamingIsRegistered /\ ReturnedIsDetached)
<1>1. IInv => StreamingIsRegistered /\ ReturnedIsDetached
  BY PromisesHold
<1>2. ServerInv => IInv
  BY DEF ServerInv
<1> QED BY <1>1, <1>2, ServerInvariance, PTL

=============================================================================
