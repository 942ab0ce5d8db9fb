--------------------------- MODULE HubHistoryProofs ---------------------------
(***************************************************************************)
(* Proofs about HubHistory, for any number of streams, publishers, topics  *)
(* and publications and any capacities: what may be missing from what a    *)
(* stream reads, and that the hub implements Feed.                         *)
(***************************************************************************)
EXTENDS HubHistory, HubProofs

(***************************************************************************)
(* The inductive invariant, on top of those of HubProofs.  The publications *)
(* that Run has taken out of the publish channel are the first Taken ones   *)
(* of the log; the channel holds the rest, in order.  Of those taken every  *)
(* event of a stream's topic is delivered or discarded, or it is the one    *)
(* that Run is delivering and the stream's turn is still to come.           *)
(***************************************************************************)
Taken == Len(log) - Len(publishQ)

HistoryTypeOK ==
    /\ log \in Seq(Topics)
    /\ received \in [Streams -> Seq(Events)]
    /\ since \in [Streams -> Nat]
    /\ dropped \in [Streams -> SUBSET Events]

QueueInv ==
    /\ Len(publishQ) <= Len(log)
    /\ \A k \in 1..Len(publishQ) :
        publishQ[k].event = Taken + k /\ publishQ[k].topic = log[Taken + k]

MsgInv ==
    hub \in {"send", "drop", "resend"} =>
        Taken > 0 /\ msg.event = Taken /\ msg.topic = log[Taken]

TableInv == \A s \in Streams, t \in Topics : s \in subscribers[t] => topicOf[s] = t

Ascending(q) == \A j, k \in 1..Len(q) : j < k => q[j] < q[k]
Handled(s) == {i \in Events : InSeq(i, Delivered(s)) \/ i \in dropped[s]}

\* The history of a stream since its last call of Subscribe.
StreamHistory(s) ==
    /\ pc[s] \in {"subscribing", "subscribeWait"} => received[s] = <<>>
    /\ Ascending(Delivered(s))
    /\ \A i \in Handled(s) :
        i \in 1..Taken /\ log[i] = topicOf[s] /\ (s \in targets => i < Taken)
    /\ \A i \in dropped[s] :
        /\ \A k \in 1..Len(buffer[s]) : i < buffer[s][k]
        /\ \E j \in i + 1 .. Len(log) : log[j] = topicOf[s]
    /\ pc[s] = "streaming" =>
        \A i \in since[s] + 1 .. Taken :
            log[i] = topicOf[s] => i \in Handled(s) \/ (s \in targets /\ i = Taken)

HistoryInv == QueueInv /\ MsgInv /\ TableInv /\ \A s \in Streams : StreamHistory(s)

HInv == IInv /\ BufferInv /\ HistoryTypeOK /\ HistoryInv

-----------------------------------------------------------------------------
(* Lemmas on sequences *)

\* Reading an element moves it from the channel to what has been read.
LEMMA ReadLemma ==
    ASSUME NEW S, NEW u \in Seq(S), NEW v \in Seq(S), v # <<>>
    PROVE  Append(u, Head(v)) \o Tail(v) = u \o v
<1>1. Head(v) = v[1] /\ Head(v) \in S /\ Tail(v) \in Seq(S) /\ Len(Tail(v)) = Len(v) - 1
      /\ \A i \in 1..Len(Tail(v)) : Tail(v)[i] = v[i + 1]
  BY TailLemma
<1>2. /\ Len(u) \in Nat /\ Len(v) \in Nat \ {0}
      /\ Append(u, Head(v)) \in Seq(S)
      /\ Len(Append(u, Head(v))) = Len(u) + 1
      /\ \A i \in 1..Len(u) : Append(u, Head(v))[i] = u[i]
      /\ Append(u, Head(v))[Len(u) + 1] = v[1]
  BY <1>1, LenProperties, AppendProperties
<1> DEFINE x == Append(u, Head(v)) \o Tail(v)
<1>3. x \in Seq(S) /\ u \o v \in Seq(S) /\ Len(x) = Len(u \o v) /\ Len(x) = Len(u) + Len(v)
  BY <1>1, <1>2, ConcatProperties
<1>4. ASSUME NEW i \in 1..Len(x) PROVE x[i] = (u \o v)[i]
  <2>1. (u \o v)[i] = IF i <= Len(u) THEN u[i] ELSE v[i - Len(u)]
    BY <1>3, ConcatProperties
  <2>2. x[i] = IF i <= Len(u) + 1 THEN Append(u, Head(v))[i] ELSE Tail(v)[i - (Len(u) + 1)]
    BY <1>1, <1>2, <1>3, ConcatProperties
  <2>3. CASE i <= Len(u)
    BY <2>1, <2>2, <2>3, <1>2
  <2>4. CASE i = Len(u) + 1
    BY <2>1, <2>2, <2>4, <1>2
  <2>5. CASE i > Len(u) + 1
    <3>1. i - (Len(u) + 1) \in 1..Len(Tail(v)) /\ (i - (Len(u) + 1)) + 1 = i - Len(u)
      BY <2>5, <1>1, <1>2, <1>3
    <3>2. Tail(v)[i - (Len(u) + 1)] = v[(i - (Len(u) + 1)) + 1]
      BY <1>1, <3>1
    <3> QED BY <3>1, <3>2, <2>1, <2>2, <2>5, <1>2
  <2> QED BY <2>3, <2>4, <2>5, <1>2
<1> QED BY <1>3, <1>4, SeqEqual

\* Sending an element puts it at the end of what is read and can be read.
LEMMA SendLemma ==
    ASSUME NEW u \in Seq(Nat), NEW v \in Seq(Nat), NEW e \in Nat
    PROVE  /\ \A i : InSeq(i, u \o Append(v, e)) <=> InSeq(i, u \o v) \/ i = e
           /\ Ascending(u \o v) /\ (\A i \in Nat : InSeq(i, u \o v) => i < e)
              => Ascending(u \o Append(v, e))
<1> DEFINE d == u \o v
           x == u \o Append(v, e)
<1>1. /\ Len(u) \in Nat /\ Len(v) \in Nat
      /\ Append(v, e) \in Seq(Nat) /\ Len(Append(v, e)) = Len(v) + 1
      /\ \A i \in 1..Len(v) : Append(v, e)[i] = v[i]
      /\ Append(v, e)[Len(v) + 1] = e
  BY LenProperties, AppendProperties
<1>2. /\ d \in Seq(Nat) /\ Len(d) = Len(u) + Len(v)
      /\ x \in Seq(Nat) /\ Len(x) = Len(d) + 1
  BY <1>1, ConcatProperties
<1>3. ASSUME NEW i \in 1..Len(d) PROVE x[i] = d[i] /\ d[i] \in Nat
  <2>1. d[i] = IF i <= Len(u) THEN u[i] ELSE v[i - Len(u)]
    BY <1>2, ConcatProperties
  <2>2. x[i] = IF i <= Len(u) THEN u[i] ELSE Append(v, e)[i - Len(u)]
    BY <1>1, <1>2, ConcatProperties
  <2>3. i > Len(u) => i - Len(u) \in 1..Len(v)
    BY <1>1, <1>2
  <2> QED BY <2>1, <2>2, <2>3, <1>1, <1>2, ElementOfSeq
<1>4. x[Len(d) + 1] = e
  <2>1. x[Len(d) + 1] = IF Len(d) + 1 <= Len(u) THEN u[Len(d) + 1]
                        ELSE Append(v, e)[(Len(d) + 1) - Len(u)]
    BY <1>1, <1>2, ConcatProperties
  <2>2. ~(Len(d) + 1 <= Len(u)) /\ (Len(d) + 1) - Len(u) = Len(v) + 1
    BY <1>1, <1>2
  <2> QED BY <2>1, <2>2, <1>1
<1>5. Len(d) \in Nat
  BY <1>1, <1>2
<1>6. \A i : InSeq(i, x) <=> InSeq(i, d) \/ i = e
  <2>1. ASSUME NEW i, InSeq(i, x), i # e PROVE InSeq(i, d)
    <3>1. PICK n \in 1..Len(x) : x[n] = i
      BY <2>1 DEF InSeq
    <3>2. n \in 1..Len(d)
      BY <1>2, <1>4, <1>5, <2>1, <3>1
    <3> QED BY <1>3, <3>1, <3>2 DEF InSeq
  <2>2. ASSUME NEW i, InSeq(i, d) PROVE InSeq(i, x)
    <3>1. PICK n \in 1..Len(d) : d[n] = i
      BY <2>2 DEF InSeq
    <3>2. n \in 1..Len(x)
      BY <1>2, <1>5
    <3> QED BY <1>3, <3>1, <3>2 DEF InSeq
  <2>3. InSeq(e, x)
    <3>1. Len(d) + 1 \in 1..Len(x)
      BY <1>2, <1>5
    <3> QED BY <1>4, <3>1 DEF InSeq
  <2> QED BY <2>1, <2>2, <2>3
<1>7. ASSUME Ascending(d), \A i \in Nat : InSeq(i, d) => i < e,
             NEW j \in 1..Len(x), NEW k \in 1..Len(x), j < k
      PROVE  x[j] < x[k]
  <2>1. j \in 1..Len(d)
    BY <1>2, <1>5, <1>7
  <2>2. CASE k \in 1..Len(d)
    BY <1>3, <1>7, <2>1, <2>2 DEF Ascending
  <2>3. CASE k = Len(d) + 1
    BY <1>3, <1>4, <1>7, <2>1, <2>3 DEF InSeq
  <2> QED BY <1>2, <1>5, <2>2, <2>3
<1> QED BY <1>6, <1>7 DEF Ascending

\* Discarding the first element of the channel.
LEMMA DropLemma ==
    ASSUME NEW u \in Seq(Nat), NEW v \in Seq(Nat), v # <<>>
    PROVE  /\ \A i : InSeq(i, u \o v) <=> InSeq(i, u \o Tail(v)) \/ i = Head(v)
           /\ Ascending(u \o v) =>
                /\ Ascending(u \o Tail(v))
                /\ \A k \in 1..Len(Tail(v)) : Head(v) < Tail(v)[k]
<1> DEFINE d == u \o v
           x == u \o Tail(v)
           old(i) == IF i <= Len(u) THEN i ELSE i + 1
<1>1. /\ Len(u) \in Nat /\ Len(v) \in Nat \ {0}
      /\ Tail(v) \in Seq(Nat) /\ Len(Tail(v)) = Len(v) - 1 /\ Head(v) = v[1]
      /\ \A i \in 1..Len(Tail(v)) : Tail(v)[i] = v[i + 1]
  BY TailLemma, LenProperties
<1>2. /\ d \in Seq(Nat) /\ Len(d) = Len(u) + Len(v)
      /\ x \in Seq(Nat) /\ Len(x) = Len(d) - 1
  BY <1>1, ConcatProperties
<1>3. ASSUME NEW i \in 1..Len(d)
      PROVE  d[i] = IF i <= Len(u) THEN u[i] ELSE v[i - Len(u)]
  BY <1>2, ConcatProperties
<1>4. ASSUME NEW i \in 1..Len(x) PROVE old(i) \in 1..Len(d) /\ x[i] = d[old(i)]
  <2>1. old(i) \in 1..Len(d)
    BY <1>1, <1>2
  <2>2. x[i] = IF i <= Len(u) THEN u[i] ELSE Tail(v)[i - Len(u)]
    BY <1>1, <1>2, ConcatProperties
  <2>3. CASE i <= Len(u)
    BY <2>1, <2>2, <2>3, <1>3, <1>1
  <2>4. CASE i > Len(u)
    <3>1. i - Len(u) \in 1..Len(Tail(v)) /\ (i - Len(u)) + 1 = (i + 1) - Len(u)
      BY <2>4, <1>1, <1>2
    <3>2. Tail(v)[i - Len(u)] = v[(i - Len(u)) + 1]
      BY <1>1, <3>1
    <3> QED BY <2>1, <2>2, <2>4, <3>1, <3>2, <1>3, <1>1
  <2> QED BY <2>3, <2>4, <1>1
<1>5. Len(u) + 1 \in 1..Len(d) /\ d[Len(u) + 1] = Head(v)
  <2>1. Len(u) + 1 \in 1..Len(d) /\ ~(Len(u) + 1 <= Len(u)) /\ (Len(u) + 1) - Len(u) = 1
    BY <1>1, <1>2
  <2> QED BY <2>1, <1>3, <1>1
<1>6. ASSUME NEW i \in 1..Len(d), i # Len(u) + 1
      PROVE  \E k \in 1..Len(x) : old(k) = i
  <2>1. CASE i <= Len(u)
    <3>1. i \in 1..Len(x) /\ old(i) = i
      BY <2>1, <1>1, <1>2
    <3> QED BY <3>1
  <2>2. CASE i > Len(u) + 1
    <3>1. i - 1 \in 1..Len(x) /\ old(i - 1) = i
      BY <2>2, <1>1, <1>2
    <3> QED BY <3>1
  <2> QED BY <2>1, <2>2, <1>1, <1>6
<1>7. \A i : InSeq(i, d) <=> InSeq(i, x) \/ i = Head(v)
  <2>1. ASSUME NEW i, InSeq(i, x) PROVE InSeq(i, d)
    BY <2>1, <1>4 DEF InSeq
  <2>2. InSeq(Head(v), d)
    BY <1>5 DEF InSeq
  <2>3. ASSUME NEW i, InSeq(i, d), i # Head(v) PROVE InSeq(i, x)
    <3>1. PICK n \in 1..Len(d) : d[n] = i
      BY <2>3 DEF InSeq
    <3>2. PICK k \in 1..Len(x) : old(k) = n
      BY <1>6, <1>5, <2>3, <3>1
    <3> QED BY <3>1, <3>2, <1>4 DEF InSeq
  <2> QED BY <2>1, <2>2, <2>3
<1>8. ASSUME Ascending(d), NEW j \in 1..Len(x), NEW k \in 1..Len(x), j < k
      PROVE  x[j] < x[k]
  <2>1. old(j) < old(k)
    BY <1>1, <1>2, <1>8
  <2> QED BY <1>4, <1>8, <2>1 DEF Ascending
<1>9. ASSUME Ascending(d), NEW k \in 1..Len(Tail(v)) PROVE Head(v) < Tail(v)[k]
  <2>1. /\ Len(u) + (k + 1) \in 1..Len(d) /\ ~(Len(u) + (k + 1) <= Len(u))
        /\ (Len(u) + (k + 1)) - Len(u) = k + 1
        /\ Len(u) + 1 < Len(u) + (k + 1)
    BY <1>1, <1>2
  <2>2. d[Len(u) + (k + 1)] = Tail(v)[k]
    BY <2>1, <1>3, <1>1
  <2> QED BY <2>1, <2>2, <1>5, <1>9 DEF Ascending
<1> QED BY <1>7, <1>8, <1>9 DEF Ascending

-----------------------------------------------------------------------------
(* Every step is one of the hub. *)

LEMMA HistoryStep ==
    ASSUME [HNext]_hvars
    PROVE  [Next]_vars
BY DEF HNext, HNextUp, HCallPublish, HSendPublish, HCallSubscribe, HSubscribeReturns, HReceive,
       HDropOldest, HOther, hvars, Next, NextUp, PublisherStep, StreamStep, StreamGoesOn, RunStep

LEMMA NextHubInv ==
    ASSUME IInv, BufferInv, [HNext]_hvars
    PROVE  IInv' /\ BufferInv'
BY HistoryStep, NextTypeOK, NextRegistrationInv, NextBufferInv DEF IInv, RegistrationInv

LEMMA Shape ==
    ASSUME TypeOK, HistoryTypeOK, QueueInv
    PROVE  /\ Len(log) \in Nat /\ Taken \in Nat /\ Taken <= Len(log)
           /\ \A s \in Streams :
                /\ buffer[s] \in Seq(Events) /\ buffer[s] \in Seq(Nat)
                /\ received[s] \in Seq(Events) /\ received[s] \in Seq(Nat)
                /\ \A i : InSeq(i, Delivered(s)) => i \in Events
                /\ Handled(s) \subseteq Nat
<1>1. Len(log) \in Nat /\ Len(publishQ) \in Nat
  BY LenProperties DEF TypeOK, HistoryTypeOK
<1>2. Taken \in Nat /\ Taken <= Len(log)
  BY <1>1 DEF QueueInv, Taken
<1>3. ASSUME NEW s \in Streams
      PROVE  /\ buffer[s] \in Seq(Events) /\ buffer[s] \in Seq(Nat)
             /\ received[s] \in Seq(Events) /\ received[s] \in Seq(Nat)
             /\ Delivered(s) \in Seq(Events)
  <2>1. buffer[s] \in Seq(Events) /\ received[s] \in Seq(Events)
    BY DEF TypeOK, HistoryTypeOK
  <2>2. Delivered(s) \in Seq(Events)
    BY <2>1, ConcatProperties DEF Delivered
  <2> QED BY <2>1, <2>2, SeqMonotonic, EventAssumption
<1>4. ASSUME NEW s \in Streams, NEW i, InSeq(i, Delivered(s)) PROVE i \in Events
  BY <1>3, <1>4, ElementOfSeq DEF InSeq
<1>5. \A s \in Streams : Handled(s) \subseteq Nat
  BY EventAssumption DEF Handled
<1> QED BY <1>1, <1>2, <1>3, <1>4, <1>5

LEMMA NextHistoryTypeOK ==
    ASSUME IInv, HistoryTypeOK, [HNext]_hvars
    PROVE  HistoryTypeOK'
<1> USE DEF IInv, HistoryTypeOK
<1>1. ASSUME NEW p \in Publishers, HSendPublish(p) PROVE HistoryTypeOK'
  <2>1. call[p] \in Topics
    BY <1>1 DEF HSendPublish, SendPublish, TypeOK
  <2> QED BY <1>1, <2>1, AppendProperties DEF HSendPublish
<1>2. ASSUME NEW s \in Streams, NEW t \in Topics, HCallSubscribe(s, t) PROVE HistoryTypeOK'
  <2>1. <<>> \in Seq(Events)
    BY EmptySeq
  <2> QED BY <1>2, <2>1 DEF HCallSubscribe
<1>3. ASSUME NEW s \in Streams, HSubscribeReturns(s) PROVE HistoryTypeOK'
  <2>1. Len(log) \in Nat
    BY LenProperties
  <2> QED BY <1>3, <2>1 DEF HSubscribeReturns
<1>4. ASSUME NEW s \in Streams, HReceive(s) PROVE HistoryTypeOK'
  <2>1. Append(received[s], Head(buffer[s])) \in Seq(Events)
    BY <1>4, HeadTailProperties, AppendProperties DEF HReceive, Receive, TypeOK
  <2> QED BY <1>4, <2>1 DEF HReceive
<1>5. CASE HDropOldest
  <2>1. cur \in Streams
    BY <1>5 DEF HDropOldest, DropOldest, RegistrationInv, LoopInv, TypeOK
  <2>2. buffer[cur] # <<>> => dropped[cur] \cup {Head(buffer[cur])} \in SUBSET Events
    BY <2>1, HeadTailProperties DEF TypeOK
  <2> QED BY <1>5, <2>1, <2>2 DEF HDropOldest
<1>6. CASE UNCHANGED history
  BY <1>6 DEF history
<1> QED BY <1>1, <1>2, <1>3, <1>4, <1>5, <1>6 DEF HNext, HNextUp, HCallPublish, HOther, hvars

-----------------------------------------------------------------------------
(* The publish channel and the log *)

LEMMA NextQueueInv ==
    ASSUME TypeOK, HistoryTypeOK, QueueInv, [HNext]_hvars
    PROVE  QueueInv'
<1>a. Len(log) \in Nat /\ Len(publishQ) \in Nat /\ Taken \in Nat
  BY Shape, LenProperties DEF TypeOK
<1>1. ASSUME NEW p \in Publishers, HSendPublish(p) PROVE QueueInv'
  <2> DEFINE m == [topic |-> call[p], event |-> Len(log) + 1]
  <2>1. call[p] \in Topics /\ m \in Message
    BY <1>1 DEF HSendPublish, SendPublish, TypeOK, Message
  <2>2. /\ log' = Append(log, call[p]) /\ publishQ' = Append(publishQ, m)
        /\ Len(log') = Len(log) + 1 /\ Len(publishQ') = Len(publishQ) + 1
        /\ \A i \in 1..Len(log) : log'[i] = log[i]
        /\ log'[Len(log) + 1] = call[p]
        /\ \A k \in 1..Len(publishQ) : publishQ'[k] = publishQ[k]
        /\ publishQ'[Len(publishQ) + 1] = m
    BY <1>1, <2>1, AppendProperties DEF HSendPublish, SendPublish, TypeOK, HistoryTypeOK
  <2>3. Taken' = Taken /\ Len(log) = Taken + Len(publishQ)
    BY <2>2, <1>a DEF Taken
  <2>4. ASSUME NEW k \in 1..Len(publishQ')
        PROVE  publishQ'[k].event = Taken + k /\ publishQ'[k].topic = log'[Taken + k]
    <3>1. CASE k \in 1..Len(publishQ)
      <4>1. Taken + k \in 1..Len(log)
        BY <3>1, <2>3, <1>a
      <4> QED BY <3>1, <4>1, <2>2 DEF QueueInv
    <3>2. CASE k = Len(publishQ) + 1
      <4>1. Taken + k = Len(log) + 1
        BY <3>2, <2>3, <1>a
      <4> QED BY <3>2, <4>1, <2>2
    <3>3. k \in 1..Len(publishQ) \/ k = Len(publishQ) + 1
      <4>1. Len(publishQ') = Len(publishQ) + 1
        BY <2>2
      <4> QED BY <4>1, <1>a
    <3> QED BY <3>1, <3>2, <3>3
  <2> QED BY <2>2, <2>3, <2>4, <1>a DEF QueueInv
<1>2. CASE RunPublish /\ UNCHANGED history
  <2>1. /\ publishQ' = Tail(publishQ) /\ log' = log
        /\ Len(publishQ') = Len(publishQ) - 1 /\ Len(publishQ) > 0
        /\ \A k \in 1..Len(publishQ') : publishQ'[k] = publishQ[k + 1]
    BY <1>2, <1>a, TailLemma DEF RunPublish, history, TypeOK
  <2>2. Taken' = Taken + 1
    <3>1. Len(log)' = Len(log) /\ Len(publishQ)' = Len(publishQ) - 1
      BY <2>1
    <3> QED BY <3>1, <1>a DEF Taken
  <2>3. ASSUME NEW k \in 1..Len(publishQ')
        PROVE  publishQ'[k].event = Taken' + k /\ publishQ'[k].topic = log'[Taken' + k]
    <3>1. k + 1 \in 1..Len(publishQ) /\ Taken' + k = Taken + (k + 1)
      BY <2>1, <2>2, <1>a
    <3> QED BY <3>1, <2>1 DEF QueueInv
  <2> QED BY <2>1, <2>3, <1>a DEF QueueInv
<1>3. CASE UNCHANGED <<log, publishQ>>
  BY <1>3 DEF QueueInv, Taken
<1> QED
  BY <1>1, <1>2, <1>3
     DEF HNext, HNextUp, HCallPublish, HCallSubscribe, HSubscribeReturns, HReceive, HDropOldest,
         HOther, CallPublish, CallSubscribe, SubscribeReturns, Receive, DropOldest, SendSubscribe,
         ClientGone, SendUnsubscribe, UnsubscribeReturns, Deliver, FindFull, RunSubscribe,
         RunUnsubscribe, DeliverAgain, Cancel, RunStops, queueVars, history, hvars, vars

\* Run takes the publication it delivers from the front of the publish channel.
LEMMA RunPublishLemma ==
    ASSUME TypeOK, HistoryTypeOK, QueueInv, RunPublish, UNCHANGED history
    PROVE  /\ Taken' = Taken + 1
           /\ Taken + 1 \in 1..Len(log)
           /\ Head(publishQ).event = Taken + 1
           /\ Head(publishQ).topic = log[Taken + 1]
           /\ log[Taken + 1] \in Topics
<1>1. /\ Head(publishQ) = publishQ[1] /\ Len(publishQ') = Len(publishQ) - 1
      /\ Len(publishQ) \in Nat \ {0} /\ Len(log) \in Nat
  BY TailLemma, LenProperties DEF RunPublish, TypeOK, HistoryTypeOK
<1>2. Len(log)' = Len(log) /\ Len(publishQ)' = Len(publishQ) - 1
  BY <1>1 DEF history
<1>3. Taken' = Taken + 1 /\ Taken + 1 \in 1..Len(log)
  BY <1>1, <1>2 DEF QueueInv, Taken
<1>4. Head(publishQ).event = Taken + 1 /\ Head(publishQ).topic = log[Taken + 1]
  BY <1>1 DEF QueueInv
<1>5. log[Taken + 1] \in Topics
  BY <1>3, ElementOfSeq DEF HistoryTypeOK
<1> QED BY <1>3, <1>4, <1>5

\* A new publication changes neither what Run has taken nor the log up to there.
LEMMA LogLemma ==
    ASSUME TypeOK, HistoryTypeOK, QueueInv, [HNext]_hvars
    PROVE  /\ Len(log') \in Nat /\ Len(log) <= Len(log')
           /\ \A i \in 1..Len(log) : log'[i] = log[i]
           /\ Taken' = Taken \/ (RunPublish /\ UNCHANGED history)
<1>a. Len(log) \in Nat /\ Len(publishQ) \in Nat
  BY LenProperties DEF TypeOK, HistoryTypeOK
<1>1. ASSUME NEW p \in Publishers, HSendPublish(p)
      PROVE  /\ Len(log') = Len(log) + 1 /\ Len(publishQ') = Len(publishQ) + 1
             /\ \A i \in 1..Len(log) : log'[i] = log[i]
  <2>1. call[p] \in Topics /\ [topic |-> call[p], event |-> Len(log) + 1] \in Message
    BY <1>1 DEF HSendPublish, SendPublish, TypeOK, Message
  <2> QED BY <1>1, <2>1, AppendProperties DEF HSendPublish, SendPublish, TypeOK, HistoryTypeOK
<1>2. (\E p \in Publishers : HSendPublish(p)) => Taken' = Taken
  <2>1. ASSUME Len(log') = Len(log) + 1, Len(publishQ') = Len(publishQ) + 1
        PROVE  Taken' = Taken
    BY <2>1, <1>a DEF Taken
  <2> QED BY <2>1, <1>1
<1>3. CASE UNCHANGED log
  BY <1>3, <1>a, <1>2
     DEF HNext, HNextUp, HCallPublish, HCallSubscribe, HSubscribeReturns, HReceive, HDropOldest,
         HOther, CallPublish, CallSubscribe, SubscribeReturns, Receive, DropOldest, SendSubscribe,
         ClientGone, SendUnsubscribe, UnsubscribeReturns, Deliver, FindFull, RunSubscribe,
         RunUnsubscribe, DeliverAgain, Cancel, RunStops, queueVars, history, hvars, vars, Taken
<1>4. CASE \E p \in Publishers : HSendPublish(p)
  BY <1>1, <1>2, <1>4, <1>a
<1> QED
  BY <1>3, <1>4 DEF HNext, HNextUp, HCallPublish, HCallSubscribe, HSubscribeReturns, HReceive,
                    HDropOldest, HOther, history, hvars

LEMMA NextMsgInv ==
    ASSUME IInv, HistoryTypeOK, QueueInv, MsgInv, [HNext]_hvars
    PROVE  MsgInv'
<1> USE DEF IInv, MsgInv
<1>1. CASE RunPublish /\ UNCHANGED history
  <2>1. log' = log /\ Taken \in Nat
    BY <1>1, Shape DEF history
  <2> QED BY <1>1, <2>1, RunPublishLemma DEF RunPublish
<1>2. CASE Taken' = Taken
  <2>1. Taken \in Nat /\ Taken <= Len(log) /\ Len(log) \in Nat
    BY Shape
  <2>2. Taken > 0 => log'[Taken] = log[Taken]
    BY <2>1, LogLemma
  <2>3. hub' \in {"send", "drop", "resend"}
        => \/ UNCHANGED msg /\ hub \in {"send", "drop", "resend"}
           \/ RunPublish /\ UNCHANGED history
    BY DEF HNext, HNextUp, HCallPublish, HSendPublish, HCallSubscribe, HSubscribeReturns, HReceive,
         HDropOldest, HOther, CallPublish, SendPublish, CallSubscribe, SubscribeReturns, Receive,
         DropOldest, SendSubscribe, ClientGone, SendUnsubscribe, UnsubscribeReturns, Deliver,
         FindFull, Served, RunSubscribe, RunUnsubscribe, DeliverAgain, Cancel, RunStops, runVars,
         hvars, vars
  <2> QED BY <1>1, <1>2, <2>1, <2>2, <2>3
<1> QED BY <1>1, <1>2, LogLemma

\* The table registers a stream under its own topic only.
LEMMA NextTableInv ==
    ASSUME IInv, TableInv, [Next]_vars
    PROVE  TableInv'
<1> USE DEF IInv, TableInv
<1>1. ASSUME NEW s \in Streams, NEW t \in Topics, CallSubscribe(s, t) PROVE TableInv'
  <2>1. Detached(s)
    BY <1>1 DEF CallSubscribe, RegistrationInv, StreamInv
  <2> QED BY <1>1, <2>1 DEF CallSubscribe, Detached, TypeOK
<1>2. CASE RunSubscribe
  <2> DEFINE s == Head(subscribeQ)
  <2>1. s \in Streams
    BY <1>2, HeadTailProperties DEF RunSubscribe, TypeOK
  <2> QED BY <1>2, <2>1 DEF RunSubscribe, streamVars, TypeOK
<1>3. CASE RunUnsubscribe
  <2>1. \A t \in Topics : subscribers'[t] \subseteq subscribers[t]
    BY <1>3 DEF RunUnsubscribe, TypeOK
  <2> QED BY <1>3, <2>1 DEF RunUnsubscribe, streamVars
<1>4. CASE UNCHANGED <<topicOf, subscribers>>
  BY <1>4
<1> QED
  BY <1>1, <1>2, <1>3, <1>4
     DEF Next, NextUp, PublisherStep, StreamStep, StreamGoesOn, RunStep, CallPublish, SendPublish,
         SendSubscribe, SubscribeReturns, Receive, ClientGone, SendUnsubscribe, UnsubscribeReturns,
         RunStops, RunPublish, Deliver, FindFull, DropOldest, DeliverAgain, Cancel, vars, streamVars

-----------------------------------------------------------------------------
(* The history of one stream *)

\* A step that does not move the stream's events.
LEMMA QuietHistory ==
    ASSUME TypeOK, HistoryTypeOK, QueueInv, NEW s \in Streams, StreamHistory(s),
           Taken' = Taken, Len(log') \in Nat, Len(log) <= Len(log'),
           \A i \in 1..Len(log) : log'[i] = log[i],
           buffer'[s] = buffer[s], received'[s] = received[s], dropped'[s] = dropped[s],
           topicOf'[s] = topicOf[s], s \in targets' <=> s \in targets,
           pc'[s] \in {"subscribing", "subscribeWait"} => pc[s] \in {"subscribing", "subscribeWait"},
           pc'[s] = "streaming" =>
                (pc[s] = "streaming" /\ since'[s] = since[s]) \/ since'[s] = Len(log)
    PROVE  StreamHistory(s)'
<1>1. /\ Len(log) \in Nat /\ Taken \in Nat /\ Taken <= Len(log) /\ Handled(s) \subseteq Nat
  BY Shape
<1>2. Delivered(s)' = Delivered(s)
  BY DEF Delivered
<1>3. Handled(s)' = Handled(s)
  BY <1>2 DEF Handled, InSeq
<1>4. Ascending(Delivered(s))'
  BY <1>2 DEF StreamHistory, Ascending
<1>5. ASSUME NEW i \in Handled(s)
      PROVE  i \in 1..Taken /\ log'[i] = topicOf[s] /\ (s \in targets => i < Taken)
  BY <1>1 DEF StreamHistory
<1>6. ASSUME NEW i \in dropped[s]
      PROVE  /\ \A k \in 1..Len(buffer[s]) : i < buffer[s][k]
             /\ \E j \in i + 1 .. Len(log') : log'[j] = topicOf[s]
  <2>1. i \in Handled(s) /\ i \in Nat
    BY <1>1 DEF Handled, HistoryTypeOK
  <2>2. PICK j \in i + 1 .. Len(log) : log[j] = topicOf[s]
    BY DEF StreamHistory
  <2>3. j \in 1..Len(log) /\ j \in i + 1 .. Len(log')
    BY <1>1, <2>1, <2>2
  <2> QED BY <2>2, <2>3 DEF StreamHistory
<1>7. ASSUME pc'[s] = "streaming", NEW i \in since'[s] + 1 .. Taken, log'[i] = topicOf[s]
      PROVE  i \in Handled(s) \/ (s \in targets /\ i = Taken)
  <2>1. since[s] \in Nat
    BY DEF HistoryTypeOK
  <2>2. CASE since'[s] = Len(log)
    BY <2>2, <1>1, <1>7
  <2>3. CASE pc[s] = "streaming" /\ since'[s] = since[s]
    BY <2>1, <2>3, <1>1, <1>7 DEF StreamHistory
  <2> QED BY <2>2, <2>3, <1>7
<1> QED BY <1>3, <1>4, <1>5, <1>6, <1>7 DEF StreamHistory

\* A new Subscribe starts afresh.
LEMMA SubscribeHistory ==
    ASSUME TypeOK, HistoryTypeOK, NEW s \in Streams, NEW t \in Topics, HCallSubscribe(s, t)
    PROVE  StreamHistory(s)'
<1>1. /\ received'[s] = <<>> /\ buffer'[s] = <<>> /\ dropped'[s] = {}
      /\ pc'[s] = "subscribing"
  BY DEF HCallSubscribe, CallSubscribe, TypeOK, HistoryTypeOK
<1>2. Delivered(s)' = <<>> /\ Len(<<>>) = 0
  BY <1>1, EmptySeq, ConcatEmptySeq DEF Delivered
<1>3. Handled(s)' = {}
  BY <1>1, <1>2 DEF Handled, InSeq
<1>4. Ascending(Delivered(s))'
  BY <1>2 DEF Ascending
<1> QED BY <1>1, <1>3, <1>4 DEF StreamHistory

LEMMA ReceiveHistory ==
    ASSUME TypeOK, HistoryTypeOK, QueueInv, NEW s \in Streams, StreamHistory(s), HReceive(s)
    PROVE  StreamHistory(s)'
<1>1. /\ buffer[s] # <<>> /\ buffer'[s] = Tail(buffer[s])
      /\ received'[s] = Append(received[s], Head(buffer[s]))
      /\ UNCHANGED <<pc, topicOf, dropped, since, targets, log, publishQ>>
      /\ pc[s] = "streaming"
  BY DEF HReceive, Receive, streamVars, queueVars, runVars, TypeOK, HistoryTypeOK
<1>2. Delivered(s)' = Delivered(s)
  BY <1>1, Shape, ReadLemma DEF Delivered
<1>3. Handled(s)' = Handled(s) /\ Taken' = Taken
  BY <1>1, <1>2 DEF Handled, InSeq, Taken
<1>4. Ascending(Delivered(s))'
  BY <1>2 DEF StreamHistory, Ascending
<1>5. ASSUME NEW i \in dropped[s], NEW k \in 1..Len(buffer'[s]) PROVE i < buffer'[s][k]
  <2>1. buffer'[s][k] = buffer[s][k + 1] /\ k + 1 \in 1..Len(buffer[s])
    <3>1. /\ Len(Tail(buffer[s])) = Len(buffer[s]) - 1 /\ Len(buffer[s]) \in Nat
          /\ \A j \in 1..Len(Tail(buffer[s])) : Tail(buffer[s])[j] = buffer[s][j + 1]
      BY <1>1, Shape, TailLemma, LenProperties
    <3> QED BY <3>1, <1>1
  <2> QED BY <2>1 DEF StreamHistory
<1> QED BY <1>1, <1>3, <1>4, <1>5 DEF StreamHistory

\* Run takes the next publication: it owes the event to the streams of its topic.
LEMMA PublishHistory ==
    ASSUME IInv, HistoryTypeOK, QueueInv, NEW s \in Streams, StreamHistory(s),
           RunPublish, UNCHANGED history
    PROVE  StreamHistory(s)'
<1>1. /\ targets = {} /\ targets' = subscribers[Head(publishQ).topic]
      /\ UNCHANGED <<pc, topicOf, buffer, received, since, dropped, log>>
  BY DEF RunPublish, IInv, RegistrationInv, LoopInv, history, streamVars
<1>2. /\ Taken' = Taken + 1 /\ Taken + 1 \in 1..Len(log)
      /\ Head(publishQ).topic = log[Taken + 1] /\ log[Taken + 1] \in Topics
  BY RunPublishLemma DEF IInv
<1>3. Len(log) \in Nat /\ Taken \in Nat /\ Handled(s) \subseteq Nat /\ since[s] \in Nat
  BY Shape DEF IInv, HistoryTypeOK
<1>4. Handled(s)' = Handled(s) /\ Delivered(s)' = Delivered(s)
  BY <1>1 DEF Handled, InSeq, Delivered
<1>5. Ascending(Delivered(s))'
  BY <1>4 DEF StreamHistory, Ascending
<1>6. ASSUME NEW i \in Handled(s)
      PROVE  i \in 1..Taken' /\ log[i] = topicOf[s] /\ i < Taken'
  BY <1>2, <1>3 DEF StreamHistory
<1>7. ASSUME pc[s] = "streaming", NEW i \in since[s] + 1 .. Taken', log[i] = topicOf[s]
      PROVE  i \in Handled(s) \/ (s \in targets' /\ i = Taken')
  <2>1. CASE i \in since[s] + 1 .. Taken
    BY <2>1, <1>1, <1>7 DEF StreamHistory
  <2>2. CASE i = Taken + 1
    <3>1. s \in subscribers[log[Taken + 1]]
      BY <2>2, <1>2, <1>7 DEF IInv, RegistrationInv, StreamInv, RegisteredOnce
    <3> QED BY <3>1, <2>2, <1>1, <1>2
  <2> QED BY <2>1, <2>2, <1>2, <1>3
<1> QED BY <1>1, <1>4, <1>5, <1>6, <1>7 DEF StreamHistory

\* Run sends the event to a stream whose turn it is.
LEMMA SendHistory ==
    ASSUME IInv, HistoryTypeOK, QueueInv, MsgInv, TableInv, NEW s \in Streams, StreamHistory(s),
           hub \in {"send", "resend"}, s \in targets, s \notin targets',
           buffer'[s] = Append(buffer[s], msg.event),
           UNCHANGED <<pc, topicOf, received, since, dropped, log, publishQ>>
    PROVE  StreamHistory(s)'
<1> USE DEF IInv
<1>1. /\ msg.event = Taken /\ Taken > 0 /\ msg.topic = log[Taken]
      /\ msg \in Message /\ s \in subscribers[msg.topic]
  BY DEF MsgInv, RegistrationInv, LoopInv
<1>2. /\ Taken \in Events /\ log[Taken] = topicOf[s]
      /\ Taken \in 1..Len(log) /\ Taken \in Nat /\ Len(log) \in Nat
      /\ Handled(s) \subseteq Nat /\ since[s] \in Nat /\ Taken' = Taken
      /\ buffer[s] \in Seq(Nat) /\ received[s] \in Seq(Nat)
  BY <1>1, Shape DEF Message, TableInv, Taken, HistoryTypeOK
<1>3. /\ \A i : InSeq(i, Delivered(s)') <=> InSeq(i, Delivered(s)) \/ i = Taken
      /\ Ascending(Delivered(s)')
  <2>1. Delivered(s)' = received[s] \o Append(buffer[s], Taken)
    BY <1>1 DEF Delivered
  <2>2. \A i \in Nat : InSeq(i, received[s] \o buffer[s]) => i < Taken
    <3>1. \A i : InSeq(i, Delivered(s)) => i \in Handled(s)
      BY Shape DEF Handled
    <3>2. \A i \in Handled(s) : i < Taken
      BY DEF StreamHistory
    <3> QED BY <3>1, <3>2 DEF Delivered
  <2>3. Ascending(received[s] \o buffer[s])
    BY DEF StreamHistory, Delivered
  <2>4. /\ \A i : InSeq(i, received[s] \o Append(buffer[s], Taken))
               <=> InSeq(i, received[s] \o buffer[s]) \/ i = Taken
        /\ Ascending(received[s] \o Append(buffer[s], Taken))
    BY <1>2, <2>2, <2>3, SendLemma
  <2> QED BY <2>1, <2>4 DEF Delivered
<1>4. Handled(s)' = Handled(s) \cup {Taken}
  <2>1. Handled(s)' = {i \in Events : InSeq(i, Delivered(s)') \/ i \in dropped[s]}
    BY DEF Handled, InSeq
  <2> QED BY <1>2, <1>3, <2>1 DEF Handled
<1>5. ASSUME NEW i \in dropped[s], NEW k \in 1..Len(buffer'[s]) PROVE i < buffer'[s][k]
  <2>1. i \in Handled(s) /\ i < Taken
    BY DEF Handled, HistoryTypeOK, StreamHistory
  <2>2. /\ Len(buffer'[s]) = Len(buffer[s]) + 1 /\ Len(buffer[s]) \in Nat
        /\ \A j \in 1..Len(buffer[s]) : buffer'[s][j] = buffer[s][j]
        /\ buffer'[s][Len(buffer[s]) + 1] = Taken
    BY <1>1, <1>2, AppendProperties, LenProperties
  <2>3. k \in 1..Len(buffer[s]) \/ k = Len(buffer[s]) + 1
    BY <2>2
  <2> QED BY <2>1, <2>2, <2>3 DEF StreamHistory
<1>6. Ascending(Delivered(s))'
  BY <1>3 DEF Ascending
<1>7. ASSUME pc[s] = "streaming", NEW i \in since[s] + 1 .. Taken, log[i] = topicOf[s]
      PROVE  i \in Handled(s) \cup {Taken}
  BY <1>7 DEF StreamHistory
<1>8. pc[s] \in {"subscribing", "subscribeWait"} => received[s] = <<>>
  BY DEF StreamHistory
<1>9. \A i \in Handled(s) \cup {Taken} : i \in 1..Taken /\ log[i] = topicOf[s]
  BY <1>1, <1>2 DEF StreamHistory
<1>10. \A i \in dropped[s] : \E j \in i + 1 .. Len(log) : log[j] = topicOf[s]
  BY DEF StreamHistory
<1> QED BY <1>2, <1>4, <1>5, <1>6, <1>7, <1>8, <1>9, <1>10 DEF StreamHistory

\* Run discards the oldest event of a channel it is about to send a newer one to.
LEMMA DropHistory ==
    ASSUME IInv, HistoryTypeOK, QueueInv, MsgInv, TableInv, NEW s \in Streams, StreamHistory(s),
           HDropOldest, cur = s, buffer[s] # <<>>
    PROVE  StreamHistory(s)'
<1> USE DEF IInv
<1> DEFINE e == Head(buffer[s])
<1>0. s \in targets /\ hub = "drop"
  BY DEF HDropOldest, DropOldest, RegistrationInv, LoopInv, TypeOK
<1>1. /\ buffer'[s] = Tail(buffer[s]) /\ dropped'[s] = dropped[s] \cup {e}
      /\ UNCHANGED <<pc, topicOf, received, since, log, publishQ, targets>>
  BY <1>0 DEF HDropOldest, DropOldest, streamVars, queueVars, TypeOK, HistoryTypeOK
<1>2. /\ msg.event = Taken /\ Taken > 0 /\ msg.topic = log[Taken]
      /\ msg \in Message /\ s \in subscribers[msg.topic]
  BY <1>0 DEF MsgInv, RegistrationInv, LoopInv
<1>3. /\ log[Taken] = topicOf[s] /\ Taken <= Len(log) /\ Taken \in Nat /\ Len(log) \in Nat
      /\ Taken' = Taken /\ Handled(s) \subseteq Nat
      /\ buffer[s] \in Seq(Nat) /\ received[s] \in Seq(Nat)
  BY <1>0, <1>1, <1>2, Shape DEF Message, TableInv, Taken
<1>4. /\ \A i : InSeq(i, Delivered(s)) <=> InSeq(i, received[s] \o Tail(buffer[s])) \/ i = e
      /\ Ascending(received[s] \o Tail(buffer[s]))
      /\ \A k \in 1..Len(Tail(buffer[s])) : e < Tail(buffer[s])[k]
  BY <1>3, DropLemma DEF Delivered, StreamHistory
<1>5. Delivered(s)' = received[s] \o Tail(buffer[s])
  BY <1>1 DEF Delivered
<1>6. e \in Events /\ e \in Handled(s)
  BY <1>0, <1>4, Shape DEF Handled
<1>7. Handled(s)' = Handled(s)
  <2>1. Handled(s)' = {i \in Events : InSeq(i, received[s] \o Tail(buffer[s]))
                                       \/ i \in dropped[s] \cup {e}}
    BY <1>1, <1>5 DEF Handled, InSeq
  <2> QED BY <1>4, <1>6, <2>1 DEF Handled
<1>8. Ascending(Delivered(s))'
  BY <1>4, <1>5 DEF Ascending
<1>9. ASSUME NEW i \in dropped'[s]
      PROVE  /\ \A k \in 1..Len(buffer'[s]) : i < buffer'[s][k]
             /\ \E j \in i + 1 .. Len(log) : log[j] = topicOf[s]
  <2>1. CASE i = e
    <3>1. e < Taken /\ e \in Nat
      BY <1>0, <1>3, <1>6 DEF StreamHistory
    <3>2. Taken \in e + 1 .. Len(log)
      BY <3>1, <1>3
    <3> QED BY <2>1, <3>2, <1>1, <1>3, <1>4
  <2>2. CASE i \in dropped[s]
    <3>1. /\ Len(Tail(buffer[s])) = Len(buffer[s]) - 1 /\ Len(buffer[s]) \in Nat
          /\ \A j \in 1..Len(Tail(buffer[s])) : Tail(buffer[s])[j] = buffer[s][j + 1]
      BY <1>3, TailLemma, LenProperties
    <3>2. ASSUME NEW k \in 1..Len(Tail(buffer[s])) PROVE i < Tail(buffer[s])[k]
      <4>1. k + 1 \in 1..Len(buffer[s])
        BY <3>1
      <4> QED BY <4>1, <3>1, <2>2 DEF StreamHistory
    <3> QED BY <3>2, <2>2, <1>1 DEF StreamHistory
  <2> QED BY <2>1, <2>2, <1>1
<1> QED BY <1>1, <1>3, <1>7, <1>8, <1>9 DEF StreamHistory

-----------------------------------------------------------------------------
(* The invariant *)

\* A stream that is not the one a step serves keeps its history.
LEMMA NextStreamHistory ==
    ASSUME HInv, [HNext]_hvars, NEW s \in Streams
    PROVE  StreamHistory(s)'
<1> USE DEF HInv, IInv, HistoryInv
<1>0. StreamHistory(s)
  OBVIOUS
<1>1. ASSUME NEW t \in Topics, HCallSubscribe(s, t) PROVE StreamHistory(s)'
  BY <1>1, SubscribeHistory
<1>2. CASE HReceive(s)
  BY <1>2, ReceiveHistory
<1>3. CASE RunPublish /\ UNCHANGED history
  BY <1>3, PublishHistory
<1>4. CASE Deliver(s) /\ UNCHANGED history
  <2>1. /\ hub = "send" /\ s \in targets /\ s \notin targets'
        /\ buffer'[s] = Append(buffer[s], msg.event)
        /\ UNCHANGED <<pc, topicOf, received, since, dropped, log, publishQ>>
    BY <1>4 DEF Deliver, Served, history, streamVars, queueVars, TypeOK
  <2> QED BY <2>1, SendHistory
<1>5. CASE DeliverAgain /\ UNCHANGED history /\ cur = s
  <2>1. /\ hub = "resend" /\ s \in targets /\ s \notin targets'
        /\ buffer'[s] = Append(buffer[s], msg.event)
        /\ UNCHANGED <<pc, topicOf, received, since, dropped, log, publishQ>>
    BY <1>5 DEF DeliverAgain, Served, history, streamVars, queueVars, TypeOK, BufferInv,
                ResendHasRoom, RegistrationInv, LoopInv
  <2> QED BY <2>1, SendHistory
<1>6. CASE HDropOldest /\ cur = s /\ buffer[cur] # <<>>
  BY <1>6, DropHistory
<1>7. /\ Len(log') \in Nat /\ Len(log) <= Len(log')
      /\ \A i \in 1..Len(log) : log'[i] = log[i]
      /\ Taken' = Taken \/ (RunPublish /\ UNCHANGED history)
  BY LogLemma
<1>8. CASE /\ buffer'[s] = buffer[s] /\ received'[s] = received[s] /\ dropped'[s] = dropped[s]
           /\ topicOf'[s] = topicOf[s] /\ (s \in targets' <=> s \in targets)
           /\ pc'[s] \in {"subscribing", "subscribeWait"}
              => pc[s] \in {"subscribing", "subscribeWait"}
           /\ pc'[s] = "streaming" =>
                (pc[s] = "streaming" /\ since'[s] = since[s]) \/ since'[s] = Len(log)
  BY <1>0, <1>3, <1>7, <1>8, QuietHistory
<1>9. ASSUME NEW x \in Streams, x # s,
             \/ \E t \in Topics : HCallSubscribe(x, t)
             \/ HSubscribeReturns(x)
             \/ HReceive(x)
             \/ Deliver(x) /\ UNCHANGED history
      PROVE  StreamHistory(s)'
  BY <1>8, <1>9 DEF HCallSubscribe, HSubscribeReturns, HReceive, CallSubscribe, SubscribeReturns,
                    Receive, Deliver, Served, streamVars, runVars, history, TypeOK, HistoryTypeOK
<1>10. CASE HSubscribeReturns(s)
  BY <1>8, <1>10 DEF HSubscribeReturns, SubscribeReturns, runVars, TypeOK, HistoryTypeOK
<1>11. CASE \/ DeliverAgain /\ UNCHANGED history /\ cur # s
            \/ HDropOldest /\ ~(cur = s /\ buffer[cur] # <<>>)
  BY <1>8, <1>11 DEF DeliverAgain, HDropOldest, DropOldest, Served, streamVars, history, TypeOK,
                     HistoryTypeOK
<1>12. ASSUME UNCHANGED history,
              \/ \E x \in Streams : \/ SendSubscribe(x)
                                   \/ ClientGone(x)
                                   \/ SendUnsubscribe(x)
                                   \/ UnsubscribeReturns(x)
       PROVE  StreamHistory(s)'
  BY <1>8, <1>12 DEF SendSubscribe, ClientGone, SendUnsubscribe, UnsubscribeReturns, runVars,
                     history, TypeOK
<1>13. CASE UNCHANGED <<pc, topicOf, buffer, targets, received, since, dropped>>
  BY <1>8, <1>13
<1>14. ASSUME \/ \E p \in Publishers : \/ \E t \in Topics : HCallPublish(p, t)
                                       \/ HSendPublish(p)
              \/ /\ UNCHANGED history
                 /\ \/ \E x \in Streams : FindFull(x)
                    \/ RunSubscribe \/ RunUnsubscribe \/ Cancel \/ RunStops
              \/ UNCHANGED hvars
       PROVE  StreamHistory(s)'
  BY <1>13, <1>14 DEF HCallPublish, HSendPublish, CallPublish, SendPublish, FindFull, RunSubscribe,
                      RunUnsubscribe, Cancel, RunStops, streamVars, runVars, history, hvars, vars
<1> QED
  BY <1>1, <1>2, <1>3, <1>4, <1>5, <1>6, <1>9, <1>10, <1>11, <1>12, <1>14 DEF HNext, HNextUp, HOther

LEMMA HistoryInvariance == HSpec => []HInv
<1>1. HInit => HInv
  <2> SUFFICES ASSUME HInit PROVE HInv
    OBVIOUS
  <2>1. IInv
    BY InitTypeOK, InitRegistrationInv DEF HInit, IInv
  <2>2. BufferInv
    BY CapAssumption DEF HInit, Init, BufferInv, Bounded, ResendHasRoom
  <2>3. HistoryTypeOK /\ Len(<<>>) = 0
    BY EmptySeq DEF HInit, HistoryTypeOK
  <2>4. QueueInv /\ MsgInv /\ TableInv
    BY <2>3 DEF HInit, Init, QueueInv, MsgInv, TableInv, Taken
  <2>5. ASSUME NEW s \in Streams PROVE StreamHistory(s)
    <3>1. Delivered(s) = <<>> /\ dropped[s] = {} /\ received[s] = <<>> /\ pc[s] = "idle"
      BY EmptySeq, ConcatEmptySeq DEF HInit, Init, Delivered
    <3>2. Handled(s) = {}
      BY <2>3, <3>1 DEF Handled, InSeq
    <3> QED BY <2>3, <3>1, <3>2 DEF StreamHistory, Ascending
  <2> QED BY <2>1, <2>2, <2>3, <2>4, <2>5 DEF HInv, HistoryInv
<1>2. HInv /\ [HNext]_hvars => HInv'
  <2> SUFFICES ASSUME HInv, [HNext]_hvars PROVE HInv'
    OBVIOUS
  <2>1. IInv' /\ BufferInv' /\ HistoryTypeOK'
    BY NextHubInv, NextHistoryTypeOK DEF HInv
  <2>2. QueueInv' /\ MsgInv' /\ TableInv'
    BY NextQueueInv, NextMsgInv, NextTableInv, HistoryStep DEF HInv, HistoryInv, IInv
  <2>3. \A s \in Streams : StreamHistory(s)'
    BY NextStreamHistory
  <2> QED BY <2>1, <2>2, <2>3 DEF HInv, HistoryInv
<1> QED BY <1>1, <1>2, PTL DEF HSpec

-----------------------------------------------------------------------------
(* What Publish promises a stream *)

\* Once Subscribe has returned no event of the stream's topic is lost, except for
\* those that deliverDropOldest discards (hub.go:107, 130-134).
THEOREM NothingLost == HSpec => []NothingLostSilently
<1>1. ASSUME HInv, NEW s \in Streams, pc[s] = "streaming",
             NEW i \in since[s] + 1 .. Len(log), log[i] = topicOf[s]
      PROVE  Whereabouts(s, i)
  <2> USE <1>1 DEF HInv, HistoryInv, IInv
  <2>1. /\ Len(log) \in Nat /\ Taken \in Nat /\ since[s] \in Nat /\ Len(publishQ) \in Nat
    BY Shape, LenProperties DEF HistoryTypeOK, TypeOK
  <2>2. CASE i \in since[s] + 1 .. Taken
    <3>1. i \in Handled(s) \/ (s \in targets /\ i = Taken)
      BY <1>1, <2>2 DEF StreamHistory
    <3>2. s \in targets => msg.event = Taken
      BY DEF MsgInv, RegistrationInv, LoopInv, TypeOK, Phases
    <3> QED BY <3>1, <3>2 DEF Whereabouts, OnItsWay, Handled
  <2>3. CASE i > Taken
    <3>1. i - Taken \in 1..Len(publishQ) /\ Taken + (i - Taken) = i
      BY <2>1, <2>3 DEF Taken
    <3>2. publishQ[i - Taken].event = i
      BY <3>1 DEF QueueInv
    <3> QED BY <3>1, <3>2 DEF Whereabouts, OnItsWay
  <2> QED BY <2>1, <2>2, <2>3
<1>2. HInv => NothingLostSilently
  BY <1>1 DEF NothingLostSilently
<1> QED BY <1>2, HistoryInvariance, PTL

\* What is discarded is older than all that the stream can still read (hub.go:131).
THEOREM OldestFirst == HSpec => []DropsOldestFirst
<1>1. HInv => DropsOldestFirst
  BY DEF HInv, HistoryInv, StreamHistory, DropsOldestFirst
<1> QED BY <1>1, HistoryInvariance, PTL

\* The last event of its topic is never discarded: a stream that reads on gets it.
THEOREM NewestKept == HSpec => []NewestIsKept
<1>1. ASSUME HInv, NothingLostSilently, NEW s \in Streams, pc[s] = "streaming",
             NEW i \in since[s] + 1 .. Len(log), log[i] = topicOf[s],
             \A j \in i + 1 .. Len(log) : log[j] # topicOf[s]
      PROVE  OnItsWay(s, i) \/ InSeq(i, Delivered(s))
  <2>1. i \notin dropped[s]
    BY <1>1 DEF HInv, HistoryInv, StreamHistory
  <2> QED BY <1>1, <2>1 DEF NothingLostSilently, Whereabouts
<1>2. HInv /\ NothingLostSilently => NewestIsKept
  BY <1>1 DEF NewestIsKept
<1> QED BY <1>2, HistoryInvariance, NothingLost, PTL

-----------------------------------------------------------------------------
(* The hub implements the feed *)

LEMMA InitFeed ==
    ASSUME HInit
    PROVE  F!Init
BY DEF HInit, Init, F!Init, Open

\* A step that leaves a stream outside its loop is a stutter of the feed.
LEMMA StutterFeed ==
    ASSUME log' = log,
           \A s \in Streams :
                /\ Open(s)' <=> Open(s)
                /\ Open(s) => /\ topicOf'[s] = topicOf[s]
                              /\ since'[s] = since[s]
                              /\ received'[s] = received[s]
    PROVE  UNCHANGED F!vars
BY DEF F!vars

LEMMA PublishFeed ==
    ASSUME TypeOK, NEW p \in Publishers, HSendPublish(p)
    PROVE  F!Next
<1>1. call[p] \in Topics
  BY DEF HSendPublish, SendPublish, TypeOK
<1>2. F!Publish(call[p])
  BY DEF HSendPublish, SendPublish, F!Publish, Open, streamVars
<1> QED BY <1>1, <1>2 DEF F!Next

LEMMA OpenFeed ==
    ASSUME HInv, NEW s \in Streams, HSubscribeReturns(s)
    PROVE  F!Next
<1> USE DEF HInv, IInv
<1>1. /\ ~Open(s) /\ topicOf[s] \in Topics /\ received[s] = <<>>
      /\ pc' = [pc EXCEPT ![s] = "streaming"] /\ since' = [since EXCEPT ![s] = Len(log)]
      /\ UNCHANGED <<topicOf, received, log>>
  BY DEF HSubscribeReturns, SubscribeReturns, RegistrationInv, StreamInv, HistoryInv,
         StreamHistory, Open
<1>2. PICK t \in Topics : t = topicOf[s]
  BY <1>1
<1>3. F!Open(s, t)
  BY <1>1, <1>2 DEF F!Open, Open, TypeOK, HistoryTypeOK
<1> QED BY <1>3 DEF F!Next

LEMMA SeeFeed ==
    ASSUME HInv, NEW s \in Streams, HReceive(s)
    PROVE  F!Next
<1> USE DEF HInv, IInv
<1> DEFINE e == Head(buffer[s])
<1>1. /\ Open(s) /\ buffer[s] # <<>> /\ topicOf[s] \in Topics
      /\ received' = [received EXCEPT ![s] = Append(@, e)]
      /\ UNCHANGED <<pc, topicOf, since, log>>
  BY DEF HReceive, Receive, streamVars, RegistrationInv, StreamInv, Open
<1>2. /\ received[s] \in Seq(Nat) /\ buffer[s] \in Seq(Nat) /\ buffer[s] \in Seq(Events)
      /\ Len(log) \in Nat /\ Taken \in Nat /\ Taken <= Len(log)
  BY Shape DEF HistoryInv
<1>3. e \in Handled(s) /\ \A k \in 1..Len(received[s]) : received[s][k] < e
  <2> DEFINE n == Len(received[s]) + 1
  <2>1. /\ e = buffer[s][1] /\ e \in Events
        /\ Len(received[s]) \in Nat /\ Len(buffer[s]) \in Nat \ {0}
    BY <1>1, <1>2, TailLemma, LenProperties
  <2>2. /\ Len(Delivered(s)) = Len(received[s]) + Len(buffer[s])
        /\ \A i \in 1 .. Len(received[s]) + Len(buffer[s]) :
            Delivered(s)[i] = IF i <= Len(received[s]) THEN received[s][i]
                              ELSE buffer[s][i - Len(received[s])]
    BY <1>2, ConcatProperties DEF Delivered
  <2>3. n \in 1..Len(Delivered(s)) /\ Delivered(s)[n] = e
    <3>1. n \in 1..(Len(received[s]) + Len(buffer[s])) /\ ~(n <= Len(received[s]))
          /\ n - Len(received[s]) = 1
      <4>1. \A a \in Nat, b \in Nat \ {0} :
                a + 1 \in 1..(a + b) /\ ~(a + 1 <= a) /\ (a + 1) - a = 1
        OBVIOUS
      <4> QED BY <4>1, <2>1
    <3> QED BY <3>1, <2>1, <2>2
  <2>4. ASSUME NEW k \in 1..Len(received[s]) PROVE received[s][k] < e
    <3>1. k \in 1..(Len(received[s]) + Len(buffer[s])) /\ k < n /\ k <= Len(received[s])
      <4>1. \A a, b \in Nat : \A j \in 1..a : j \in 1..(a + b) /\ j < a + 1 /\ j <= a
        OBVIOUS
      <4> QED BY <4>1, <2>1, <2>4
    <3> QED BY <3>1, <2>2, <2>3 DEF HistoryInv, StreamHistory, Ascending
  <2> QED BY <2>1, <2>3, <2>4 DEF Handled, InSeq
<1>4. e \in 1..Len(log) /\ log[e] = topicOf[s]
  BY <1>2, <1>3 DEF HistoryInv, StreamHistory
<1>5. topicOf[s] # None
  BY <1>1, NoneAssumption
<1>6. PICK i \in 1..Len(log) : i = e
  BY <1>4
<1>7. F!See(s, i)
  BY <1>1, <1>3, <1>4, <1>5, <1>6 DEF F!See, Open, HistoryTypeOK
<1> QED BY <1>7 DEF F!Next

LEMMA CloseFeed ==
    ASSUME HInv, NEW s \in Streams, ClientGone(s), UNCHANGED history
    PROVE  F!Next
<1> USE DEF HInv, IInv
<1>1. /\ Open(s) /\ topicOf[s] \in Topics
      /\ pc' = [pc EXCEPT ![s] = "leaving"]
      /\ UNCHANGED <<topicOf, since, received, log>>
  BY DEF ClientGone, RegistrationInv, StreamInv, Open, history
<1>2. F!Close(s)
  BY <1>1, NoneAssumption DEF F!Close, Open, TypeOK
<1> QED BY <1>2 DEF F!Next

LEMMA StepFeed ==
    ASSUME HInv, [HNext]_hvars
    PROVE  [F!Next]_F!vars
<1> USE DEF HInv, IInv
<1>1. ASSUME NEW s \in Streams, NEW t \in Topics, HCallSubscribe(s, t) PROVE UNCHANGED F!vars
  BY <1>1, StutterFeed DEF HCallSubscribe, CallSubscribe, Open, TypeOK, HistoryTypeOK
<1>2. ASSUME NEW s \in Streams, UNCHANGED history,
             SendSubscribe(s) \/ SendUnsubscribe(s) \/ UnsubscribeReturns(s)
      PROVE  UNCHANGED F!vars
  BY <1>2, StutterFeed DEF SendSubscribe, SendUnsubscribe, UnsubscribeReturns, history, Open, TypeOK
<1>3. CASE UNCHANGED <<log, pc, topicOf, since, received>>
  BY <1>3, StutterFeed DEF Open
<1>4. ASSUME \/ \E p \in Publishers, t \in Topics : HCallPublish(p, t)
             \/ HDropOldest
             \/ /\ UNCHANGED history
                /\ \/ \E s \in Streams : Deliver(s) \/ FindFull(s)
                   \/ RunSubscribe \/ RunUnsubscribe \/ RunPublish \/ DeliverAgain
                   \/ Cancel \/ RunStops
             \/ UNCHANGED hvars
      PROVE  UNCHANGED <<log, pc, topicOf, since, received>>
  BY <1>4 DEF HCallPublish, HDropOldest, CallPublish, DropOldest, Deliver, FindFull,
                    RunSubscribe, RunUnsubscribe, RunPublish, DeliverAgain, Cancel, RunStops,
                    streamVars, history, hvars, vars
<1> QED
  BY <1>1, <1>2, <1>3, <1>4, PublishFeed, OpenFeed, SeeFeed, CloseFeed DEF HNext, HNextUp, HOther

\* The hub implements Feed: its channels and buffers show a stream nothing but a growing,
\* ordered part of its topic's publications, each at most once (hub.go:102-134).
THEOREM ImplementsFeed == HSpec => FeedSpec
<1>1. HInit => F!Init
  BY InitFeed
<1>2. HInv /\ [HNext]_hvars => [F!Next]_F!vars
  BY StepFeed
<1> QED BY <1>1, <1>2, HistoryInvariance, PTL DEF HSpec, FeedSpec, F!Spec

=============================================================================
