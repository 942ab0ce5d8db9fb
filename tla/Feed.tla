-------------------------------- MODULE Feed --------------------------------
(***************************************************************************)
(* What the hub promises the goroutines that use it, whatever its          *)
(* channels and buffers do: publications form one log, and a reader that   *)
(* is subscribed to a topic sees some of the topic's publications, in the  *)
(* order they were published and each at most once (hub.go:102-134).       *)
(* Publications may be missed, but never so that the reader is left with   *)
(* an outdated one (the drop-oldest strategy).                             *)
(***************************************************************************)
EXTENDS Naturals, Sequences

CONSTANTS Readers, Topics, None

VARIABLES
    log,    \* the topics of all publications, in order
    topic,  \* per reader: the topic it is subscribed to, or None
    from,   \* per reader: the length of the log when Subscribe returned
    seen    \* per reader: the publications it has seen, as indices of the log

vars == <<log, topic, from, seen>>

Init ==
    /\ log = <<>>
    /\ topic = [r \in Readers |-> None]
    /\ from = [r \in Readers |-> 0]
    /\ seen = [r \in Readers |-> <<>>]

Publish(t) ==
    /\ log' = Append(log, t)
    /\ UNCHANGED <<topic, from, seen>>

Open(r, t) ==
    /\ topic[r] = None
    /\ topic' = [topic EXCEPT ![r] = t]
    /\ from' = [from EXCEPT ![r] = Len(log)]
    /\ UNCHANGED <<log, seen>>

\* Publications made while Subscribe was under way may be seen as well, so
\* nothing is asked of i but to be of the topic and newer than those seen.
See(r, i) ==
    /\ topic[r] # None
    /\ i \in 1..Len(log)
    /\ log[i] = topic[r]
    /\ \A k \in 1..Len(seen[r]) : seen[r][k] < i
    /\ seen' = [seen EXCEPT ![r] = Append(@, i)]
    /\ UNCHANGED <<log, topic, from>>

Close(r) ==
    /\ topic[r] # None
    /\ topic' = [topic EXCEPT ![r] = None]
    /\ from' = [from EXCEPT ![r] = 0]
    /\ seen' = [seen EXCEPT ![r] = <<>>]
    /\ UNCHANGED log

Next ==
    \/ \E t \in Topics : Publish(t)
    \/ \E r \in Readers :
        \/ \E t \in Topics : Open(r, t)
        \/ \E i \in 1..Len(log) : See(r, i)
        \/ Close(r)

Spec == Init /\ [][Next]_vars

\* Publication i is owed to reader r, that has seen neither it nor a newer one.
Owed(r, i) ==
    /\ topic[r] # None
    /\ i \in from[r] + 1 .. Len(log)
    /\ log[i] = topic[r]
    /\ \A k \in 1..Len(seen[r]) : seen[r][k] < i

\* A publication made after Subscribe returned is seen, or a newer one of its
\* topic is, unless the reader closes its subscription first.
Fresh(I) == \A r \in Readers, i \in I : Owed(r, i) ~> ~Owed(r, i)

=============================================================================
