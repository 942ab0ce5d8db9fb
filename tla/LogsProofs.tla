----------------------------- MODULE LogsProofs -----------------------------
(***************************************************************************)
(* Proofs about Logs, for any numbers of requests, pods and lines, any     *)
(* queries and any default.                                                *)
(***************************************************************************)
EXTENDS Logs, WellFoundedInduction, TLAPS

-----------------------------------------------------------------------------
(* The inductive invariant *)

\* The first line that q is given, when there were opened lines.
FromTail(q) ==
    q.first = IF q.tail = 0 \/ q.tail > q.opened THEN 1 ELSE q.opened - q.tail + 1

\* Only GetLogs asks for a tail, and always for the one in its query.
AskInv(q) ==
    /\ q.kind = "stream" => q.tail = 0
    /\ q.kind = "get" /\ (q.pc # "idle" \/ q.end = "eof")
       => q.tail > 0 /\ AskedFor(q.query, q.tail)
    /\ q.pc # "idle" => q.end = "none"

\* What q has been given is in the log, which is no shorter than when it was opened.
ReadInv(q) ==
    /\ q.pc \in {"open", "read"} => q.pod \in Pods
    /\ q.pc = "read" => /\ FromTail(q)
                        /\ q.opened <= Len(log[q.pod])
                        /\ q.next <= Len(log[q.pod]) + 1

\* The log of a stream that has ended by itself stays as it is.
EndInv(q) ==
    q.end = "eof" =>
        /\ q.pod \in Pods /\ FromTail(q) /\ q.next > q.opened
        /\ q.kind = "stream" => q.next = Len(log[q.pod]) + 1 /\ q.pod \notin alive

IInv == TypeOK /\ \A r \in Requests : AskInv(req[r]) /\ ReadInv(req[r]) /\ EndInv(req[r])

-----------------------------------------------------------------------------
(* The query *)

\* There is a first parameter, if there is one at all.
LEMMA MinOfIndices ==
    ASSUME NEW S \in SUBSET Nat, S # {}
    PROVE  Min(S) \in S /\ \A y \in S : Min(S) <= y
<1>1. PICK x \in S : \A y \in S : ~(<<y, x>> \in OpToRel(<, Nat))
  BY NatLessThanWellFounded, WFMin
<1>2. ASSUME NEW y \in S PROVE x <= y
  <2>1. x \in Nat /\ y \in Nat
    OBVIOUS
  <2>2. y < x => <<y, x>> \in OpToRel(<, Nat)
    BY <2>1 DEF OpToRel
  <2>3. ~(y < x)
    BY <1>1, <2>2
  <2> QED BY <2>1, <2>3
<1> QED BY <1>2 DEF Min

LEMMA TailAsked ==
    ASSUME NEW query \in Queries
    PROVE  /\ ParseLinesParam(query) \in Nat \ {0}
           /\ AskedFor(query, ParseLinesParam(query))
<1>1. query \in Seq(Nat) /\ DefaultTail \in Nat \ {0}
  BY LogsAssumption
<1> DEFINE valid == {i \in DOMAIN query : query[i] > 0}
<1>2. valid \in SUBSET Nat
  BY <1>1
<1>a. \A i \in DOMAIN query : query[i] \in Nat /\ (i \notin valid => query[i] = 0)
  BY <1>1
<1>3. CASE valid = {}
  <2>1. ParseLinesParam(query) = DefaultTail
    BY <1>3 DEF ParseLinesParam
  <2> QED BY <1>1, <1>3, <1>a, <2>1 DEF AskedFor
<1>4. CASE valid # {}
  <2>1. PICK m \in valid : m = Min(valid) /\ \A y \in valid : m <= y
    BY <1>2, <1>4, MinOfIndices
  <2>2. m \in DOMAIN query /\ query[m] \in Nat /\ query[m] > 0
    BY <1>1, <2>1
  <2>3. ParseLinesParam(query) = query[m]
    BY <1>4, <2>1 DEF ParseLinesParam
  <2>4. ASSUME NEW j \in DOMAIN query, j < m PROVE query[j] = 0
    <3>1. j \in Nat /\ m \in Nat
      BY <1>1, <2>2
    <3> QED BY <3>1, <2>1, <2>4, <1>a
  <2>5. AskedFor(query, query[m])
    BY <2>2, <2>4 DEF AskedFor
  <2> QED BY <1>1, <2>2, <2>3, <2>5
<1> QED BY <1>3, <1>4

-----------------------------------------------------------------------------
(* Requests that stay requests *)

\* The values of two fields, and two updates, by name.
Statuses == {0, 200, 404, 422, 500}
Reasons  == {"none", "refused", "eof", "long", "break", "left"}

WhenEnded(p, status, why) == [p EXCEPT !.pc = "idle", !.status = status, !.end = why]
WhenFound(p, pod, status) == [p EXCEPT !.pc = "open", !.pod = pod, !.status = status]

\* A request when it arrives, or before the first.
LEMMA Fresh ==
    ASSUME NEW pc \in {"idle", "lookup"}, NEW kind \in {"get", "stream"}, NEW t \in Nat,
           NEW query \in Queries \cup {<<>>}
    PROVE  [pc |-> pc, kind |-> kind, query |-> query, tail |-> t, pod |-> NoPrimary,
            first |-> 1, next |-> 1, opened |-> 0, gone |-> FALSE, status |-> 0, end |-> "none"] \in Request
<1>1. PICK g : g = FALSE
  OBVIOUS
<1>2. g \in BOOLEAN
  BY <1>1
<1>3. [pc |-> pc, kind |-> kind, query |-> query, tail |-> t, pod |-> NoPrimary,
       first |-> 1, next |-> 1, opened |-> 0, gone |-> g, status |-> 0, end |-> "none"] \in Request
  BY <1>2 DEF Request
<1> QED BY <1>1, <1>3

LEMMA SetField ==
    ASSUME NEW p \in Request
    PROVE  /\ \A pc \in {"idle", "lookup", "open", "read"} : [p EXCEPT !.pc = pc] \in Request
           /\ \A n \in Nat : /\ [p EXCEPT !.first = n] \in Request
                           /\ [p EXCEPT !.next = n] \in Request
                           /\ [p EXCEPT !.opened = n] \in Request
           /\ \A g \in BOOLEAN : [p EXCEPT !.gone = g] \in Request
<1>1. \A pc \in {"idle", "lookup", "open", "read"} : [p EXCEPT !.pc = pc] \in Request
  BY DEF Request
<1>2. \A n \in Nat : /\ [p EXCEPT !.first = n] \in Request
                   /\ [p EXCEPT !.next = n] \in Request
                   /\ [p EXCEPT !.opened = n] \in Request
  BY DEF Request
<1>3. \A g \in BOOLEAN : [p EXCEPT !.gone = g] \in Request
  BY DEF Request
<1> QED BY <1>1, <1>2, <1>3

LEMMA Ended ==
    ASSUME NEW p \in Request, NEW status \in Statuses, NEW why \in Reasons
    PROVE  WhenEnded(p, status, why) \in Request
<1>1. PICK a : a = [p EXCEPT !.pc = "idle"]
  OBVIOUS
<1>2. PICK b : b = [a EXCEPT !.status = status]
  OBVIOUS
<1>3. PICK c : c = [b EXCEPT !.end = why]
  OBVIOUS
<1>4. a \in Request
  BY <1>1, SetField
<1>5. b \in Request
  BY <1>2, <1>4 DEF Request, Statuses
<1>6. c \in Request
  BY <1>3, <1>5 DEF Request, Reasons
<1>7. c = WhenEnded(p, status, why)
  BY <1>1, <1>2, <1>3 DEF WhenEnded
<1> QED BY <1>6, <1>7

LEMMA EndsIs ==
    ASSUME IInv, NEW r \in Requests, NEW status, NEW why, Ends(r, status, why)
    PROVE  req' = [req EXCEPT ![r] = WhenEnded(req[r], status, why)]
<1>1. PICK q : q = [req[r] EXCEPT !.pc = "idle", !.status = status, !.end = why]
  OBVIOUS
<1>2. req \in [Requests -> Request]
  BY DEF IInv, TypeOK
<1>3. req' = [req EXCEPT ![r] = q]
  BY <1>1, <1>2 DEF Ends
<1> QED BY <1>1, <1>3 DEF WhenEnded

LEMMA Found ==
    ASSUME NEW p \in Request, NEW pod \in Pods, NEW status \in Statuses
    PROVE  WhenFound(p, pod, status) \in Request
<1>1. PICK a : a = [p EXCEPT !.pc = "open"]
  OBVIOUS
<1>2. PICK b : b = [a EXCEPT !.pod = pod]
  OBVIOUS
<1>3. PICK c : c = [b EXCEPT !.status = status]
  OBVIOUS
<1>4. a \in Request
  BY <1>1, SetField
<1>5. b \in Request
  BY <1>2, <1>4 DEF Request
<1>6. c \in Request
  BY <1>3, <1>5 DEF Request, Statuses
<1>7. c = WhenFound(p, pod, status)
  BY <1>1, <1>2, <1>3 DEF WhenFound
<1> QED BY <1>6, <1>7

LEMMA Opened ==
    ASSUME NEW p \in Request, NEW f \in Nat, NEW n \in Nat
    PROVE  [p EXCEPT !.pc = "read", !.first = f, !.next = f, !.opened = n] \in Request
<1>1. PICK a : a = [p EXCEPT !.pc = "read"]
  OBVIOUS
<1>2. PICK b : b = [a EXCEPT !.first = f]
  OBVIOUS
<1>3. PICK c : c = [b EXCEPT !.next = f]
  OBVIOUS
<1>4. PICK d : d = [c EXCEPT !.opened = n]
  OBVIOUS
<1>5. a \in Request
  BY <1>1 DEF Request
<1>6. b \in Request
  BY <1>2, <1>5 DEF Request
<1>7. c \in Request
  BY <1>3, <1>6 DEF Request
<1>8. d \in Request
  BY <1>4, <1>7 DEF Request
<1>9. d = [p EXCEPT !.pc = "read", !.first = f, !.next = f, !.opened = n]
  BY <1>1, <1>2, <1>3, <1>4
<1> QED BY <1>8, <1>9

-----------------------------------------------------------------------------
(* One lemma per kind of step *)

\* A step of one request.
LEMMA OneRequest ==
    ASSUME IInv, NEW r \in Requests, NEW q \in Request, req' = [req EXCEPT ![r] = q],
           UNCHANGED <<primary, alive, log, typed>>,
           AskInv(q), ReadInv(q), EndInv(q)
    PROVE  IInv'
<1>1. req' \in [Requests -> Request]
  BY DEF IInv, TypeOK
<1>2. TypeOK'
  BY <1>1 DEF IInv, TypeOK
<1>3. ASSUME NEW x \in Requests
      PROVE  (AskInv(req[x]) /\ ReadInv(req[x]) /\ EndInv(req[x]))'
  <2>1. PICK y : y = req'[x]
    OBVIOUS
  <2>2. AskInv(y) /\ ReadInv(y) /\ EndInv(y)
    BY <2>1 DEF IInv, TypeOK
  <2> QED BY <2>1, <2>2 DEF AskInv, ReadInv, EndInv, FromTail
<1> QED BY <1>2, <1>3 DEF IInv

LEMMA RequestFields ==
    ASSUME IInv, NEW r \in Requests
    PROVE  LET q == req[r]
           IN  /\ q \in Request /\ AskInv(q) /\ ReadInv(q) /\ EndInv(q)
               /\ req \in [Requests -> Request]
               /\ q.pc \in {"idle", "lookup", "open", "read"} /\ q.kind \in {"get", "stream"}
               /\ q.tail \in Nat /\ q.first \in Nat /\ q.next \in Nat /\ q.opened \in Nat
               /\ q.pod \in Pods => Len(log[q.pod]) \in Nat
  BY DEF IInv, TypeOK, Request

LEMMA EndsStep ==
    ASSUME IInv, NEW r \in Requests, NEW status \in Statuses,
           NEW why \in {"refused", "long", "break", "left"}, Ends(r, status, why)
    PROVE  IInv'
<1>1. PICK p : p = req[r]
  OBVIOUS
<1>2. PICK q : q = WhenEnded(p, status, why)
  OBVIOUS
<1>3. p \in Request /\ AskInv(p)
  BY <1>1, RequestFields
<1>4. q \in Request
  <2>1. why \in Reasons
    BY DEF Reasons
  <2> QED BY <1>2, <1>3, <2>1, Ended
<1>5. q.pc = "idle" /\ q.end = why /\ q.kind = p.kind /\ q.tail = p.tail /\ q.query = p.query
  BY <1>2, <1>3 DEF Request, WhenEnded
<1>6. AskInv(q) /\ ReadInv(q) /\ EndInv(q)
  BY <1>3, <1>5 DEF AskInv, ReadInv, EndInv
<1>7. req' = [req EXCEPT ![r] = q]
  BY <1>1, <1>2, EndsIs
<1> QED BY <1>4, <1>6, <1>7, OneRequest DEF Ends

LEMMA ArriveStep ==
    ASSUME IInv, NEW r \in Requests, NEW kind \in {"get", "stream"}, NEW query \in Queries,
           Arrive(r, kind, query)
    PROVE  IInv'
<1>1. PICK t : t = IF kind = "get" THEN ParseLinesParam(query) ELSE 0
  OBVIOUS
<1>2. /\ t \in Nat /\ (kind = "stream" => t = 0)
      /\ kind = "get" => t > 0 /\ AskedFor(query, t)
  BY <1>1, TailAsked
<1>3. PICK q : q = [pc |-> "lookup", kind |-> kind, query |-> query, tail |-> t,
                    pod |-> NoPrimary, first |-> 1, next |-> 1, opened |-> 0, gone |-> FALSE, status |-> 0, end |-> "none"]
  OBVIOUS
<1>4. q \in Request
  BY <1>2, <1>3, Fresh
<1>5. AskInv(q) /\ ReadInv(q) /\ EndInv(q)
  BY <1>2, <1>3 DEF AskInv, ReadInv, EndInv
<1>6. req' = [req EXCEPT ![r] = q]
  BY <1>1, <1>3 DEF Arrive
<1> QED BY <1>4, <1>5, <1>6, OneRequest DEF Arrive

LEMMA LeaveStep ==
    ASSUME IInv, NEW r \in Requests, Leave(r)
    PROVE  IInv'
<1>1. PICK p : p = req[r]
  OBVIOUS
<1>2. PICK q : q = [p EXCEPT !.gone = TRUE]
  OBVIOUS
<1>3. p \in Request /\ AskInv(p) /\ ReadInv(p) /\ EndInv(p) /\ req \in [Requests -> Request]
  BY <1>1, RequestFields
<1>4. q \in Request
  BY <1>2, <1>3, SetField
<1>5. /\ q.pc = p.pc /\ q.kind = p.kind /\ q.tail = p.tail /\ q.query = p.query /\ q.pod = p.pod
      /\ q.first = p.first /\ q.next = p.next /\ q.opened = p.opened /\ q.end = p.end
  BY <1>2, <1>3 DEF Request
<1>6. AskInv(q) /\ ReadInv(q) /\ EndInv(q)
  BY <1>3, <1>5 DEF AskInv, ReadInv, EndInv, FromTail
<1>7. req' = [req EXCEPT ![r] = q]
  BY <1>1, <1>2, <1>3 DEF Leave
<1> QED BY <1>4, <1>6, <1>7, OneRequest DEF Leave

LEMMA LookupStep ==
    ASSUME IInv, NEW r \in Requests, Lookup(r)
    PROVE  IInv'
<1>1. PICK p, s : p = req[r] /\ s = IF p.kind = "stream" THEN 200 ELSE 0
  OBVIOUS
<1>2. PICK q : q = WhenFound(p, primary, s)
  OBVIOUS
<1>3. p \in Request /\ AskInv(p) /\ EndInv(p) /\ req \in [Requests -> Request]
      /\ p.pc = "lookup" /\ primary \in Pods
  BY <1>1, RequestFields DEF Lookup
<1>4. q \in Request
  <2>1. s \in Statuses
    BY <1>1 DEF Statuses
  <2> QED BY <1>2, <1>3, <2>1, Found
<1>5. /\ q.pc = "open" /\ q.kind = p.kind /\ q.tail = p.tail /\ q.query = p.query /\ q.pod = primary /\ q.end = p.end
  BY <1>2, <1>3 DEF Request, WhenFound
<1>6. AskInv(q) /\ ReadInv(q) /\ EndInv(q)
  BY <1>3, <1>5 DEF AskInv, ReadInv, EndInv
<1>7. req' = [req EXCEPT ![r] = q]
  BY <1>1, <1>2, <1>3 DEF Lookup, WhenFound
<1> QED BY <1>4, <1>6, <1>7, OneRequest DEF Lookup

LEMMA OpenStep ==
    ASSUME IInv, NEW r \in Requests, Open(r)
    PROVE  IInv'
<1>1. PICK p, f, n : p = req[r] /\ f = FirstLine(r) /\ n = Len(log[p.pod])
  OBVIOUS
<1>2. PICK q : q = [p EXCEPT !.pc = "read", !.first = f, !.next = f, !.opened = n]
  OBVIOUS
<1>3. p \in Request /\ AskInv(p) /\ ReadInv(p) /\ req \in [Requests -> Request]
      /\ p.pc = "open" /\ p.tail \in Nat
  BY <1>1, RequestFields DEF Open
<1>4. p.pod \in Pods /\ n \in Nat
  BY <1>1, <1>3, RequestFields DEF ReadInv
<1>5. f = (IF p.tail = 0 \/ p.tail > n THEN 1 ELSE n - p.tail + 1)
  BY <1>1 DEF FirstLine
<1>6. f \in Nat /\ f <= n + 1
  BY <1>3, <1>4, <1>5
<1>7. q \in Request
  BY <1>2, <1>3, <1>4, <1>6, Opened
<1>8. /\ q.pc = "read" /\ q.kind = p.kind /\ q.tail = p.tail /\ q.query = p.query /\ q.pod = p.pod /\ q.end = p.end
      /\ q.first = f /\ q.next = f /\ q.opened = n
  BY <1>2, <1>3 DEF Request
<1>9. n <= n /\ q.end = "none" /\ AskInv(q)
  BY <1>3, <1>4, <1>8 DEF AskInv
<1>10. ReadInv(q) /\ EndInv(q)
  BY <1>1, <1>4, <1>5, <1>6, <1>8, <1>9 DEF ReadInv, EndInv, FromTail
<1>11. req' = [req EXCEPT ![r] = q]
  BY <1>1, <1>2, <1>3 DEF Open
<1> QED BY <1>7, <1>9, <1>10, <1>11, OneRequest DEF Open

LEMMA ReadLineStep ==
    ASSUME IInv, NEW r \in Requests, ReadLine(r)
    PROVE  IInv'
<1>1. PICK p, n : p = req[r] /\ n = Len(log[p.pod])
  OBVIOUS
<1>2. PICK q : q = [p EXCEPT !.next = @ + 1]
  OBVIOUS
<1>3. p \in Request /\ AskInv(p) /\ ReadInv(p) /\ req \in [Requests -> Request]
      /\ p.pc = "read" /\ p.next \in Nat /\ p.next <= n
  BY <1>1, RequestFields DEF ReadLine
<1>4. p.pod \in Pods /\ n \in Nat
  BY <1>1, <1>3, RequestFields DEF ReadInv
<1>5. q \in Request
  <2>1. p.next + 1 \in Nat
    BY <1>3
  <2>2. PICK n1 : n1 = p.next + 1
    OBVIOUS
  <2>3. q = [p EXCEPT !.next = n1]
    BY <1>2, <2>2, Zenon
  <2>4. n1 \in Nat
    BY <2>1, <2>2
  <2> QED BY <1>3, <2>3, <2>4, SetField
<1>6. /\ q.pc = "read" /\ q.kind = p.kind /\ q.tail = p.tail /\ q.query = p.query /\ q.pod = p.pod /\ q.end = p.end
      /\ q.first = p.first /\ q.next = p.next + 1 /\ q.opened = p.opened
  BY <1>2, <1>3 DEF Request
<1>7. q.next <= n + 1 /\ q.end = "none" /\ AskInv(q)
  BY <1>3, <1>4, <1>6 DEF AskInv
<1>8. ReadInv(q) /\ EndInv(q)
  BY <1>1, <1>3, <1>4, <1>6, <1>7 DEF ReadInv, EndInv, FromTail
<1>9. req' = [req EXCEPT ![r] = q]
  BY <1>1, <1>2, <1>3 DEF ReadLine
<1> QED BY <1>5, <1>7, <1>8, <1>9, OneRequest DEF ReadLine

LEMMA EofStep ==
    ASSUME IInv, NEW r \in Requests, Eof(r)
    PROVE  IInv'
<1>1. PICK p, n : p = req[r] /\ n = Len(log[p.pod])
  OBVIOUS
<1>2. PICK q : q = WhenEnded(p, 200, "eof")
  OBVIOUS
<1>3. p \in Request /\ AskInv(p) /\ ReadInv(p) /\ req \in [Requests -> Request]
      /\ p.pc = "read" /\ p.next \in Nat /\ p.opened \in Nat /\ p.next > n
      /\ (p.kind = "stream" => p.pod \notin alive)
  BY <1>1, RequestFields DEF Eof
<1>4. p.pod \in Pods /\ n \in Nat
  BY <1>1, <1>3, RequestFields DEF ReadInv
<1>5. p.next <= n + 1 /\ p.opened <= n /\ FromTail(p)
  BY <1>1, <1>3 DEF ReadInv
<1>6. p.next = n + 1 /\ p.next > p.opened
  BY <1>3, <1>4, <1>5
<1>7. q \in Request
  <2>1. 200 \in Statuses /\ "eof" \in Reasons
    BY DEF Statuses, Reasons
  <2> QED BY <1>2, <1>3, <2>1, Ended
<1>8. /\ q.pc = "idle" /\ q.kind = p.kind /\ q.tail = p.tail /\ q.query = p.query /\ q.pod = p.pod /\ q.end = "eof"
      /\ q.first = p.first /\ q.next = p.next /\ q.opened = p.opened
  BY <1>2, <1>3 DEF Request, WhenEnded
<1>9. AskInv(q) /\ ReadInv(q)
  BY <1>3, <1>8 DEF AskInv, ReadInv
<1>10. EndInv(q)
  BY <1>1, <1>3, <1>4, <1>5, <1>6, <1>8 DEF EndInv, FromTail
<1>11. req' = [req EXCEPT ![r] = q]
  BY <1>1, <1>2, EndsIs DEF Eof
<1> QED BY <1>7, <1>9, <1>10, <1>11, OneRequest DEF Eof, Ends

\* A log only grows, and no longer when its pod has ended.
LEMMA ClusterKeeps ==
    ASSUME IInv, ClusterStep
    PROVE  IInv'
<1>1. alive' \subseteq alive /\ UNCHANGED <<req, typed>>
      /\ primary' \in Pods \cup {NoPrimary, NoCluster}
  BY DEF ClusterStep, Failover, PodEnds, Logged, DeleteCluster, IInv, TypeOK
<1>2. log' \in [Pods -> Seq({"short", "long"})]
      /\ \A p \in Pods : /\ Len(log[p]) \in Nat /\ Len(log'[p]) \in Nat
                         /\ Len(log[p]) <= Len(log'[p])
                         /\ p \notin alive => log'[p] = log[p]
  <2>1. log \in [Pods -> Seq({"short", "long"})]
    BY DEF IInv, TypeOK
  <2>2. \A p \in Pods : Len(log[p]) \in Nat
    BY <2>1
  <2>3. CASE UNCHANGED log
    BY <2>1, <2>2, <2>3
  <2>4. ASSUME NEW p \in Pods, NEW line \in {"short", "long"}, Logged(p, line)
        PROVE  /\ log' \in [Pods -> Seq({"short", "long"})]
               /\ \A x \in Pods : Len(log[x]) <= Len(log'[x]) /\ (x \notin alive => log'[x] = log[x])
    <3>1. PICK l : l = Append(log[p], line)
      OBVIOUS
    <3>2. l \in Seq({"short", "long"}) /\ Len(l) = Len(log[p]) + 1
      BY <2>1, <3>1
    <3>3. log' = [log EXCEPT ![p] = l] /\ p \in alive
      BY <2>4, <3>1 DEF Logged
    <3>4. Len(log[p]) <= Len(l)
      BY <2>2, <3>2
    <3>5. log' \in [Pods -> Seq({"short", "long"})]
      BY <2>1, <3>2, <3>3
    <3>6. \A x \in Pods : log'[x] = IF x = p THEN l ELSE log[x]
      BY <2>1, <3>3
    <3>7. \A x \in Pods : Len(log[x]) <= Len(log[x])
      BY <2>2
    <3> QED BY <3>3, <3>4, <3>5, <3>6, <3>7
  <2>5. \A p \in Pods : Len(log'[p]) \in Nat
    BY <2>1, <2>3, <2>4 DEF ClusterStep, Failover, PodEnds, DeleteCluster
  <2> QED BY <2>1, <2>2, <2>3, <2>4, <2>5 DEF ClusterStep, Failover, PodEnds, DeleteCluster
<1>3. TypeOK'
  BY <1>1, <1>2 DEF IInv, TypeOK
<1>4. ASSUME NEW r \in Requests
      PROVE  (AskInv(req[r]) /\ ReadInv(req[r]) /\ EndInv(req[r]))'
  <2>1. PICK q : q = req[r]
    OBVIOUS
  <2>2. AskInv(q) /\ ReadInv(q) /\ EndInv(q) /\ q.opened \in Nat /\ q.next \in Nat
    BY <2>1, RequestFields
  <2>3. \A a, b, c \in Nat : a <= b /\ b <= c => a <= c
    OBVIOUS
  <2>4. \A a, b, c \in Nat : a <= b + 1 /\ b <= c => a <= c + 1
    OBVIOUS
  <2>5. ReadInv(q)'
    BY <1>2, <2>2, <2>3, <2>4 DEF ReadInv, FromTail
  <2>6. EndInv(q)'
    BY <1>1, <1>2, <2>2 DEF EndInv, FromTail
  <2> QED BY <1>1, <2>1, <2>2, <2>5, <2>6 DEF AskInv, ReadInv, EndInv, FromTail
<1> QED BY <1>3, <1>4 DEF IInv

LEMMA InitIInv == Init => IInv
<1> SUFFICES ASSUME Init PROVE IInv
  OBVIOUS
<1>1. PICK q : q = [pc |-> "idle", kind |-> "get", query |-> <<>>, tail |-> 0,
                    pod |-> NoPrimary, first |-> 1, next |-> 1, opened |-> 0, gone |-> FALSE, status |-> 0, end |-> "none"]
  OBVIOUS
<1>2. q \in Request
  BY <1>1, Fresh
<1>3. AskInv(q) /\ ReadInv(q) /\ EndInv(q)
  BY <1>1 DEF AskInv, ReadInv, EndInv
<1>4. req = [r \in Requests |-> q]
  BY <1>1 DEF Init
<1>5. req \in [Requests -> Request] /\ \A r \in Requests : req[r] = q
  BY <1>2, <1>4
<1>6. log \in [Pods -> Seq({"short", "long"})]
  BY DEF Init
<1>7. TypeOK
  BY <1>5, <1>6 DEF Init, TypeOK
<1> QED BY <1>3, <1>5, <1>7 DEF IInv

LEMMA StepIInv == IInv /\ [Next]_vars => IInv'
<1> SUFFICES ASSUME IInv, [Next]_vars PROVE IInv'
  OBVIOUS
<1>1. CASE ClusterStep
  BY <1>1, ClusterKeeps
<1>2. ASSUME NEW r \in Requests, NEW kind \in {"get", "stream"}, NEW query \in Queries,
             Arrive(r, kind, query)
      PROVE  IInv'
  BY <1>2, ArriveStep
<1>3. ASSUME NEW r \in Requests, Leave(r) PROVE IInv'
  BY <1>3, LeaveStep
<1>4. ASSUME NEW r \in Requests, Handle(r) PROVE IInv'
  <2>1. CASE Lookup(r)
    BY <2>1, LookupStep
  <2>2. CASE Open(r)
    BY <2>2, OpenStep
  <2>3. CASE ReadLine(r)
    BY <2>3, ReadLineStep
  <2>4. CASE Eof(r)
    BY <2>4, EofStep
  <2>5. CASE LookupFails(r)
    <3>1. PICK status \in Statuses : Ends(r, status, "refused")
      BY <2>5 DEF LookupFails, Statuses
    <3> QED BY <3>1, EndsStep
  <2>6. CASE OpenFails(r)
    BY <2>6, EndsStep DEF OpenFails, Statuses
  <2>7. CASE LineTooLong(r)
    BY <2>7, EndsStep DEF LineTooLong, Statuses
  <2>8. CASE ConnectionBreaks(r)
    BY <2>8, EndsStep DEF ConnectionBreaks, Statuses
  <2>9. CASE Cancelled(r)
    BY <2>9, EndsStep DEF Cancelled, Statuses
  <2> QED BY <1>4, <2>1, <2>2, <2>3, <2>4, <2>5, <2>6, <2>7, <2>8, <2>9 DEF Handle, Reads
<1>5. CASE UNCHANGED vars
  BY <1>5 DEF vars, IInv, TypeOK, AskInv, ReadInv, EndInv, FromTail
<1> QED BY <1>1, <1>2, <1>3, <1>4, <1>5 DEF Next

LEMMA Invariance == Spec => []IInv
  BY InitIInv, StepIInv, PTL DEF Spec

\* Whoever is asked for a log is a pod, and every answer is one of the five statuses.
THEOREM TypeCorrect == Spec => []TypeOK
<1>1. IInv => TypeOK
  BY DEF IInv
<1> QED BY <1>1, Invariance, PTL

\* GetLogs gives the tail that was asked for, however many lines= there were and however
\* the pod logs, fails over or ends while it reads, unless it was cut short.
THEOREM WholeTail == Spec => []TailIsWhole
<1>1. IInv => TailIsWhole
  <2> SUFFICES ASSUME IInv, NEW r \in Requests, req[r].kind = "get", req[r].end = "eof"
               PROVE  LET q == req[r]
                      IN  /\ q.next - 1 >= q.opened
                          /\ \E n \in {DefaultTail} \cup {q.query[i] : i \in DOMAIN q.query} :
                              /\ AskedFor(q.query, n)
                              /\ n <= q.opened => q.opened - q.first + 1 = n
                              /\ n > q.opened => q.first = 1
    BY DEF TailIsWhole
  <2>1. PICK q : q = req[r]
    OBVIOUS
  <2>2. q.tail \in Nat /\ q.first \in Nat /\ q.next \in Nat /\ q.opened \in Nat
    BY <2>1, RequestFields
  <2>3. q.tail > 0 /\ AskedFor(q.query, q.tail) /\ FromTail(q) /\ q.next > q.opened
    BY <2>1, RequestFields DEF AskInv, EndInv
  <2>4. q.tail \in {DefaultTail} \cup {q.query[i] : i \in DOMAIN q.query}
    BY <2>3 DEF AskedFor
  <2>5. /\ q.next - 1 >= q.opened
        /\ q.tail <= q.opened => q.opened - q.first + 1 = q.tail
        /\ q.tail > q.opened => q.first = 1
    BY <2>2, <2>3 DEF FromTail
  <2> QED BY <2>1, <2>3, <2>4, <2>5
<1> QED BY <1>1, Invariance, PTL

\* A stream ends by itself only when it has shown the log from its first line to the one
\* that will be its last.
THEOREM FollowsThrough == Spec => []FollowsToTheEnd
<1>1. IInv => FollowsToTheEnd
  <2> SUFFICES ASSUME IInv, NEW r \in Requests, req[r].kind = "stream", req[r].end = "eof"
               PROVE  /\ req[r].first = 1
                      /\ req[r].next - 1 = Len(log[req[r].pod])
                      /\ req[r].pod \notin alive
    BY DEF FollowsToTheEnd
  <2>1. PICK q : q = req[r]
    OBVIOUS
  <2>2. q.tail = 0 /\ FromTail(q) /\ q.next = Len(log[q.pod]) + 1 /\ q.pod \notin alive
        /\ Len(log[q.pod]) \in Nat
    BY <2>1, RequestFields DEF AskInv, EndInv
  <2> QED BY <2>1, <2>2 DEF FromTail
<1> QED BY <1>1, Invariance, PTL

=============================================================================
