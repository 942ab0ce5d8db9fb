-------------------------------- MODULE Logs --------------------------------
(***************************************************************************)
(* The log endpoints of internal/cluster/logs.go: GetLogs answers with the *)
(* last lines of the primary's log, StreamLogs follows it.  Both ask the   *)
(* API server for the name of the primary, open that pod's log and read it *)
(* line by line through a bufio.Scanner, while the cluster fails over,     *)
(* pods log and end, connections break and clients leave.                  *)
(*                                                                         *)
(* A line is "short" or "long", a long one being longer than the scanner's *)
(* buffer (64 KiB).  The API server and the kubelet are external.  The     *)
(* writer that RequestLogger wraps has no Flush (module Gateway): behind   *)
(* it a stream gets no further than its lookup.  StreamLogs is modelled    *)
(* with a writer that has one, as its tests run it.                        *)
(***************************************************************************)
EXTENDS Naturals, Sequences, FiniteSetsExt

CONSTANTS
    Requests,     \* the goroutines serving a request
    Pods,         \* the instances of the cluster, each with one life
    NoPrimary,    \* the cluster's status names no primary
    NoCluster,    \* there is no such cluster
    DefaultTail,  \* defaultTailLines (100 in the code)
    Queries,      \* bound: the values of the query's lines= parameters, in order
    MaxLines      \* bound: the lines a pod logs

ASSUME LogsAssumption ==
    /\ {NoPrimary, NoCluster} \cap Pods = {}
    /\ DefaultTail \in Nat \ {0}
    /\ Queries \subseteq Seq(Nat)
    /\ MaxLines \in Nat

VARIABLES
    primary,  \* status.currentPrimary, at the API server
    alive,    \* pods whose container runs
    log,      \* what each pod has logged
    typed,    \* main.go could build the typed client
    req       \* the requests

vars == <<primary, alive, log, typed, req>>

\* A request: its tail is what GetLogs asks for, 0 with StreamLogs; it has been
\* given the lines from first to next - 1.  History: query has its lines= parameters,
\* opened is the length of the log when it was opened, end says why reading ended,
\* which the code does not tell.
Request ==
    [pc : {"idle", "lookup", "open", "read"}, kind : {"get", "stream"},
     query : Queries \cup {<<>>}, tail : Nat, pod : Pods \cup {NoPrimary},
     first : Nat, next : Nat, opened : Nat, gone : BOOLEAN,
     status : {0, 200, 404, 422, 500},
     end : {"none", "refused", "eof", "long", "break", "left"}]

TypeOK ==
    /\ primary \in Pods \cup {NoPrimary, NoCluster}
    /\ alive \subseteq Pods
    /\ log \in [Pods -> Seq({"short", "long"})]
    /\ typed \in BOOLEAN
    /\ req \in [Requests -> Request]

Init ==
    /\ primary \in Pods \cup {NoPrimary, NoCluster}
    /\ alive = Pods
    /\ log = [p \in Pods |-> <<>>]
    /\ typed \in BOOLEAN
    /\ req = [r \in Requests |->
                [pc |-> "idle", kind |-> "get", query |-> <<>>, tail |-> 0,
                 pod |-> NoPrimary, first |-> 1, next |-> 1, opened |-> 0, gone |-> FALSE, status |-> 0, end |-> "none"]]

-----------------------------------------------------------------------------
(* The cluster *)

\* The operator elects a primary, or there is none for a while.
Failover(p) ==
    /\ primary \notin {p, NoCluster}
    /\ p \in alive \cup {NoPrimary}
    /\ primary' = p
    /\ UNCHANGED <<alive, log, typed, req>>

\* Its pods end after it.
DeleteCluster ==
    /\ primary # NoCluster
    /\ primary' = NoCluster
    /\ UNCHANGED <<alive, log, typed, req>>

PodEnds(p) ==
    /\ p \in alive
    /\ alive' = alive \ {p}
    /\ UNCHANGED <<primary, log, typed, req>>

Logged(p, line) ==
    /\ p \in alive
    /\ Len(log[p]) < MaxLines
    /\ log' = [log EXCEPT ![p] = Append(@, line)]
    /\ UNCHANGED <<primary, alive, typed, req>>

-----------------------------------------------------------------------------
(* The handlers *)

\* Mutant: the last number above zero wins.
ParseLinesParamLast(query) ==
    LET valid == {i \in DOMAIN query : query[i] > 0}
    IN  IF valid = {} THEN DefaultTail ELSE query[Max(valid)]

\* The first lines= parameter that is a number above zero, else the default; 0
\* stands for a value that is none.
ParseLinesParam(query) ==
    LET valid == {i \in DOMAIN query : query[i] > 0}
    IN  IF valid = {} THEN DefaultTail ELSE query[Min(valid)]

\* Request r ends: status is what its client was told (a stream's 200 was sent
\* before its log was opened).
Ends(r, status, why) ==
    /\ req' = [req EXCEPT ![r].pc = "idle", ![r].status = status, ![r].end = why]
    /\ UNCHANGED <<primary, alive, log, typed>>

Arrive(r, kind, query) ==
    /\ req[r].pc = "idle"
    /\ kind = "stream" => query = <<>>
    /\ req' = [req EXCEPT ![r] =
                [pc |-> "lookup", kind |-> kind, query |-> query,
                 tail |-> IF kind = "get" THEN ParseLinesParam(query) ELSE 0,
                 pod |-> NoPrimary, first |-> 1, next |-> 1, opened |-> 0,
                 gone |-> FALSE, status |-> 0, end |-> "none"]]
    /\ UNCHANGED <<primary, alive, log, typed>>

\* The client goes away, or one of the server's timeouts cuts its connection: the
\* request's context is cancelled.
Leave(r) ==
    /\ req[r].pc # "idle"
    /\ ~req[r].gone
    /\ req' = [req EXCEPT ![r].gone = TRUE]
    /\ UNCHANGED <<primary, alive, log, typed>>

\* Mutant: the name is taken from what Get left behind, whatever it returned.
LookupUnchecked(r) ==
    /\ req[r].pc = "lookup"
    /\ req' = [req EXCEPT ![r].pc = "open", ![r].pod = primary]
    /\ UNCHANGED <<primary, alive, log, typed>>

\* GetPrimaryPodName finds one.  StreamLogs sends its headers and the pod's name.
Lookup(r) ==
    /\ req[r].pc = "lookup"
    /\ primary \in Pods
    /\ req' = [req EXCEPT ![r].pc = "open", ![r].pod = primary,
                          ![r].status = IF req[r].kind = "stream" THEN 200 ELSE 0]
    /\ UNCHANGED <<primary, alive, log, typed>>

\* There is no cluster or no primary, or the call fails.  The handlers go by words in
\* the text of the error, whatever it is about: any failure may get any of the statuses.
LookupFails(r) ==
    /\ req[r].pc = "lookup"
    /\ \E status \in {404, 422, 500} : Ends(r, status, "refused")

\* TailLines is set for a positive number only: a stream starts with the first
\* line the pod has logged.
FirstLine(r) ==
    LET n == Len(log[req[r].pod])
    IN  IF req[r].tail = 0 \/ req[r].tail > n THEN 1 ELSE n - req[r].tail + 1

\* The log of a pod that has ended can be read as long as the pod is kept.
Open(r) ==
    /\ req[r].pc = "open"
    /\ typed
    /\ req' = [req EXCEPT ![r].pc = "read", ![r].first = FirstLine(r),
                          ![r].next = FirstLine(r), ![r].opened = Len(log[req[r].pod])]
    /\ UNCHANGED <<primary, alive, log, typed>>

\* The pod has gone, or the kubelet cannot be reached; or the typed client is a nil
\* pointer in an interface that is not nil (main.go:137-139), which panics.  GetLogs
\* or Recovery answers 500; a stream has had its 200.
OpenFails(r) ==
    /\ req[r].pc = "open"
    /\ Ends(r, IF req[r].kind = "stream" THEN 200 ELSE 500, "refused")

\* Scan returns a line; GetLogs keeps it, StreamLogs writes it.
ReadLine(r) ==
    /\ req[r].pc = "read"
    /\ req[r].next <= Len(log[req[r].pod])
    /\ log[req[r].pod][req[r].next] = "short"
    /\ ~(req[r].gone /\ req[r].kind = "stream")
    /\ req' = [req EXCEPT ![r].next = @ + 1]
    /\ UNCHANGED <<primary, alive, log, typed>>

\* Scan returns false, for good, and nobody asks for the scanner's error.
LineTooLong(r) ==
    /\ req[r].pc = "read"
    /\ req[r].next <= Len(log[req[r].pod])
    /\ log[req[r].pod][req[r].next] = "long"
    /\ Ends(r, 200, "long")

\* Mutant: StreamLogs does not follow.
EofWithoutFollow(r) ==
    /\ req[r].pc = "read"
    /\ req[r].next > Len(log[req[r].pod])
    /\ Ends(r, 200, "eof")

\* The end of the log: where it ends now, for GetLogs, and where the container
\* has ended it, for a stream, which follows.
Eof(r) ==
    /\ req[r].pc = "read"
    /\ req[r].next > Len(log[req[r].pod])
    /\ req[r].kind = "stream" => req[r].pod \notin alive
    /\ Ends(r, 200, "eof")

\* The connection to the kubelet fails: to the scanner as good as the end.
ConnectionBreaks(r) ==
    /\ req[r].pc = "read"
    /\ Ends(r, 200, "break")

\* Mutant: the log is opened with a context of its own.
CancelledBeforeOpen(r) ==
    /\ req[r].gone
    /\ req[r].pc \in {"lookup", "open"}
    /\ Ends(r, 500, "left")

\* The request's context is passed to every call: the API server's, and the read of
\* the log, which then fails; StreamLogs also looks at it after each line.
Cancelled(r) ==
    /\ req[r].gone
    /\ req[r].pc # "idle"
    /\ Ends(r, IF req[r].pc = "read" \/ (req[r].kind = "stream" /\ req[r].pc = "open")
               THEN 200 ELSE 500, "left")

Reads(r) == ReadLine(r) \/ LineTooLong(r) \/ Eof(r)

Handle(r) ==
    \/ Lookup(r) \/ LookupFails(r) \/ Open(r) \/ OpenFails(r)
    \/ Reads(r) \/ ConnectionBreaks(r) \/ Cancelled(r)

ClusterStep ==
    \/ \E p \in Pods \cup {NoPrimary} : Failover(p)
    \/ \E p \in Pods : PodEnds(p) \/ \E line \in {"short", "long"} : Logged(p, line)
    \/ DeleteCluster

Next ==
    \/ ClusterStep
    \/ \E r \in Requests :
        \/ \E kind \in {"get", "stream"}, query \in Queries : Arrive(r, kind, query)
        \/ Leave(r)
        \/ Handle(r)

Spec == Init /\ [][Next]_vars

\* A goroutine that can read does, and a call whose context is cancelled returns.
\* The API server and the kubelet need not answer, and no client has to leave.
FairSpec == Spec /\ \A r \in Requests : WF_vars(Reads(r)) /\ WF_vars(Cancelled(r))

-----------------------------------------------------------------------------
(* Safety *)

\* What a query asks for (logs.go:112, 220-224).
AskedFor(query, n) ==
    \/ \E i \in DOMAIN query : /\ query[i] = n /\ n > 0
                              /\ \A j \in DOMAIN query : j < i => query[j] = 0
    \/ n = DefaultTail /\ \A i \in DOMAIN query : query[i] = 0

\* GetLogs answers with as many last lines as its query asks for, or with the whole
\* log if it has less, and nothing is missing up to the newest line of the moment it
\* opened the log, unless it was cut short by a long line, a broken connection or its
\* client (logs.go:110-112): parsing, tail and reading agree however the pod logs.
TailIsWhole ==
    \A r \in Requests : req[r].kind = "get" /\ req[r].end = "eof" =>
        /\ req[r].next - 1 >= req[r].opened
        /\ \E n \in {DefaultTail} \cup {req[r].query[i] : i \in DOMAIN req[r].query} :
            /\ AskedFor(req[r].query, n)
            /\ n <= req[r].opened => req[r].opened - req[r].first + 1 = n
            /\ n > req[r].opened => req[r].first = 1

\* A stream that has ended by itself has shown its pod's log to the end, and
\* nothing is added to that log any more (logs.go:195).
FollowsToTheEnd ==
    \A r \in Requests : req[r].kind = "stream" /\ req[r].end = "eof" =>
        /\ req[r].first = 1
        /\ req[r].next - 1 = Len(log[req[r].pod])
        /\ req[r].pod \notin alive

-----------------------------------------------------------------------------
(* Liveness *)

\* A request ends once its client has left, wherever it waits ("The stream stops
\* when the client disconnects", logs.go:159), and a stream also when its pod has
\* ended: no goroutine and no connection to a kubelet is left behind.
LogRequestEnds ==
    \A r \in Requests :
        /\ req[r].pc # "idle" /\ req[r].gone ~> req[r].pc = "idle"
        /\ req[r].pc = "read" /\ req[r].pod \notin alive ~> req[r].pc = "idle"

-----------------------------------------------------------------------------
(* What the comments say and the code does not do *)

\* "It returns the last N lines of logs from the primary pod" (logs.go:111): not if
\* one of them is long or the connection breaks, and then the answer is 200, too.
AnswerIsTail ==
    \A r \in Requests : req[r].kind = "get" /\ req[r].status = 200 /\ ~req[r].gone =>
        req[r].next - 1 >= req[r].opened

\* "... from the primary pod" (logs.go:111, 158): not after a failover.
ReadsThePrimary == \A r \in Requests : req[r].pc = "read" => req[r].pod = primary

=============================================================================
