# cnpg-ui in TLA+

TLA+ models of [cnpg-ui](../src/README.md), a web UI for CloudNativePG clusters
written in Go: what its concurrent parts promise, checked with TLC on small
instances, its safety proved with TLAPS for every instance. File names such as `hub.go:141` are below `src/internal/`, except
`main.go`, which is `src/cmd/cnpg-ui/main.go`.

## 1. The system

One Go process serves a JSON API and HTML pages. Its state is in three places:
in memory (the sessions, the hub's table of streams, the informer's cache), in
the API server of a Kubernetes cluster (the credentials Secret, the Cluster,
Backup and ScheduledBackup objects), and on the way between them. Every request
has a goroutine; the hub and the informer have theirs.

| part | state | operations | hard to get right |
|---|---|---|---|
| SSE hub, `hub/hub.go` | the table topic -> streams, three buffered channels, a buffered channel per stream | Publish, Subscribe, Unsubscribe, Run, deliverDropOldest | channel operations of Run interleave with readers; full channels; a snapshot delivered while its members leave; shutdown |
| SSE handlers, `hub/handler.go` | a request goroutine between Subscribe and Unsubscribe | streamTopic for two endpoints | clients go away at any time |
| watcher, `hub/watcher.go`, and informer, `k8s/informers.go` | the informer's cache, callbacks to make | OnAdd, OnUpdate, OnDelete -> two publications | lost watches, tombstones, order |
| auth service, `auth/service.go`, and session store, `auth/session.go` | one Secret, a sync.Map of sessions | Login, Logout, ValidateSession, ChangePassword | check-then-act over the API server; Range is no snapshot; expiry; restarts |
| auth handlers, `auth/handler.go` | none | the HTTP side of the above | what the middleware leaves in the context |
| cluster and configuration service, `cluster/service.go`, `config_service.go` | the Cluster objects | Create, Get, Update, Scale, Delete, GetConfig, UpdateConfig (and List) | read, change, merge patch without a precondition |
| backup service, `backup/service.go` | Backup and ScheduledBackup objects | TriggerBackup, create, update, delete of schedules (and reads) | ownership is checked on a copy, the object is then addressed by name |
| middleware, `middleware/*.go`, and wiring, `main.go` | the request's context and writer | Recovery, RequestLogger, CORS, APIAuth, UIAuth, routes, requireService | what each layer hands to the next; running without a Kubernetes client |
| process, `main.go` | the listener, the connections, what run() has deferred | start, serve, graceful shutdown, exit | who ends first: server, requests, hub |
| logs, `cluster/logs.go` | none; the pod's log grows while it is read | GetLogs, StreamLogs | a failover, a pod that ends, a long line, a client that leaves, all while a read waits |
| UI pages, `ui/handler.go`; poolers, `pooler/` | none | render, read | reads that fail |
| configuration, status mapping, error model, OpenAPI document | none | pure functions and data | - |

How they interact: the informer calls the watcher, the watcher calls Publish,
Run sends to the streams' channels, SSE handlers read them. A request passes
the middleware, which asks the auth service to validate its session; handlers
call the services; services call the API server, whose objects other requests,
the operator and `kubectl` change too, and whose changes come back through the
informer.

What makes each part correct, and where it is stated:

* hub: a stream whose Subscribe returned gets its topic's events, in order, at
  most once, never left with an outdated one; one whose Unsubscribe returned
  gets nothing; a stuck reader holds up nobody (`Hub`, `HubHistory`, `Feed`).
* watcher: readers of either topic end up with the current state of every
  object that exists, never go backwards, and see created, updated, deleted in
  a sensible order, nothing deleted twice; however slow a stream is, the object that changed last is
  shown as it is (`Watcher`).
* the process: a signal ends it, the hub is there as long as a request needs it,
  and no stuck reader keeps a call of the hub from returning (`Server`).
* logs: a tail is the tail asked for, a stream shows its pod's log to the end,
  and neither outlives its client (`Logs`).
* sessions: revoked means revoked; a sweep misses none (`Auth`).
* objects: a request changes what its body asks for and nothing else, on the
  object its URL names, however requests overlap (`Clusters`, `Backups`).
* the chain: a logged-out session reaches no handler; the nil services and the nil
  client are met where one knows of it and nowhere else; every request is answered
  (`Gateway`).

## 2. Modules

| module | models | state and actions against the code |
|---|---|---|
| `Hub` | `hub.go`, streamTopic of `handler.go` | `pc` is where a request goroutine stands; `buffer[s]` its channel; `publishQ`, `subscribeQ`, `unsubscribeQ` the three channels of `Hub`; `subscribers` its map; `hub`, `msg`, `targets`, `cur` are Run's position, message, remaining snapshot and current subscriber. One action per channel operation: `SendPublish` is the send of Publish; `RunSubscribe`, `RunUnsubscribe`, `RunPublish`, `RunStops` the cases of Run's select; `Deliver`/`FindFull`, `DropOldest`, `DeliverAgain` the three selects of deliverDropOldest, between any two of which a reader may drain the channel. |
| `HubHistory` | the same, with a record of what was published, read and discarded | every action is the one of `Hub` plus a history update |
| `Feed` | abstract: one log of publications, readers that see a growing part of it | `HubHistory` implements it under the mapping at its end |
| `HubProofs` | theorems about `Hub` and `Server` | |
| `HubHistoryProofs` | theorems about `HubHistory`, the refinement of `Feed` among them | |
| `Server` | `run()` of `main.go` around `Hub` | `run` and `listener` are the life of the process: `Wire` starts the hub and the informer, `Start` and `Listen` the server; `busy` the other requests in flight, `fresh` connections accepted but not read when Shutdown begins (net/http is external). `Returns` runs the deferred hubCancel; `BeginShutdown`, `ShutdownDone`, `ShutdownTimeout` are srv.Shutdown; the actions of `Hub` run while the process lives |
| `Watcher`, `MCWatcher` | `watcher.go`, the informer that `main.go` starts, `k8s/status.go`, the badge of `ui/handler.go` | `world` is the API server, `watch`, `cache`, `notes` the informer (external), `job` the publications a callback has yet to make, `shown` and `kinds` what a topic's events say; `channel` and `sending` are the channel of one stream and the event that found it full, `view` what its client knows. `MapPhaseToStatus` works on classes of phases: transient, fault, healthy, none, unknown |
| `WatcherProofs` | theorems about `Watcher` | |
| `Logs`, `MCLogs` | `cluster/logs.go` | `req[r]` is a request for a log: `Lookup` reads the primary's name, `Open` the pod's log, `ReadLine`, `LineTooLong`, `Eof` are the scanner's results, `Cancelled` what the request's context does; the operator, the kubelet and Postgres are external |
| `LogsProofs` | theorems about `Logs` | |
| `Auth`, `MCAuth` | `service.go`, `session.go`, `password.go` of `auth/` | one step per call to the API server and per operation on the map: `LoginCheck`, `Create`; `ChangeCheck`, `Fetch`, `Patch`, `DeleteAll`, `Visit`, `RangeEnds`; a password stands for the hashes it matches |
| `AuthProofs` | theorems about `Auth` | |
| `Clusters`, `MCClusters` | `cluster/service.go`, `config_service.go`, their handlers' statuses | `Fetch` is Get, `Diff` what client.MergeFrom puts into the patch, `Written` the API server applying it to the object as it is then, which `Patch` answers and `AnswerLost` does not; `elsewhere` holds the names created in the namespace of a body |
| `ClustersProofs` | theorems about `Clusters` | |
| `Backups`, `MCBackups` | `backup/service.go` and its handler's statuses | as `Clusters`, with `BackupCreated`, `SchedCreated`, `SchedPatched`, `SchedDeleted` for what the API server does; a schedule has a `uid`, which the code never looks at, to tell a recreated one from the old |
| `BackupsProofs` | theorems about `Backups` | |
| `Gateway` | the middleware chain, the routes of `main.go`, the auth handlers, what the others answer | `req[q]` is a request: where it is in the chain, its credentials, what the chain put into its context and which writer it has; `client` and `typed` are what could be built at start; `Dispatch`, `Preflight`, `APIAuth`, `UIAuth`, `Recover` are the layers |
| `GatewayProofs` | theorems about `Gateway` | |

History variables (in `HubHistory`; the last five of `Auth`; `ended` and `late` of
`Gateway`; `last` of `Watcher`; `query`, `opened` and `end` of a request of `Logs`) record and restrict nothing. An operator after a comment `Mutant:`
is a plausible bug of the definition it precedes; no specification uses it.

A request that a handler refuses before it touches shared state (a body that
does not decode, a bad number) changes nothing and has a step only in
`Gateway`, where statuses are what is modelled.

A write that the API server applies may lose its answer: the object has changed and
the request is answered as one that failed. `PatchAnswerLost` of `Auth` and `AnswerLost`
of `Clusters` and `Backups` are those steps; the properties about what a request
changes hold of them, too. Handlers tell errors apart by words of their text, which
others supply: where the code has such a test (`isNotFound`, `isConflict`,
`isNoPrimary`) a failed call is answered with any status the words may give
(`ApiFails`, `BadStorage`, `LookupFails`).

In the wired program two parts that `Hub` and `Auth` model cannot be reached:
streams answer 500 and password changes 401 (section 5). The two modules model
the handlers and services as their own tests run them, which is what the
program does once those two errors are mended. The same holds of a followed log
in `Logs`. In `Server` a request for events that is answered 500 is one of the
`Calls`.

## 3. Runs

Every run is `<name>.cfg`. Each property of a passing run has a mutant under
which the same run fails, listed in `PROJECT.json`.

| run | question | instance |
|---|---|---|
| `HubHistory_feed` | Is every stream registered, detached and fed as Subscribe, Publish and Unsubscribe promise, and is the hub a `Feed`? | 2 streams, 2 publishers, 2 topics, 2 publications, all capacities 1, shutdown at any time |
| `HubHistory_slow` | What may drop-oldest discard, and does a reader that reads on end up with the latest? | 1 stream with 2 places, 4 publications on 2 topics |
| `Server_shutdown` | Does every Publish, Subscribe and Unsubscribe return although readers are stuck, and does a signal end the process without taking the hub from a request that needs it? | 2 streams, 1 other request, 1 publisher, capacities 1, from start to exit |
| `Logs_requests` | What does the reader of a log get, and does its request end? | 1 request at a time, 2 pods, 2 lines each, short or too long, failovers, queries with none, one and two `lines=` |
| `Auth_sessions` | Do revoked sessions stay revoked, do sweeps miss none? | 2 requests, 2 sessions, 2 users, 2 passwords, 2 writes, an administrator, restarts, a clock |
| `Watcher_events` | Do both topics end up with the truth about what exists, and what does a slow stream know? | 2 namespaces, 1 name, 4 changes, 1 lost watch, a channel with 1 place, a phase of each class but PhaseHealthy: none, transient, fault, unknown |
| `Clusters_patch` | What may two overlapping requests do to one cluster? | 2 requests, 5 bodies, 1 parameter, values up to 2, creates in either namespace |
| `Backups_schedules` | Whose schedule may a request hit after its ownership check? | 2 requests, 2 clusters, 1 name, created twice |
| `Gateway_requests` | Who gets through the chain, and is everyone answered? | 2 requests on all routes, 2 sessions, with and without a client, with and without the typed one for logs |
| `Auth_change_race` | violation, section 5 | 2 requests, 1 session |
| `Watcher_removal` | violation, section 5 | as `Watcher_events`, 3 changes, 2 lost watches |
| `Gateway_chain` | violation, section 5 | as `Gateway_requests` |

Why the bounds are enough to meet the interesting cases:

* Capacity 1 makes every channel full as soon as something is in it, so the
  full, the empty and the drained-in-between case of each send occurs; two
  streams make the order of a snapshot matter, and two topics a wrong
  registration visible. Order of discarding needs two places in the channel and
  a fourth publication, hence `HubHistory_slow`. The theorems of `HubProofs`
  hold for all capacities and numbers.
* Two requests are what every race in these services needs: one that has read,
  one that acts in between; a request goroutine serves again after its answer,
  so longer histories occur. A schedule that is recreated needs two creations.
* One lost watch with four changes lets an object be deleted, recreated or
  updated unseen, in both namespaces. With one place in the stream's channel a
  second event of the topic already pushes out the first.
* In `Server_shutdown` a stream can be stuck, another leave and a third request
  wait for the API server while a signal comes at any moment of the hub's loop;
  what a process does before its exit is not repeated, so one life is enough.
* In `Logs_requests` one goroutine serves one request after the other; requests
  for logs share nothing. Two pods make a failover, two lines a tail that is
  shorter than the log, `DefaultTail` 1 differs from every number in a query.
* `MaxWrites`, `MaxTime`, `MaxVersion`, `MaxBreaks`, `MaxUid`, `MaxBackups`
  bound counters by guards; `Events` numbers the publications of `HubHistory`.
* Symmetry is used for requests, ids, users, passwords, clusters and schedule
  expressions, only in runs without liveness.
* `CHECK_DEADLOCK FALSE` is set where a bound, the hub's shutdown or the exit of
  the process ends the behaviour; `Gateway` and `Logs` check for deadlock.

### Fairness

* `Hub`: a goroutine that can run does run (weak fairness). A goroutine blocked
  on a channel waits in its FIFO queue, and Go's select picks a ready case at
  random: neither is passed over for ever (strong fairness). Readers owe
  nothing. `HubHistory_slow` adds that a stream reads, which is what its promise
  is about, and leaves the shutdown out: after it Subscribe and Unsubscribe have
  nobody to wait for.
* `Server`: that of `Hub` while the process lives; run() and Shutdown go on when
  they can, and Shutdown closes connections that bring nothing. No signal has to
  come, no client to leave, no call to end. `ProcessEnds` supposes that the ten
  seconds pass; `GracefulShutdown` supposes that clients leave and calls end, and
  not that the deadline is ever reached.
* `Watcher`: the informer's, the handler's and the hub's goroutines run. No
  change and no lost watch has to happen, and the stream need not read.
* `Logs`: a goroutine that can read does, and a call whose context is cancelled
  returns. The API server and the kubelet need not answer, nobody has to leave.
* `Gateway`: each request's goroutine runs; no session has to end.

## 4. Proofs

`tlapm` checks every leaf. Assumed are only the named assumptions of the modules
on their constants: capacities of at least 1 and a `None` that is no topic,
stream or event (`Hub`); publications numbered by naturals (`HubHistory`); a `TTL`
that is any integer (`Auth`); parameters that are not named as fields, bodies of
fields and values (`Clusters`); a `None` that is no cluster, name or value
(`Backups`) and no context key (`Gateway`); finitely many namespaces and names, a
name that is not the word "clusters", and classes of phases that are disjoint, as the
cases of a Go switch are (`Watcher`); a default tail above 0 and queries of numbers
(`Logs`). Bounds on counters are constants like any other: the theorems hold for each.

`HubProofs`, for any number of streams, publishers, topics and any capacities:

* `TypeCorrect`, `SubscribeRegisters`, `UnsubscribeDetaches`. Neither promise is
  inductive: whether a stream is registered when its wait for the ack ends
  depends on the request channels while it waits. `IInv` adds, for every
  position of the goroutine (`StreamInv`), where its request is (in the
  channel, or answered by an ack, or neither) and what the table holds; that no
  request channel holds a stream twice; and that what Run has yet to deliver to
  is registered for the message's topic (`LoopInv`). One step per action;
  `QuietStep` settles those that touch none of it and `OneStream` those that
  concern one stream.
* `ChannelsBounded`, `ResendSends`: a second invariant on the lengths, on top of
  `IInv`. Run is the only sender to a stream's channel, so it has room after
  `DropOldest` whatever the reader does.
* `UnsubscribeIsFinal`: an action property, from `ReturnedIsDetached`.

`HubHistoryProofs`, for any number of publications, too:

* `NothingLost`, `OldestFirst`, `NewestKept`. What was published and where it is now
  are related through the order in which Run takes messages: the publish channel
  holds the end of the log (`QueueInv`), the message under delivery is the last one
  taken (`MsgInv`), and of those taken every one of a stream's topic is delivered
  or discarded, unless it is that message and the stream is still in the snapshot
  (`StreamHistory`). That the newest event survives needs more than the order of
  discarding: for a discarded event there is a later one of the same topic, because
  Run discards only while it holds one.
* `ImplementsFeed`: the initial states of `HubHistory` are those of `Feed` under the
  mapping, and every step is a step of `Feed` or a stutter: sending to the publish
  channel publishes, Subscribe's return opens, the receive of the reader lets it see
  one more, in order and once, and leaving the loop closes; all that happens in
  between, to Run, its table and the channels, is a stutter. The lemmas `PublishFeed`, `OpenFeed`, `SeeFeed` and `CloseFeed` are
  the four steps of `Feed`.

`Server`, at the end of `HubProofs`, for any number of streams, other requests,
publishers and topics:

* `ServerKeepsPromises`: what Subscribe and Unsubscribe promise holds of the whole
  process. Every step of `Server` but `Exit` is a step of `Hub` or leaves it alone
  (`StepOfHub`), and `Exit` leaves a state that satisfies `IInv`, so `IInv` is an
  invariant of `Server`, too.
* `ServerTypeCorrect`; `HubOutlives`: only a return of run() cancels the hub, and
  without a failure it has found no request in flight (`CancelInv`); since a request
  is read only while the server serves or shuts down, none begins afterwards.

`AuthProofs`, for any number of requests, ids, users, passwords, any TTL:

* `TypeCorrect`; `SweepsComplete`: by counting sweeps, with the invariant that
  what a sweep in progress should remove is still in its list of sessions to
  visit or already gone; `RevocationHolds`: ids are never drawn twice, and
  expiry is never undone because the clock does not go back.

`GatewayProofs`, for any number of requests and tokens:

* `TypeCorrect`; `LogoutIsFinal` (`LoggedOutStaysOut`): a token whose logout was
  answered is gone for good, because what logout deletes is what the middleware
  accepted (`CredentialInv`) and a token is created only once; so the validator
  refuses every request that came with it later. `NilClientsPanic`
  (`OnlyNilClientsPanic`): whoever is in a protected handler has been accepted, which
  needs a client, and of those GetLogs alone calls the typed one. `ChainEquipsNobody`: the other side of the run
  `Gateway_chain`. TLC shows one request for which it goes wrong; the theorem says
  that no password change ever finds its user and no stream a writer that can
  flush, because a key of the middleware's type is never the handler's
  (`ChainInv`) and every writer behind RequestLogger is its wrapper.

`ClustersProofs`, for any number of requests, names, parameters and any bodies:

* `TypeCorrect`, `InstancesStayPositive`. The types alone are not inductive, nor
  is the number of instances: `AskedInv` says of a request at each position
  whether it has a name and which numbers of instances it can ask for, and a
  request that waits asks for nothing.
* `PatchesOnlyAsked`, `IgnoresOnlyRaced`: the two action properties, from what
  `Patch` leaves of a field and from Patch being the only step that changes an
  object and is answered with 200 (`AnswerLost` changes it by the same patch, and
  answers 500).

`WatcherProofs`, for any number of objects, changes and lost watches, any capacity
and any phases:

* `TopicsAgreement`: the two publications of a callback are made one after the other
  (`JobInv`), and between them only its own object may differ.
* `Lifecycle` speaks of every publication, also of one that repeats the last. An update or a deletion may wait as a callback while its object's
  creation does, too, so the events already sent say nothing of it. `KindInv` speaks of
  what a topic will show once the callbacks ahead have been made (`Shows`): everything but
  a creation follows a state that is shown by then. That the informer has told of
  whatever is in its store (`StoreShown`) is what makes it inductive across lost
  watches, and `WatchCurrent`, that the store and the watch together are the server's
  state, what keeps a watch from deleting what does not exist.
* `LatestCurrent`: from the same invariant; when everything has been told the topics show
  the store and the store is the server. `StreamInv` adds that the last event of the
  topic is never the one that a full channel drops.
* `NeverBack`: `OrderInv` compares every version along the way, from the server
  through watch, callbacks and job to the topics, with all that is behind it. Deletions
  carry no version and are left out (`Up`); after one an object may come back, with
  a version that is newer than any.

`BackupsProofs`, for any number of requests, clusters, names and expressions:

* `ForeignIsRecreated`: `BaseInv` relates what a request has read to what has its
  name now: the same object, with the same cluster, or one created later, which the
  uids tell. Both this and `AskedSchedules`, from what a merge patch leaves of a field,
  hold of every write that is applied, answered or not.

`LogsProofs`, for any number of requests, pods, lines and any queries:

* `WholeTail`, `FollowsThrough`. `TailIsWhole` names the tail by the query itself: the
  first number above zero in it, or the default. What a request has been given depends on the log when
  it was opened and is compared with a log that has grown since; the invariant has for
  each request where it started (`FromTail`), that it is never past the end
  (`ReadInv`), and for one that came to the end what it had been given then
  (`EndInv`), which later steps of the pods leave true: a pod that has ended logs no
  more. `TailAsked` says that `ParseLinesParam` always asks for a line at least.

Only model-checked: liveness (`PublishReturns`, `StreamCallsReturn`, `ProcessEnds`,
`GracefulShutdown`, `FeedFresh`, `EventuallyShown`, `LogRequestEnds`,
`EveryRequestAnswered`), which is out of the prover's reach with fairness. Every
other property of a passing run is a theorem.

## 5. Where code and text disagree

Kept as runs:

* `Auth_change_race`: a Login that has checked the old password stores its
  session after ChangePassword has swept; the session outlives the change.
  `auth/service.go:34` promises that all active sessions are invalidated.
* `Watcher_removal`: an object that goes away while the watch is lost arrives
  as a tombstone, which `toCluster` refuses; readers keep it for ever.
* `Gateway_chain`: two errors of the same kind, in what the chain hands to a
  handler. Handler and middleware use context keys of different types, so behind
  the middleware every password change is answered 401; the logging wrapper has
  no Flush, so every stream is answered 500.

Seen, and stated at the end of their modules (put the property into a run of the
same instance to see it refuted): `PublishNeverBlocks` (Publish waits when its
channel is full, and for ever after the hub has stopped), `DropsOnlyWhenFull`,
`StreamEndsWithHub` (nobody closes a stream's channel: a stream would outlive the
hub, if `Server` did not end the requests first), `ChangeReplacesVerified`
(lost update of the password), `OnlyWatchedNamespace` (the cache is not
restricted to a namespace), `EveryObjectIsCurrent` (all clusters share the topic
"clusters": events of one push the last one of another out of a slow stream's
channel), `UnreadPageIsGray` (a page whose read failed shows HEALTHY where
`ui/handler.go:149` says unknown), `AnswerIsTail` (a long line or a broken
connection cuts a tail short and the answer is 200), `ReadsThePrimary` (a log is
followed after a failover, from a pod that is no longer the primary),
`CreatedIsFound` (a cluster created in the namespace of the body is never found
again), `DeleteStaysInCluster`, `SuspendedUnlessAsked`
(leaving `suspended` out resumes a schedule), `UnhealthyRefused` (the documented
409 is never answered).

Seen, and not stated:

* The OpenAPI document (`openapi/openapi.yaml:14-16`) accepts the session cookie
  on the API, `APIAuth` only a bearer token, so the pages' requests to `/api/v1`,
  their streams among them, are refused. The pages listen for an event
  `cluster-update`, which nobody publishes, and link to a dialog for scaling that
  has no route.
* `isNotFound` goes by the words of an error; `fetchCluster` of
  `config_service.go` calls every failed read "not found".
* The timeouts of 15 seconds (`main.go:241`) hold for streams too, where
  `hub/handler.go:31` says a connection stays open.
* If the typed client cannot be built, a nil `*Clientset` in an interface passes
  the check of `logs.go:83` (`main.go:137`), and GetLogs panics: `LogsPanic` of
  `Gateway`. In `Logs` the typed client is there.
* A stream of a log starts with everything the pod has logged.

## 6. Not modelled

* Lists, poolers, the data of the panels: they read once and change nothing.
* Rendering, wording, request ids, log lines, CORS headers, cookie attributes.
* bcrypt beyond matching; the randomness of ids beyond never repeating.
* An edit of the Secret that removes one of its keys: then nobody can log in.
* Image catalogs (a field like the image), the type and the need of a restart
  that an answer adds to a Postgres parameter.
* A signal before `main.go:245` ends the process at once, as the system does.
  The server's timeouts are clients that leave, at any moment (`ClientGone`,
  `Leave`).
* The parsing of the environment (`config/config.go`), the choice between the
  in-cluster configuration and the kubeconfig (`k8s/client.go`): straight-line
  code run once; what depends on it is a constant or an initial choice.
* client-go, controller-runtime, chi, net/http, the operator and the API server
  are external: modelled by what this code can see of them.

## 7. Plan

Done: the components of section 2 and, for each of them, the theorems of section 4.

Next, in this order:

1. What liveness rests on and a prover reaches: that no state of the hub in which a
   call waits is stuck (an action that serves it is possible, stated as a
   predicate on the state), for any number of streams.
2. The chain as the hub's environment: that a request of `Gateway` that reaches the
   stream's handler is one of `Server`'s `Calls`.
