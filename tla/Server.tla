------------------------------- MODULE Server -------------------------------
(***************************************************************************)
(* The life of the process: run() in cmd/cnpg-ui/main.go, from the         *)
(* configuration to the graceful shutdown, around the hub (module Hub) and *)
(* the requests in flight.  net/http is external: a connection is accepted *)
(* while the listener is open, its request may be read later, and Shutdown *)
(* closes the listener, then waits for the handlers that are running.      *)
(*                                                                         *)
(* A stream of Hub is the goroutine of a request for events; a call is a   *)
(* request of any other kind, which waits for the API server for as long   *)
(* as that takes (a follower of a pod's log, for one), or a request for    *)
(* events that the logging wrapper has answered with 500 (Gateway).        *)
(***************************************************************************)
EXTENDS Hub

CONSTANT Calls  \* the goroutines of the other requests

VARIABLES
    run,       \* where run() stands
    listener,  \* the listening socket
    fresh,     \* connections that Shutdown found accepted, their request not read yet
    busy,      \* calls whose handler is running
    result     \* what run() returns, None before it does

lifeVars   == <<run, listener, result>>
serverVars == <<lifeVars, fresh, busy>>
svars      == <<vars, serverVars>>

ServerTypeOK ==
    /\ TypeOK
    /\ run \in {"load", "wired", "serve", "shutdown", "return", "exited"}
    /\ listener \in {"none", "open", "closed"}
    /\ fresh \subseteq Streams \cup Calls
    /\ busy \subseteq Calls
    /\ result \in {None, "ok", "failed", "timeout"}

ServerInit ==
    /\ Init
    /\ run = "load"
    /\ listener = "none"
    /\ fresh = {}
    /\ busy = {}
    /\ result = None

\* The hub's and the informer's goroutines have been started, the process has not exited.
Up == run \in {"wired", "serve", "shutdown", "return"}
InFlight == busy \cup {s \in Streams : pc[s] # "idle"}

-----------------------------------------------------------------------------
(* run() *)

\* A return runs the deferred hubCancel, after Shutdown.
Returns(r) ==
    /\ run' = "return"
    /\ result' = r
    /\ Cancel
    /\ UNCHANGED <<listener, fresh, busy>>

\* config.Load fails, or, with the hub already running, a template.
LoadFails == run \in {"load", "wired"} /\ Returns("failed")

\* The hub's goroutine is started and then the informer's.  That no Kubernetes client
\* could be built is only a warning: then nobody publishes.
Wire ==
    /\ run = "load"
    /\ run' = "wired"
    /\ UNCHANGED <<vars, listener, fresh, busy, result>>

\* The services and the routes are there and the server's goroutine is started.
Start ==
    /\ run = "wired"
    /\ run' = "serve"
    /\ UNCHANGED <<vars, listener, fresh, busy, result>>

Listen ==
    /\ run = "serve"
    /\ listener = "none"
    /\ listener' = "open"
    /\ UNCHANGED <<vars, run, fresh, busy, result>>

\* The address is taken, or Accept fails for good: run() takes the error from errCh.
ServerError == run = "serve" /\ Returns("failed")

\* Mutant: the hub is cancelled before the server is shut down.
BeginShutdownHubFirst ==
    /\ run = "serve"
    /\ run' = "shutdown"
    /\ listener' = "closed"
    /\ fresh' \in IF listener = "open" THEN SUBSET ((Streams \cup Calls) \ InFlight) ELSE {{}}
    /\ Cancel
    /\ UNCHANGED <<busy, result>>

\* SIGTERM or an interrupt has come; NotifyContext keeps the process alive, and later
\* signals change nothing.  srv.Shutdown gets a context of ten seconds: the listener
\* is closed first, and any connection may just have been accepted.
BeginShutdown ==
    /\ run = "serve"
    /\ run' = "shutdown"
    /\ listener' = "closed"
    /\ fresh' \in IF listener = "open" THEN SUBSET ((Streams \cup Calls) \ InFlight) ELSE {{}}
    /\ UNCHANGED <<vars, busy, result>>

\* Mutant: Close instead of Shutdown, nobody waits for the handlers.
ShutdownDoneAtOnce == run = "shutdown" /\ Returns("ok")

ShutdownDone ==
    /\ run = "shutdown"
    /\ InFlight = {}
    /\ fresh = {}
    /\ Returns("ok")

\* Mutant: Shutdown gets a context without a deadline.
ShutdownTimeoutNever == FALSE /\ Returns("timeout")

\* The ten seconds are over, whatever is still running.
ShutdownTimeout == run = "shutdown" /\ Returns("timeout")

\* main returns, or exits with 1, and every goroutine ends with the process:
\* what they held in memory is gone.
Exit ==
    /\ run = "return"
    /\ run' = "exited"
    /\ pc' = [s \in Streams |-> "idle"]
    /\ topicOf' = [s \in Streams |-> None]
    /\ buffer' = [s \in Streams |-> <<>>]
    /\ call' = [p \in Publishers |-> None]
    /\ publishQ' = <<>> /\ subscribeQ' = <<>> /\ unsubscribeQ' = <<>>
    /\ subscribers' = [t \in Topics |-> {}]
    /\ hub' = "stopped" /\ msg' = NoMsg
    /\ acked' = {} /\ targets' = {} /\ cur' = None
    /\ fresh' = {} /\ busy' = {}
    /\ UNCHANGED <<ctxDone, listener, result>>

-----------------------------------------------------------------------------
(* net/http *)

\* A request is read: from a connection that is accepted or kept alive, and while
\* the server shuts down from one that had been accepted before.
Reads(q) ==
    /\ \/ run = "serve" /\ listener = "open"
       \/ run = "shutdown" /\ q \in fresh
    /\ fresh' = fresh \ {q}

\* Shutdown closes a connection that has brought no request.
DropFresh(q) ==
    /\ run = "shutdown"
    /\ q \in fresh
    /\ fresh' = fresh \ {q}
    /\ UNCHANGED <<vars, lifeVars, busy>>

StreamBegins(s, t) ==
    /\ Reads(s)
    /\ CallSubscribe(s, t)
    /\ UNCHANGED <<lifeVars, busy>>

CallBegins(c) ==
    /\ c \notin busy
    /\ Reads(c)
    /\ busy' = busy \cup {c}
    /\ UNCHANGED <<vars, lifeVars>>

CallEnds(c) ==
    /\ Up
    /\ c \in busy
    /\ busy' = busy \ {c}
    /\ UNCHANGED <<vars, lifeVars, fresh>>

-----------------------------------------------------------------------------
(* The goroutines of Hub, which run until the process exits.  The informer   *)
(* publishes from Wire on: nothing ever stops it.                           *)

\* A step of the hub's goroutines, which leaves the rest of the process alone.
Goes(A) == Up /\ A /\ UNCHANGED serverVars

Informer(p) ==
    /\ Up
    /\ \E t \in Topics : CallPublish(p, t)
    /\ UNCHANGED serverVars

\* Run while it delivers a message: one of its steps is enabled at any time.
Delivers == (\E s \in Streams : Deliver(s) \/ FindFull(s)) \/ DropOldest \/ DeliverAgain

Publisher(p) == Goes(\E e \in Events : SendPublish(p, e))
Stream(s)    == Goes(StreamGoesOn(s))
Loop         == Goes(RunStep \/ RunStops)

Life ==
    \/ LoadFails \/ Wire \/ Start \/ Listen \/ ServerError
    \/ BeginShutdown \/ ShutdownDone \/ ShutdownTimeout \/ Exit

Http ==
    \/ \E q \in Streams \cup Calls : DropFresh(q)
    \/ \E s \in Streams, t \in Topics : StreamBegins(s, t)
    \/ \E c \in Calls : CallBegins(c) \/ CallEnds(c)

ServerNext ==
    \/ Life
    \/ Http
    \/ \E p \in Publishers : Informer(p) \/ Publisher(p)
    \/ \E s \in Streams : Stream(s)
    \/ Loop

ServerSpec == ServerInit /\ [][ServerNext]_svars

(***************************************************************************)
(* Fairness: that of Hub while the process lives, and run() and Shutdown   *)
(* go on when they can.  Nothing is assumed of the outside world: no        *)
(* signal, no connection, no client that leaves, no call that ends, and     *)
(* not that the ten seconds are ever over.                                  *)
(***************************************************************************)
ServerFairness ==
    /\ \A p \in Publishers : SF_svars(Publisher(p))
    /\ \A s \in Streams :
        /\ SF_svars(Goes(SendSubscribe(s) \/ SendUnsubscribe(s)))
        /\ WF_svars(Goes(SubscribeReturns(s) \/ UnsubscribeReturns(s)))
    /\ SF_svars(Goes(RunSubscribe))
    /\ SF_svars(Goes(RunUnsubscribe))
    /\ SF_svars(Goes(RunPublish))
    /\ WF_svars(Goes(Delivers))
    /\ WF_svars(ShutdownDone \/ Exit)
    /\ WF_svars(\E q \in Streams \cup Calls : DropFresh(q))

FairServerSpec == ServerSpec /\ ServerFairness

-----------------------------------------------------------------------------
(* Properties *)

\* The hub is cancelled last, by the deferred hubCancel (main.go:62-63, 269-274): a
\* handler that still needs its answer has it, unless the server failed or Shutdown
\* gave up; after that Subscribe and Unsubscribe would wait for ever (hub.go:115-127).
HubOutlivesRequests ==
    ctxDone /\ InFlight # {} => result \in {"failed", "timeout"}

\* A signal ends the process, whatever its requests are waiting for, because
\* Shutdown waits no longer than its ten seconds (main.go:270-274).
ProcessEnds == WF_svars(ShutdownTimeout) => (run = "shutdown" ~> run = "exited")

\* Where clients leave and calls end, the process ends without the deadline
\* (main.go:268-274): no request in flight is left waiting for the hub.
GracefulShutdown ==
    /\ [](result # "timeout")
    /\ WF_svars(\/ \E s \in Streams : Goes(ClientGone(s))
                \/ \E c \in Calls : CallEnds(c))
    => (run = "shutdown" ~> run = "exited")

=============================================================================
