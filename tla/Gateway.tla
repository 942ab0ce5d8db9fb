------------------------------ MODULE Gateway ------------------------------
(***************************************************************************)
(* The HTTP side of the server: the middleware chain of cmd/cnpg-ui/main.go *)
(* (Recovery, RequestLogger, CORS, the routes, APIAuth or UIAuth for a      *)
(* group of them) and what the handlers behind it answer.  A request goes   *)
(* through the chain in its own goroutine; requests meet in the session     *)
(* store, whose sessions another request, a password change or the clock    *)
(* may end at any moment (module Auth has the store in detail).             *)
(*                                                                          *)
(* Routes of one kind are one value: "page" is every /ui page and panel,    *)
(* "resource" every domain endpoint behind requireService but the two for   *)
(* logs, "preflight" any path asked with OPTIONS, "healthz" also the        *)
(* OpenAPI document and the login page.                                     *)
(***************************************************************************)
EXTENDS Naturals, FiniteSets

CONSTANTS
    Requests,   \* requests in flight at the same time
    Tokens,     \* session ids; each is created at most once (a random UUID)
    None

VARIABLES
    client,     \* whether a Kubernetes client could be built at start
    typed,      \* whether the typed client, for the logs, could be built with it
    store,      \* the session store: what is known of each token
    req,        \* the requests
    ended       \* history: tokens whose logout has been answered

vars == <<client, typed, store, req, ended>>

ApiRoutes == {"logout", "password", "resource", "events", "logs", "logStream"}
UiRoutes  == {"uiLogout", "page"}
OpenRoutes == {"healthz", "login", "uiLogin"}
Routes == ApiRoutes \union UiRoutes \union OpenRoutes \union {"preflight"}

(***************************************************************************)
(* The username is stored in the request's context under a key of          *)
(* middleware's type contextKey; the auth handler looks it up under a key   *)
(* of auth's own type, which is a different key.                            *)
(***************************************************************************)
UsernameKey        == "middleware.username"
UsernameContextKey == "auth.username"

ASSUME NoneAssumption == None # UsernameContextKey

Steps == {"idle", "chain", "auth", "handler", "panic", "answered"}
Codes == {0, 200, 204, 303, 400, 401, 404, 422, 500, 503}

Request ==
    [pc     : Steps,
     route  : Routes,
     bearer : Tokens \union {None},     \* the Authorization header's token
     cookie : Tokens \union {None},     \* the session cookie's value
     late   : BOOLEAN,                  \* history: its session's logout was answered before it came
     valid  : Tokens \union {None},     \* the session that the middleware accepted
     ctxKey : {None, UsernameKey, UsernameContextKey},
     writer : {"server", "wrapped"},    \* the ResponseWriter the next handler gets
     status : Codes]

TypeOK ==
    /\ client \in BOOLEAN
    /\ typed \in BOOLEAN
    /\ store \in [Tokens -> {"unused", "live", "gone"}]
    /\ req \in [Requests -> Request]
    /\ ended \subseteq Tokens

Init ==
    /\ client \in BOOLEAN
    /\ typed \in BOOLEAN /\ (typed => client)
    \* Sessions are lost with the process that made them; their clients keep the tokens.
    /\ store \in [Tokens -> {"unused", "gone"}]
    /\ req = [q \in Requests |->
                [pc |-> "idle", route |-> "healthz", bearer |-> None, cookie |-> None,
                 late |-> FALSE, valid |-> None, ctxKey |-> None,
                 writer |-> "server", status |-> 0]]
    /\ ended = {}

-----------------------------------------------------------------------------
(* What the steps are built from *)

\* Mutant: without a client every token is taken for a session.
AcceptAllValidator(t) == t # None /\ (client => store[t] = "live")

\* Without a client the validator is rejectAllValidator.
ValidateSession(t) == client /\ t # None /\ store[t] = "live"

\* The assertion w.(http.Flusher): the logging wrapper has no Flush method.
CanFlush(q) == req[q].writer = "server"

usernameFromCtx(q) == req[q].ctxKey = UsernameContextKey

\* Mutant: both logouts delete the session of the cookie.
ToDeleteCookie(q) == req[q].cookie

\* The session that logout deletes: extractBearerToken or the cookie, read again.
ToDelete(q) == IF req[q].route = "logout" THEN req[q].bearer ELSE req[q].cookie

\* Request q is over; what it carried is forgotten, the answer is kept.
Answer(q, code) ==
    req' = [req EXCEPT ![q] = [@ EXCEPT !.pc = "answered", !.status = code,
                                         !.bearer = None, !.cookie = None, !.late = FALSE,
                                         !.valid = None, !.ctxKey = None]]

InHandler(q, routes) == req[q].pc = "handler" /\ req[q].route \in routes

-----------------------------------------------------------------------------
(* The chain *)

\* The token that decides whether a request of this route is let in.
Presented(route, b, c) ==
    CASE route \in ApiRoutes -> b
      [] route \in UiRoutes -> c
      [] OTHER -> None

\* A request with any credentials its client holds, some of them perhaps from before
\* a restart of the server; credentials that the route does not read are left out.
\* It takes the place of a request that has been answered.
Arrive(q, route, b, c) ==
    /\ req[q].pc \in {"idle", "answered"}
    /\ \A t \in {b, c} \ {None} : store[t] # "unused"
    /\ b # None => route \in ApiRoutes
    /\ c # None => route \in UiRoutes
    /\ req' = [req EXCEPT ![q] = [@ EXCEPT !.pc = "chain", !.route = route,
                                            !.bearer = b, !.cookie = c,
                                            !.late = Presented(route, b, c) \in ended,
                                            !.writer = "server", !.status = 0]]
    /\ UNCHANGED <<client, typed, store, ended>>

\* Recovery and RequestLogger, which wraps the writer, then CORS and the router.
Dispatch(q) ==
    /\ req[q].pc = "chain"
    /\ req[q].route # "preflight"
    /\ req' = [req EXCEPT ![q] = [@ EXCEPT !.pc = IF req[q].route \in OpenRoutes THEN "handler" ELSE "auth",
                                            !.writer = "wrapped"]]
    /\ UNCHANGED <<client, typed, store, ended>>

\* CORS answers every OPTIONS request itself, whatever its origin.
Preflight(q) ==
    /\ req[q].pc = "chain"
    /\ req[q].route = "preflight"
    /\ Answer(q, 204)
    /\ UNCHANGED <<client, typed, store, ended>>

Accept(q, t) ==
    /\ req' = [req EXCEPT ![q] = [@ EXCEPT !.pc = "handler", !.valid = t, !.ctxKey = UsernameKey]]
    /\ UNCHANGED <<client, typed, store, ended>>

\* Mutant: the refusal is a 403.
APIAuthForbids(q) ==
    /\ req[q].pc = "auth"
    /\ req[q].route \in ApiRoutes
    /\ IF ValidateSession(req[q].bearer)
       THEN Accept(q, req[q].bearer)
       ELSE Answer(q, 403) /\ UNCHANGED <<client, typed, store, ended>>

\* Bearer token only: a session cookie does not open an API route.
APIAuth(q) ==
    /\ req[q].pc = "auth"
    /\ req[q].route \in ApiRoutes
    /\ IF ValidateSession(req[q].bearer)
       THEN Accept(q, req[q].bearer)
       ELSE Answer(q, 401) /\ UNCHANGED <<client, typed, store, ended>>

UIAuth(q) ==
    /\ req[q].pc = "auth"
    /\ req[q].route \in UiRoutes
    /\ IF ValidateSession(req[q].cookie)
       THEN Accept(q, req[q].cookie)
       ELSE Answer(q, 303) /\ UNCHANGED <<client, typed, store, ended>>

\* Mutant: nothing recovers; net/http drops the connection without an answer.
RecoverNot(q) ==
    /\ req[q].pc = "panic"
    /\ req' = [req EXCEPT ![q].pc = "idle"]
    /\ UNCHANGED <<client, typed, store, ended>>

Recover(q) ==
    /\ req[q].pc = "panic"
    /\ Answer(q, 500)
    /\ UNCHANGED <<client, typed, store, ended>>

-----------------------------------------------------------------------------
(* The handlers *)

\* healthz, the OpenAPI document and the login page.
Open(q) ==
    /\ InHandler(q, {"healthz"})
    /\ Answer(q, 200)
    /\ UNCHANGED <<client, typed, store, ended>>

\* The body or the form cannot be read.
BadLogin(q) ==
    /\ InHandler(q, {"login", "uiLogin"})
    /\ Answer(q, IF req[q].route = "login" THEN 400 ELSE 303)
    /\ UNCHANGED <<client, typed, store, ended>>

\* Wrong credentials, or the Secret cannot be read.
RefuseLogin(q) ==
    /\ InHandler(q, {"login", "uiLogin"})
    /\ client
    /\ Answer(q, IF req[q].route = "login" THEN 401 ELSE 303)
    /\ UNCHANGED <<client, typed, store, ended>>

Login(q, t) ==
    /\ InHandler(q, {"login", "uiLogin"})
    /\ client
    /\ store[t] = "unused"
    /\ store' = [store EXCEPT ![t] = "live"]
    /\ Answer(q, IF req[q].route = "login" THEN 200 ELSE 303)
    /\ UNCHANGED <<client, typed, ended>>

\* Without a client the handler's service is nil.
LoginPanics(q) ==
    /\ InHandler(q, {"login", "uiLogin"})
    /\ ~client
    /\ req' = [req EXCEPT ![q].pc = "panic"]
    /\ UNCHANGED <<client, typed, store, ended>>

\* APILogout and UILogout.
Logout(q) ==
    /\ InHandler(q, {"logout", "uiLogout"})
    /\ IF client
       THEN /\ store' = [t \in Tokens |-> IF t = ToDelete(q) THEN "gone" ELSE store[t]]
            /\ ended' = ended \union {req[q].valid}
            /\ Answer(q, IF req[q].route = "logout" THEN 204 ELSE 303)
       ELSE /\ req' = [req EXCEPT ![q].pc = "panic"]
            /\ UNCHANGED <<store, ended>>
    /\ UNCHANGED <<client, typed>>

\* What the service does with the sessions is in module Auth.
ChangePassword(q) ==
    /\ InHandler(q, {"password"})
    /\ \E code \in IF usernameFromCtx(q) THEN {200, 400, 401, 422} ELSE {401} : Answer(q, code)
    /\ UNCHANGED <<client, typed, store, ended>>

\* A domain endpoint; 200 stands for whatever its handler answers.
Resource(q) ==
    /\ InHandler(q, {"resource", "logs"})
    /\ req[q].route = "logs" /\ client => typed
    /\ Answer(q, IF client THEN 200 ELSE 503)
    /\ UNCHANGED <<client, typed, store, ended>>

\* The typed client that could not be built is a nil pointer in an interface that is
\* not nil: GetLogs calls it.
LogsPanic(q) ==
    /\ InHandler(q, {"logs"})
    /\ client /\ ~typed
    /\ req' = [req EXCEPT ![q].pc = "panic"]
    /\ UNCHANGED <<client, typed, store, ended>>

\* The three SSE endpoints, up to the moment they would start to stream.
Stream(q) ==
    /\ InHandler(q, {"events", "logStream"})
    /\ Answer(q, CASE req[q].route = "logStream" /\ ~client -> 503
                   [] CanFlush(q) -> 200
                   [] OTHER -> 500)
    /\ UNCHANGED <<client, typed, store, ended>>

\* GetLogs and StreamLogs look for the primary's pod first, before the Flusher and
\* the typed client.
NoPodToRead(q) ==
    /\ InHandler(q, {"logs", "logStream"})
    /\ client
    /\ \E code \in {404, 422, 500} : Answer(q, code)
    /\ UNCHANGED <<client, typed, store, ended>>

\* A page is rendered also when what it shows could not be read.
Page(q) ==
    /\ InHandler(q, {"page"})
    /\ Answer(q, 200)
    /\ UNCHANGED <<client, typed, store, ended>>

\* The session's time is over, or a password change sweeps it.
Expire(t) ==
    /\ store[t] = "live"
    /\ store' = [store EXCEPT ![t] = "gone"]
    /\ UNCHANGED <<client, typed, req, ended>>

-----------------------------------------------------------------------------
Chain(q) == Dispatch(q) \/ Preflight(q) \/ APIAuth(q) \/ UIAuth(q) \/ Recover(q)

Handle(q) ==
    \/ Open(q) \/ BadLogin(q) \/ RefuseLogin(q) \/ LoginPanics(q)
    \/ \E t \in Tokens : Login(q, t)
    \/ Logout(q) \/ ChangePassword(q) \/ Resource(q) \/ LogsPanic(q)
    \/ Stream(q) \/ NoPodToRead(q) \/ Page(q)

Next ==
    \/ \E q \in Requests : Chain(q) \/ Handle(q)
    \/ \E q \in Requests, route \in Routes, b, c \in Tokens \union {None} :
            Arrive(q, route, b, c)
    \/ \E t \in Tokens : Expire(t)

Spec == Init /\ [][Next]_vars

\* net/http runs each request in a goroutine that the Go scheduler does not starve.
FairSpec == Spec /\ \A q \in Requests : WF_vars(Chain(q) \/ Handle(q))

-----------------------------------------------------------------------------
(* Properties *)

(***************************************************************************)
(* A client that has seen its logout answered is out: no later request     *)
(* with that session reaches a handler, whichever of the two logouts ended *)
(* it and whatever other requests are under way.                           *)
(***************************************************************************)
LoggedOutStaysOut == \A q \in Requests : req[q].late => req[q].pc # "handler"

(***************************************************************************)
(* Which nil a request can meet.  Without a client it is the service of    *)
(* the two login handlers: the logouts and the pages, which requireService *)
(* does not guard either, are out of reach because no session is accepted. *)
(* With one it is the typed client that could not be built, in GetLogs     *)
(* alone (main.go:136-139, logs.go:83, 94).                                *)
(***************************************************************************)
OnlyNilClientsPanic ==
    \A q \in Requests : req[q].pc = "panic" =>
        \/ ~client /\ req[q].route \in {"login", "uiLogin"}
        \/ client /\ ~typed /\ req[q].route = "logs"

(***************************************************************************)
(* Every request is answered, also when its handler panics.                *)
(***************************************************************************)
EveryRequestAnswered == \A q \in Requests : (req[q].pc = "chain") ~> (req[q].pc = "answered")

-----------------------------------------------------------------------------
(* What the comments say and the code does not do *)

(***************************************************************************)
(* ChangePassword "expects the username to be injected into the context by *)
(* the auth middleware" (auth/handler.go:86).  The two keys differ, so the *)
(* handler never finds it and answers 401 to everybody.                    *)
(***************************************************************************)
PasswordHandlerHasUser == \A q \in Requests : InHandler(q, {"password"}) => usernameFromCtx(q)

(***************************************************************************)
(* The hub is started "so that SSE endpoints work even in dev mode"         *)
(* (main.go:58-59).  The writer they get cannot flush, in any mode.         *)
(***************************************************************************)
StreamsWork ==
    \A q \in Requests : req[q].pc = "answered" /\ req[q].route = "events" => req[q].status # 500

(***************************************************************************)
(* What the handlers expect of the chain, in its context (auth/handler.go:86) *)
(* and in its writer (main.go:58-59).  No request of either kind gets it:   *)
(* GatewayProofs!ChainEquipsNobody.                                         *)
(***************************************************************************)
HandlersEquipped == PasswordHandlerHasUser /\ StreamsWork

=============================================================================
