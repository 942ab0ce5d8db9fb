--------------------------- MODULE GatewayProofs ---------------------------
(* Proofs about Gateway, for any number of requests and tokens. *)
EXTENDS Gateway, TLAPS

-----------------------------------------------------------------------------
(***************************************************************************)
(* The inductive invariant.  That a late request stays out depends on what *)
(* the middleware will find when it comes to it, and that a logout ends    *)
(* the right session on what the middleware has left in the request.       *)
(***************************************************************************)

\* A token whose logout was answered is gone, and was a token.
EndedInv == \A t \in ended : t # None /\ store[t] = "gone"

\* In a protected handler, the request's own credential has been accepted.
CredentialInv(q) ==
    req[q].pc = "handler" =>
        /\ req[q].route \in ApiRoutes => req[q].valid = req[q].bearer
        /\ req[q].route \in UiRoutes => req[q].valid = req[q].cookie
        /\ req[q].route \in ApiRoutes \union UiRoutes => client /\ req[q].valid \in Tokens \ {None}

\* A late request still presents its session, and is on its way to be refused.
LateInv(q) ==
    req[q].late =>
        /\ req[q].pc \in {"chain", "auth"} =>
            Presented(req[q].route, req[q].bearer, req[q].cookie) \in ended
        /\ req[q].pc # "handler"

RequestInv(q) ==
    /\ CredentialInv(q)
    /\ LateInv(q)
    /\ req[q].pc = "auth" => req[q].route \in ApiRoutes \union UiRoutes
    /\ req[q].pc = "panic" => \/ ~client /\ req[q].route \in {"login", "uiLogin"}
                              \/ client /\ ~typed /\ req[q].route = "logs"

IInv == TypeOK /\ EndedInv /\ \A q \in Requests : RequestInv(q)

-----------------------------------------------------------------------------
(* Types *)

\* A step that replaces one request by another.
LEMMA ReplaceType ==
    ASSUME TypeOK, NEW q \in Requests, NEW r \in Request, req' = [req EXCEPT ![q] = r]
    PROVE  /\ req' \in [Requests -> Request]
           /\ req'[q] = r
           /\ \A x \in Requests \ {q} : req'[x] = req[x]
  BY DEF TypeOK

\* Every request that is answered keeps the type of a request.
LEMMA AnswerType ==
    ASSUME TypeOK, NEW q \in Requests, NEW code \in Codes, Answer(q, code)
    PROVE  /\ req' \in [Requests -> Request]
           /\ req'[q].pc = "answered"
           /\ \A x \in Requests \ {q} : req'[x] = req[x]
<1>a. PICK no \in BOOLEAN : no = FALSE
  OBVIOUS
<1> DEFINE r == [req[q] EXCEPT !.pc = "answered", !.status = code, !.bearer = None,
                               !.cookie = None, !.late = no, !.valid = None, !.ctxKey = None]
<1>1. req[q] \in Request
  BY DEF TypeOK
<1>2. "answered" \in Steps
  BY DEF Steps
<1>3. r \in Request /\ r.pc = "answered"
  BY <1>1, <1>2 DEF Request
<1>4. req' = [req EXCEPT ![q] = r]
  BY <1>a DEF Answer
<1> HIDE DEF r
<1>5. /\ req' \in [Requests -> Request]
      /\ req'[q] = r
      /\ \A x \in Requests \ {q} : req'[x] = req[x]
  BY <1>3, <1>4, ReplaceType
<1> QED BY <1>3, <1>5

\* Requests other than the one that takes a step: what they rely on only grows.
LEMMA OtherRequest ==
    ASSUME NEW x \in Requests, RequestInv(x), req'[x] = req[x],
           UNCHANGED <<client, typed>>, ended \subseteq ended'
    PROVE  RequestInv(x)'
  BY DEF RequestInv, CredentialInv, LateInv, Presented

\* An answered request meets the invariant whatever it was.
LEMMA AnsweredRequest ==
    ASSUME NEW q \in Requests, req'[q].pc = "answered"
    PROVE  RequestInv(q)'
  BY DEF RequestInv, CredentialInv, LateInv

\* A step that answers a request and ends no session.
LEMMA AnswerStep ==
    ASSUME IInv, NEW q \in Requests, NEW code \in Codes,
           Answer(q, code), UNCHANGED <<client, typed, ended>>,
           store' \in [Tokens -> {"unused", "live", "gone"}],
           \A t \in Tokens : store[t] = "gone" => store'[t] = "gone"
    PROVE  IInv'
<1>1. /\ req' \in [Requests -> Request]
      /\ req'[q].pc = "answered"
      /\ \A x \in Requests \ {q} : req'[x] = req[x]
  BY AnswerType DEF IInv
<1>2. TypeOK' /\ EndedInv'
  BY <1>1 DEF IInv, TypeOK, EndedInv
<1>3. ASSUME NEW x \in Requests PROVE RequestInv(x)'
  <2>1. CASE x = q
    BY <2>1, <1>1, AnsweredRequest
  <2>2. CASE x # q
    BY <2>2, <1>1, OtherRequest DEF IInv
  <2> QED BY <2>1, <2>2
<1> QED BY <1>2, <1>3 DEF IInv

-----------------------------------------------------------------------------
(* The invariant *)

LEMMA InitIInv == Init => IInv
  BY DEF Init, IInv, TypeOK, Request, EndedInv, RequestInv, CredentialInv, LateInv,
         Routes, OpenRoutes, Steps, Codes

LEMMA NextIInv == IInv /\ [Next]_vars => IInv'
<1> SUFFICES ASSUME IInv, [Next]_vars PROVE IInv'
  OBVIOUS
<1>a. TypeOK /\ EndedInv /\ \A x \in Requests : RequestInv(x)
  BY DEF IInv
<1>1. ASSUME NEW q \in Requests, NEW route \in Routes, NEW b \in Tokens \union {None},
             NEW c \in Tokens \union {None}, Arrive(q, route, b, c)
      PROVE  IInv'
  <2> DEFINE late == Presented(route, b, c) \in ended
             r == [req[q] EXCEPT !.pc = "chain", !.route = route, !.bearer = b, !.cookie = c,
                                 !.late = late,
                                 !.writer = "server", !.status = 0]
  <2>a. req[q] \in Request /\ "chain" \in Steps /\ 0 \in Codes /\ late \in BOOLEAN
    BY <1>a DEF TypeOK, Steps, Codes
  <2>b. /\ r \in Request
        /\ r.pc = "chain"
        /\ r.late = late /\ r.route = route /\ r.bearer = b /\ r.cookie = c
    <3> HIDE DEF late
    <3> QED BY <2>a DEF Request
  <2>c. req' = [req EXCEPT ![q] = r] /\ UNCHANGED <<client, typed, store, ended>>
    BY <1>1 DEF Arrive
  <2> HIDE DEF r
  <2>d. /\ req' \in [Requests -> Request]
        /\ req'[q] = r
        /\ \A x \in Requests \ {q} : req'[x] = req[x]
    BY <2>b, <2>c, <1>a, ReplaceType
  <2>1. /\ req' \in [Requests -> Request]
        /\ \A x \in Requests \ {q} : req'[x] = req[x]
        /\ req'[q].pc = "chain"
        /\ req'[q].late => Presented(req'[q].route, req'[q].bearer, req'[q].cookie) \in ended
        /\ UNCHANGED <<client, typed, store, ended>>
    BY <2>b, <2>c, <2>d
  <2>2. RequestInv(q)'
    BY <2>1 DEF RequestInv, CredentialInv, LateInv, Presented
  <2>3. \A x \in Requests \ {q} : RequestInv(x)'
    BY <2>1, <1>a, OtherRequest
  <2> QED BY <2>1, <2>2, <2>3, <1>a DEF IInv, TypeOK, EndedInv
<1>2. ASSUME NEW q \in Requests, Dispatch(q) PROVE IInv'
  <2> DEFINE p == IF req[q].route \in OpenRoutes THEN "handler" ELSE "auth"
             r == [req[q] EXCEPT !.pc = p, !.writer = "wrapped"]
  <2>a. req[q] \in Request /\ p \in Steps
    BY <1>a DEF TypeOK, Steps
  <2>b. /\ r \in Request
        /\ r.pc = p /\ r.route = req[q].route /\ r.late = req[q].late
        /\ r.bearer = req[q].bearer /\ r.cookie = req[q].cookie
    <3> HIDE DEF p
    <3> QED BY <2>a DEF Request
  <2>c. req' = [req EXCEPT ![q] = r] /\ UNCHANGED <<client, typed, store, ended>>
    BY <1>2 DEF Dispatch
  <2> HIDE DEF r
  <2>d. /\ req' \in [Requests -> Request]
        /\ req'[q] = r
        /\ \A x \in Requests \ {q} : req'[x] = req[x]
    BY <2>b, <2>c, <1>a, ReplaceType
  <2>1. /\ req' \in [Requests -> Request]
        /\ \A x \in Requests \ {q} : req'[x] = req[x]
        /\ req'[q].pc = IF req[q].route \in OpenRoutes THEN "handler" ELSE "auth"
        /\ req'[q].route = req[q].route /\ req'[q].late = req[q].late
        /\ req'[q].bearer = req[q].bearer /\ req'[q].cookie = req[q].cookie
        /\ UNCHANGED <<client, typed, store, ended>>
    BY <2>b, <2>c, <2>d
  <2>2. req[q].route \in Routes \ {"preflight"} /\ req[q].pc = "chain"
    BY <1>2, <1>a DEF Dispatch, TypeOK, Request
  <2>3. req[q].late => Presented(req[q].route, req[q].bearer, req[q].cookie) \in ended
    BY <2>2, <1>a DEF RequestInv, LateInv
  <2>4. req[q].route \in OpenRoutes => ~req[q].late
    BY <2>3, <1>a DEF Presented, OpenRoutes, ApiRoutes, UiRoutes, EndedInv
  <2>5. RequestInv(q)'
    BY <2>1, <2>2, <2>3, <2>4
       DEF RequestInv, CredentialInv, LateInv, Presented, Routes, OpenRoutes, ApiRoutes, UiRoutes
  <2>6. \A x \in Requests \ {q} : RequestInv(x)'
    BY <2>1, <1>a, OtherRequest
  <2> QED BY <2>1, <2>5, <2>6, <1>a DEF IInv, TypeOK, EndedInv
<1>3. ASSUME NEW q \in Requests, Preflight(q) PROVE IInv'
  BY <1>3, <1>a, AnswerStep DEF Preflight, TypeOK, Codes
<1>4. ASSUME NEW q \in Requests, NEW t \in Tokens \union {None}, ValidateSession(t), Accept(q, t),
             t = Presented(req[q].route, req[q].bearer, req[q].cookie),
             req[q].pc = "auth"
      PROVE  IInv'
  <2>1. t \in Tokens /\ t # None /\ client /\ t \notin ended
    BY <1>4, <1>a DEF ValidateSession, EndedInv
  <2> DEFINE r == [req[q] EXCEPT !.pc = "handler", !.valid = t, !.ctxKey = UsernameKey]
  <2>a. req[q] \in Request /\ "handler" \in Steps
    BY <1>a DEF TypeOK, Steps
  <2>b. /\ r \in Request
        /\ r.pc = "handler" /\ r.valid = t /\ r.route = req[q].route /\ r.late = req[q].late
        /\ r.bearer = req[q].bearer /\ r.cookie = req[q].cookie
    BY <1>4, <2>a DEF Request
  <2>c. req' = [req EXCEPT ![q] = r] /\ UNCHANGED <<client, typed, store, ended>>
    BY <1>4 DEF Accept
  <2> HIDE DEF r
  <2>d. /\ req' \in [Requests -> Request]
        /\ req'[q] = r
        /\ \A x \in Requests \ {q} : req'[x] = req[x]
    BY <2>b, <2>c, <1>a, ReplaceType
  <2>2. /\ req' \in [Requests -> Request]
        /\ \A x \in Requests \ {q} : req'[x] = req[x]
        /\ req'[q].pc = "handler" /\ req'[q].valid = t
        /\ req'[q].route = req[q].route /\ req'[q].late = req[q].late
        /\ req'[q].bearer = req[q].bearer /\ req'[q].cookie = req[q].cookie
        /\ UNCHANGED <<client, typed, store, ended>>
    BY <2>b, <2>c, <2>d
  <2>3. ~req[q].late /\ req[q].route \in ApiRoutes \union UiRoutes
    BY <1>4, <2>1, <1>a DEF RequestInv, LateInv
  <2>4. RequestInv(q)'
    BY <1>4, <2>1, <2>2, <2>3
       DEF RequestInv, CredentialInv, LateInv, Presented, ApiRoutes, UiRoutes
  <2>5. \A x \in Requests \ {q} : RequestInv(x)'
    BY <2>2, <1>a, OtherRequest
  <2> QED BY <2>2, <2>4, <2>5, <1>a DEF IInv, TypeOK, EndedInv
<1>5. ASSUME NEW q \in Requests, APIAuth(q) PROVE IInv'
  <2>1. req[q].bearer \in Tokens \union {None}
    BY <1>a DEF TypeOK, Request
  <2>2. CASE ValidateSession(req[q].bearer)
    <3>1. req[q].bearer = Presented(req[q].route, req[q].bearer, req[q].cookie)
      BY <1>5 DEF APIAuth, Presented, ApiRoutes, UiRoutes
    <3> QED BY <1>5, <2>1, <2>2, <3>1, <1>4 DEF APIAuth
  <2>3. CASE ~ValidateSession(req[q].bearer)
    BY <1>5, <2>3, <1>a, AnswerStep DEF APIAuth, TypeOK, Codes
  <2> QED BY <2>2, <2>3
<1>6. ASSUME NEW q \in Requests, UIAuth(q) PROVE IInv'
  <2>1. req[q].cookie \in Tokens \union {None}
    BY <1>a DEF TypeOK, Request
  <2>2. CASE ValidateSession(req[q].cookie)
    <3>1. req[q].cookie = Presented(req[q].route, req[q].bearer, req[q].cookie)
      BY <1>6 DEF UIAuth, Presented, ApiRoutes, UiRoutes
    <3> QED BY <1>6, <2>1, <2>2, <3>1, <1>4 DEF UIAuth
  <2>3. CASE ~ValidateSession(req[q].cookie)
    BY <1>6, <2>3, <1>a, AnswerStep DEF UIAuth, TypeOK, Codes
  <2> QED BY <2>2, <2>3
<1>7. ASSUME NEW q \in Requests, Recover(q) PROVE IInv'
  BY <1>7, <1>a, AnswerStep DEF Recover, TypeOK, Codes
<1>8. ASSUME NEW q \in Requests, Open(q) \/ BadLogin(q) \/ RefuseLogin(q) \/ ChangePassword(q)
                                 \/ Resource(q) \/ Stream(q) \/ NoPodToRead(q) \/ Page(q)
      PROVE  IInv'
  <2>1. PICK code \in Codes : Answer(q, code)
    BY <1>8 DEF Open, BadLogin, RefuseLogin, ChangePassword, Resource, Stream, NoPodToRead, Page,
                Codes
  <2>2. UNCHANGED <<client, typed, store, ended>>
    BY <1>8 DEF Open, BadLogin, RefuseLogin, ChangePassword, Resource, Stream, NoPodToRead, Page
  <2> QED BY <2>1, <2>2, <1>a, AnswerStep DEF TypeOK
<1>9. ASSUME NEW q \in Requests, LoginPanics(q) \/ LogsPanic(q) PROVE IInv'
  <2>a. /\ req' = [req EXCEPT ![q].pc = "panic"] /\ UNCHANGED <<client, typed, store, ended>>
        /\ \/ ~client /\ req[q].route \in {"login", "uiLogin"}
           \/ client /\ ~typed /\ req[q].route = "logs"
        /\ ~req[q].late
    BY <1>9, <1>a DEF LoginPanics, LogsPanic, InHandler, RequestInv, LateInv
  <2>1. /\ req' \in [Requests -> Request]
        /\ \A x \in Requests \ {q} : req'[x] = req[x]
        /\ req'[q].pc = "panic" /\ req'[q].route = req[q].route /\ ~req'[q].late
    BY <2>a, <1>a DEF TypeOK, Request, Steps
  <2>2. RequestInv(q)'
    BY <2>a, <2>1 DEF RequestInv, CredentialInv, LateInv
  <2>3. \A x \in Requests \ {q} : RequestInv(x)'
    BY <2>a, <2>1, <1>a, OtherRequest
  <2> QED BY <2>a, <2>1, <2>2, <2>3, <1>a DEF IInv, TypeOK, EndedInv
<1>10. ASSUME NEW q \in Requests, NEW t \in Tokens, Login(q, t) PROVE IInv'
  <2>1. PICK code \in Codes : Answer(q, code)
    BY <1>10 DEF Login, Codes
  <2>2. /\ store' \in [Tokens -> {"unused", "live", "gone"}]
        /\ \A x \in Tokens : store[x] = "gone" => store'[x] = "gone"
        /\ UNCHANGED <<client, typed, ended>>
    BY <1>10, <1>a DEF Login, TypeOK
  <2> QED BY <2>1, <2>2, AnswerStep
<1>11. ASSUME NEW q \in Requests, Logout(q) PROVE IInv'
  <2>1. /\ client
        /\ req[q].valid \in Tokens \ {None}
        /\ ToDelete(q) = req[q].valid
    BY <1>11, <1>a DEF Logout, InHandler, RequestInv, CredentialInv, ToDelete, ApiRoutes, UiRoutes
  <2>2. PICK code \in Codes : Answer(q, code)
    BY <1>11, <2>1 DEF Logout, Codes
  <2>3. /\ req' \in [Requests -> Request]
        /\ req'[q].pc = "answered"
        /\ \A x \in Requests \ {q} : req'[x] = req[x]
    BY <2>2, <1>a, AnswerType
  <2>4. /\ store' = [t \in Tokens |-> IF t = req[q].valid THEN "gone" ELSE store[t]]
        /\ ended' = ended \union {req[q].valid}
        /\ UNCHANGED <<client, typed>>
    BY <1>11, <2>1 DEF Logout
  <2>5. TypeOK' /\ EndedInv'
    BY <2>1, <2>3, <2>4, <1>a DEF TypeOK, EndedInv
  <2>6. RequestInv(q)'
    BY <2>3, AnsweredRequest
  <2>7. \A x \in Requests \ {q} : RequestInv(x)'
    BY <2>3, <2>4, <1>a, OtherRequest
  <2> QED BY <2>5, <2>6, <2>7 DEF IInv
<1>12. ASSUME NEW t \in Tokens, Expire(t) PROVE IInv'
  <2>1. /\ TypeOK' /\ EndedInv'
        /\ UNCHANGED <<client, typed, req, ended>>
    BY <1>12, <1>a DEF Expire, TypeOK, EndedInv
  <2>2. \A x \in Requests : RequestInv(x)'
    BY <2>1, <1>a, OtherRequest
  <2> QED BY <2>1, <2>2 DEF IInv
<1>13. CASE UNCHANGED vars
  <2>1. \A x \in Requests : RequestInv(x)'
    BY <1>13, <1>a, OtherRequest DEF vars
  <2> QED BY <1>13, <2>1, <1>a DEF IInv, vars, TypeOK, EndedInv
<1> QED
  BY <1>1, <1>2, <1>3, <1>5, <1>6, <1>7, <1>8, <1>9, <1>10, <1>11, <1>12, <1>13
     DEF Next, Chain, Handle

-----------------------------------------------------------------------------
LEMMA Invariance == Spec => []IInv
  BY InitIInv, NextIInv, PTL DEF Spec

\* The requests, the store and the history keep their types.
THEOREM TypeCorrect == Spec => []TypeOK
<1>1. IInv => TypeOK
  BY DEF IInv
<1> QED BY <1>1, Invariance, PTL

\* A request that comes after its session's logout was answered reaches no
\* handler, however many requests and sessions there are.
THEOREM LogoutIsFinal == Spec => []LoggedOutStaysOut
<1>1. IInv => LoggedOutStaysOut
  BY DEF IInv, RequestInv, LateInv, LoggedOutStaysOut
<1> QED BY <1>1, Invariance, PTL

\* Only the two logins without a client, and GetLogs without a typed one, meet a nil.
THEOREM NilClientsPanic == Spec => []OnlyNilClientsPanic
<1>1. IInv => OnlyNilClientsPanic
  BY DEF IInv, RequestInv, OnlyNilClientsPanic
<1> QED BY <1>1, Invariance, PTL

-----------------------------------------------------------------------------
(***************************************************************************)
(* What the chain leaves in the context and which writer it hands on.      *)
(***************************************************************************)
ChainInv(q) ==
    /\ req[q].ctxKey # UsernameContextKey
    /\ req[q].pc \in {"auth", "handler", "panic"} => req[q].writer = "wrapped"

EInv == \A q \in Requests : ChainInv(q)

\* A step that changes one request, which keeps ChainInv, and no other.
LEMMA OneRequestEInv ==
    ASSUME EInv, NEW q \in Requests, ChainInv(q)',
           \A x \in Requests \ {q} : req'[x] = req[x]
    PROVE  EInv'
  BY DEF EInv, ChainInv

LEMMA AnswerEInv ==
    ASSUME TypeOK, EInv, NEW q \in Requests, NEW code \in Codes, Answer(q, code)
    PROVE  EInv'
<1>1. req[q] \in Request
  BY DEF TypeOK
<1>2. /\ req'[q].pc = "answered" /\ req'[q].ctxKey = None
      /\ \A x \in Requests \ {q} : req'[x] = req[x]
  BY <1>1 DEF Answer, TypeOK, Request
<1> QED BY <1>2, NoneAssumption, OneRequestEInv DEF ChainInv

LEMMA NextEInv == TypeOK /\ EInv /\ [Next]_vars => EInv'
<1> SUFFICES ASSUME TypeOK, EInv, [Next]_vars PROVE EInv'
  OBVIOUS
<1>a. \A q \in Requests : req[q] \in Request
  BY DEF TypeOK
<1>1. ASSUME NEW q \in Requests, NEW route \in Routes, NEW b \in Tokens \union {None},
             NEW c \in Tokens \union {None}, Arrive(q, route, b, c)
      PROVE  EInv'
  <2>1. /\ req'[q].pc = "chain" /\ req'[q].ctxKey = req[q].ctxKey
        /\ \A x \in Requests \ {q} : req'[x] = req[x]
    BY <1>1, <1>a DEF Arrive, TypeOK, Request
  <2> QED BY <2>1, OneRequestEInv DEF EInv, ChainInv
<1>2. ASSUME NEW q \in Requests, Dispatch(q) PROVE EInv'
  <2>1. /\ req'[q].writer = "wrapped" /\ req'[q].ctxKey = req[q].ctxKey
        /\ \A x \in Requests \ {q} : req'[x] = req[x]
    BY <1>2, <1>a DEF Dispatch, TypeOK, Request
  <2> QED BY <2>1, OneRequestEInv DEF EInv, ChainInv
<1>3. ASSUME NEW q \in Requests, NEW t, req[q].pc = "auth", Accept(q, t) PROVE EInv'
  <2>1. /\ req'[q].writer = req[q].writer /\ req'[q].ctxKey = UsernameKey
        /\ \A x \in Requests \ {q} : req'[x] = req[x]
    BY <1>3, <1>a DEF Accept, TypeOK, Request
  <2>2. UsernameKey # UsernameContextKey
    BY DEF UsernameKey, UsernameContextKey
  <2> QED BY <1>3, <2>1, <2>2, OneRequestEInv DEF EInv, ChainInv
<1>4. ASSUME NEW q \in Requests, req[q].pc = "handler", req' = [req EXCEPT ![q].pc = "panic"]
      PROVE  EInv'
  <2>1. /\ req'[q].writer = req[q].writer /\ req'[q].ctxKey = req[q].ctxKey
        /\ \A x \in Requests \ {q} : req'[x] = req[x]
    BY <1>4, <1>a DEF TypeOK, Request
  <2> QED BY <1>4, <2>1, OneRequestEInv DEF EInv, ChainInv
<1>5. ASSUME NEW q \in Requests, Chain(q) PROVE EInv'
  <2>1. CASE Dispatch(q)
    BY <2>1, <1>2
  <2>2. CASE Preflight(q) \/ Recover(q)
    BY <2>2, AnswerEInv DEF Preflight, Recover, Codes
  <2>3. CASE APIAuth(q)
    BY <2>3, <1>3, AnswerEInv DEF APIAuth, Codes
  <2>4. CASE UIAuth(q)
    BY <2>4, <1>3, AnswerEInv DEF UIAuth, Codes
  <2> QED BY <1>5, <2>1, <2>2, <2>3, <2>4 DEF Chain
<1>6. ASSUME NEW q \in Requests, Handle(q) PROVE EInv'
  <2>1. CASE Open(q) \/ BadLogin(q) \/ RefuseLogin(q) \/ ChangePassword(q) \/ Resource(q)
             \/ Stream(q) \/ NoPodToRead(q) \/ Page(q) \/ \E t \in Tokens : Login(q, t)
    <3>1. PICK code \in Codes : Answer(q, code)
      BY <2>1 DEF Open, BadLogin, RefuseLogin, ChangePassword, Resource, Stream, NoPodToRead,
                  Page, Login, Codes
    <3> QED BY <3>1, AnswerEInv
  <2>2. CASE LoginPanics(q) \/ LogsPanic(q)
    BY <2>2, <1>4 DEF LoginPanics, LogsPanic, InHandler
  <2>3. CASE Logout(q)
    <3>1. (\E code \in Codes : Answer(q, code)) \/ req' = [req EXCEPT ![q].pc = "panic"]
      BY <2>3 DEF Logout, Codes
    <3> QED BY <2>3, <3>1, <1>4, AnswerEInv DEF Logout, InHandler
  <2> QED BY <1>6, <2>1, <2>2, <2>3 DEF Handle
<1>7. ASSUME req' = req PROVE EInv'
  BY <1>7 DEF EInv, ChainInv
<1> QED BY <1>1, <1>5, <1>6, <1>7 DEF Next, Expire, vars

\* The password handler never finds a username, and no stream a writer that can
\* flush: what HandlersEquipped asks for fails for every request that gets there.
THEOREM ChainEquipsNobody ==
    Spec => [](\A q \in Requests :
        /\ InHandler(q, {"password"}) => ~usernameFromCtx(q)
        /\ InHandler(q, {"events", "logStream"}) => ~CanFlush(q))
<1>1. Init => EInv
  BY NoneAssumption DEF Init, EInv, ChainInv
<1>2. EInv => \A q \in Requests :
        /\ InHandler(q, {"password"}) => ~usernameFromCtx(q)
        /\ InHandler(q, {"events", "logStream"}) => ~CanFlush(q)
  BY DEF EInv, ChainInv, InHandler, usernameFromCtx, CanFlush
<1> QED BY <1>1, <1>2, NextEInv, TypeCorrect, PTL DEF Spec

=============================================================================
