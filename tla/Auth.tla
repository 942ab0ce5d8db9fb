-------------------------------- MODULE Auth --------------------------------
(***************************************************************************)
(* The authentication service (internal/auth/service.go) and its session   *)
(* store (internal/auth/session.go).  The store is a sync.Map in memory,   *)
(* shared by all requests; the credentials are one Kubernetes Secret, read *)
(* and patched through the API server with no lock and no precondition.    *)
(* Each call to the API server and each operation on the map is a step,    *)
(* and the steps of concurrent requests interleave.                        *)
(***************************************************************************)
EXTENDS Integers

CONSTANTS
    Requests,      \* the goroutines that serve Login and ChangePassword
    Ids,           \* session ids: 32 random bytes, never drawn twice
    Users,
    Passwords,     \* a password stands for the bcrypt hashes it matches
    None,
    TTL,           \* cfg.SessionTTL; nothing keeps it from being negative
    AdminEdits,    \* whether an administrator edits the Secret meanwhile
    MaxWrites,     \* bound: writes to the Secret
    MaxTime        \* bound: the clock

ASSUME AuthAssumption ==
    /\ TTL \in Int
    /\ MaxWrites \in Nat
    /\ MaxTime \in Nat
    /\ AdminEdits \in BOOLEAN
    /\ None \notin Users \cup Passwords

VARIABLES
    secret,   \* the credentials Secret
    store,    \* Store.mu: id -> session, or None
    issued,   \* the ids generateID has drawn
    now,      \* time.Now()
    pc,       \* where each request stands
    user,     \* its username argument
    newPass,  \* ChangePassword's newPassword
    base,     \* the username updateSecret fetched
    todo,     \* what DeleteAll's Range still has to visit
    \* History variables: they record, and restrict nothing.
    seen,     \* per request: the Secret's version it checked the password with
    written,  \* per request: the Secret's version its patch made
    began,    \* per request: the number of its sweep
    verOf,    \* per session: the Secret's version its login was checked with
    bornIn,   \* per session: how many sweeps had begun when it was stored
    sweeps,   \* how many calls of DeleteAll have begun
    swept,    \* per user: the number of its latest finished sweep
    changed   \* per user: the latest version a returned ChangePassword wrote

jobVars == <<pc, user, newPass, base, todo, seen, written, began>>
history == <<verOf, bornIn, sweeps, swept, changed>>
vars == <<secret, store, issued, now, jobVars, history>>

\* "present" is FALSE when the Secret has been deleted; it always has both its keys.
Secret == [present : BOOLEAN, user : Users, password : Passwords, ver : Nat]
Session == [user : Users, expires : Int]
PCs == {"idle", "create", "fetch", "patch", "deleteAll", "range"}

TypeOK ==
    /\ secret \in Secret
    /\ store \in [Ids -> Session \cup {None}]
    /\ issued \in SUBSET Ids
    /\ now \in Nat
    /\ pc \in [Requests -> PCs]
    /\ user \in [Requests -> Users \cup {None}]
    /\ newPass \in [Requests -> Passwords \cup {None}]
    /\ base \in [Requests -> Users \cup {None}]
    /\ todo \in [Requests -> SUBSET Ids]
    /\ seen \in [Requests -> Nat]
    /\ written \in [Requests -> Nat]
    /\ verOf \in [Ids -> Nat]
    /\ bornIn \in [Ids -> Nat]
    /\ sweeps \in Nat
    /\ began \in [Requests -> Nat]
    /\ swept \in [Users -> Nat]
    /\ changed \in [Users -> Nat]

Init ==
    /\ \E u \in Users, p \in Passwords :
        secret = [present |-> TRUE, user |-> u, password |-> p, ver |-> 0]
    /\ store = [t \in Ids |-> None]
    /\ issued = {}
    /\ now = 0
    /\ pc = [r \in Requests |-> "idle"]
    /\ user = [r \in Requests |-> None]
    /\ newPass = [r \in Requests |-> None]
    /\ base = [r \in Requests |-> None]
    /\ todo = [r \in Requests |-> {}]
    /\ seen = [r \in Requests |-> 0]
    /\ written = [r \in Requests |-> 0]
    /\ verOf = [t \in Ids |-> 0]
    /\ bornIn = [t \in Ids |-> 0]
    /\ sweeps = 0
    /\ began = [r \in Requests |-> 0]
    /\ swept = [u \in Users |-> 0]
    /\ changed = [u \in Users |-> 0]

SessionsOf(u) == {t \in Ids : store[t] # None /\ store[t].user = u}

\* loadCredentials and the comparison after it.  A refusal changes nothing.
Credentials(u, p) == secret.present /\ secret.user = u /\ secret.password = p

\* The request returns to its caller.
Done(r) ==
    /\ pc' = [pc EXCEPT ![r] = "idle"]
    /\ user' = [user EXCEPT ![r] = None]
    /\ newPass' = [newPass EXCEPT ![r] = None]
    /\ base' = [base EXCEPT ![r] = None]
    /\ todo' = [todo EXCEPT ![r] = {}]
    /\ seen' = [seen EXCEPT ![r] = 0]
    /\ written' = [written EXCEPT ![r] = 0]
    /\ began' = [began EXCEPT ![r] = 0]

-----------------------------------------------------------------------------
(* Login *)

LoginCheck(r, u, p) ==
    /\ pc[r] = "idle"
    /\ Credentials(u, p)
    /\ pc' = [pc EXCEPT ![r] = "create"]
    /\ user' = [user EXCEPT ![r] = u]
    /\ seen' = [seen EXCEPT ![r] = secret.ver]
    /\ UNCHANGED <<secret, store, issued, now, newPass, base, todo, written, began, history>>

\* Store.Create
Create(r, t) ==
    /\ pc[r] = "create"
    /\ t \notin issued
    /\ issued' = issued \cup {t}
    /\ store' = [store EXCEPT ![t] = [user |-> user[r], expires |-> now + TTL]]
    /\ verOf' = [verOf EXCEPT ![t] = seen[r]]
    /\ bornIn' = [bornIn EXCEPT ![t] = sweeps]
    /\ Done(r)
    /\ UNCHANGED <<secret, now, sweeps, swept, changed>>

-----------------------------------------------------------------------------
(* Sessions *)

\* What Store.Get answers: the session is there and is not past its time.
Valid(t) == store[t] # None /\ ~(now > store[t].expires)

\* Mutant: a session that is asked for is renewed, the expired ones as well.
GetRenews(t) ==
    /\ store[t] # None
    /\ ~Valid(t)
    /\ store' = [store EXCEPT ![t].expires = now + TTL]
    /\ UNCHANGED <<secret, issued, now, jobVars, history>>

\* Store.Get on an expired session deletes it.  On any other id, and on a
\* valid session, it changes nothing.
GetExpired(t) ==
    /\ store[t] # None
    /\ ~Valid(t)
    /\ store' = [store EXCEPT ![t] = None]
    /\ UNCHANGED <<secret, issued, now, jobVars, history>>

\* Store.Delete, from Logout
Logout(t) ==
    /\ t \in issued
    /\ store' = [store EXCEPT ![t] = None]
    /\ UNCHANGED <<secret, issued, now, jobVars, history>>

-----------------------------------------------------------------------------
(* ChangePassword *)

ChangeCheck(r, u, old, new) ==
    /\ pc[r] = "idle"
    /\ Credentials(u, old)
    /\ pc' = [pc EXCEPT ![r] = "fetch"]
    /\ user' = [user EXCEPT ![r] = u]
    /\ newPass' = [newPass EXCEPT ![r] = new]
    /\ seen' = [seen EXCEPT ![r] = secret.ver]
    /\ UNCHANGED <<secret, store, issued, now, base, todo, written, began, history>>

\* updateSecret reads the Secret again ...
Fetch(r) ==
    /\ pc[r] = "fetch"
    /\ secret.present
    /\ pc' = [pc EXCEPT ![r] = "patch"]
    /\ base' = [base EXCEPT ![r] = secret.user]
    /\ UNCHANGED <<secret, store, issued, now, user, newPass, todo, seen, written, began,
                   history>>

\* Mutant: the username is written under the key of the password.
PatchedWrongKey(r) ==
    [present |-> TRUE,
     user |-> IF user[r] = base[r] THEN secret.user ELSE user[r],
     password |-> user[r],
     ver |-> secret.ver + 1]

\* ... and merge-patches the keys that differ from what it read: the hash
\* always does (bcrypt salts it), the username only if it was changed.
Patched(r) ==
    [present |-> TRUE,
     user |-> IF user[r] = base[r] THEN secret.user ELSE user[r],
     password |-> newPass[r],
     ver |-> secret.ver + 1]

Patch(r) ==
    /\ pc[r] = "patch"
    /\ secret.present
    /\ secret.ver < MaxWrites
    /\ secret' = Patched(r)
    /\ written' = [written EXCEPT ![r] = secret.ver + 1]
    /\ pc' = [pc EXCEPT ![r] = "deleteAll"]
    /\ UNCHANGED <<store, issued, now, user, newPass, base, todo, seen, began, history>>

\* The API server answers with an error, or the Secret is gone.
UpdateFails(r) ==
    /\ pc[r] \in {"fetch", "patch"}
    /\ Done(r)
    /\ UNCHANGED <<secret, store, issued, now, history>>

\* The patch is applied but its answer is lost: updateSecret fails.
PatchAnswerLost(r) ==
    /\ pc[r] = "patch"
    /\ secret.present
    /\ secret.ver < MaxWrites
    /\ secret' = Patched(r)
    /\ Done(r)
    /\ UNCHANGED <<store, issued, now, history>>

\* Store.DeleteAll ranges over the map, which is no snapshot: a session that
\* is there from the start is visited, one stored meanwhile may be.
DeleteAll(r) ==
    /\ pc[r] = "deleteAll"
    /\ todo' = [todo EXCEPT ![r] = SessionsOf(user[r])]
    /\ pc' = [pc EXCEPT ![r] = "range"]
    /\ sweeps' = sweeps + 1
    /\ began' = [began EXCEPT ![r] = sweeps + 1]
    /\ UNCHANGED <<secret, store, issued, now, user, newPass, base, seen, written,
                   verOf, bornIn, swept, changed>>

Visit(r, t) ==
    /\ pc[r] = "range"
    /\ t \in todo[r] \cup SessionsOf(user[r])
    /\ store' = [store EXCEPT ![t] = None]
    /\ todo' = [todo EXCEPT ![r] = @ \ {t}]
    /\ UNCHANGED <<secret, issued, now, pc, user, newPass, base, seen, written, began, history>>

\* Mutant: the Range stops before it has visited every session.
RangeEndsEarly(r) ==
    /\ pc[r] = "range"
    /\ Done(r)
    /\ swept' = [swept EXCEPT ![user[r]] = IF began[r] > @ THEN began[r] ELSE @]
    /\ changed' = [changed EXCEPT ![user[r]] = IF written[r] > @ THEN written[r] ELSE @]
    /\ UNCHANGED <<secret, store, issued, now, verOf, bornIn, sweeps>>

RangeEnds(r) ==
    /\ pc[r] = "range"
    /\ todo[r] = {}
    /\ Done(r)
    /\ swept' = [swept EXCEPT ![user[r]] = IF began[r] > @ THEN began[r] ELSE @]
    /\ changed' = [changed EXCEPT ![user[r]] = IF written[r] > @ THEN written[r] ELSE @]
    /\ UNCHANGED <<secret, store, issued, now, verOf, bornIn, sweeps>>

-----------------------------------------------------------------------------
(* The surroundings *)

Tick ==
    /\ now < MaxTime
    /\ now' = now + 1
    /\ UNCHANGED <<secret, store, issued, jobVars, history>>

AdminWrites(u, p) ==
    /\ AdminEdits
    /\ secret.ver < MaxWrites
    /\ secret' = [present |-> TRUE, user |-> u, password |-> p, ver |-> secret.ver + 1]
    /\ UNCHANGED <<store, issued, now, jobVars, history>>

AdminDeletes ==
    /\ AdminEdits
    /\ secret.present
    /\ secret' = [secret EXCEPT !.present = FALSE]
    /\ UNCHANGED <<store, issued, now, jobVars, history>>

\* The process dies and is started again: the sessions were in its memory.
Restart ==
    /\ store' = [t \in Ids |-> None]
    /\ pc' = [r \in Requests |-> "idle"]
    /\ user' = [r \in Requests |-> None]
    /\ newPass' = [r \in Requests |-> None]
    /\ base' = [r \in Requests |-> None]
    /\ todo' = [r \in Requests |-> {}]
    /\ seen' = [r \in Requests |-> 0]
    /\ written' = [r \in Requests |-> 0]
    /\ began' = [r \in Requests |-> 0]
    /\ UNCHANGED <<secret, issued, now, history>>

RequestStep(r) ==
    \/ \E u \in Users, p \in Passwords : LoginCheck(r, u, p)
    \/ \E t \in Ids : Create(r, t)
    \/ \E u \in Users, old, new \in Passwords : ChangeCheck(r, u, old, new)
    \/ Fetch(r)
    \/ Patch(r)
    \/ UpdateFails(r)
    \/ PatchAnswerLost(r)
    \/ DeleteAll(r)
    \/ \E t \in Ids : Visit(r, t)
    \/ RangeEnds(r)

Next ==
    \/ \E r \in Requests : RequestStep(r)
    \/ \E t \in Ids : GetExpired(t) \/ Logout(t)
    \/ Tick
    \/ \E u \in Users, p \in Passwords : AdminWrites(u, p)
    \/ AdminDeletes
    \/ Restart

Spec == Init /\ [][Next]_vars

-----------------------------------------------------------------------------
(* Safety *)

\* Logged out, expired, or swept away: an id that has stopped being valid is
\* never accepted again, whatever requests are in flight (session.go:66-94).
RevocationIsFinal ==
    [][\A t \in Ids : t \in issued /\ ~Valid(t) => ~Valid(t)']_vars

\* DeleteAll leaves none of the user's sessions that were stored before it was
\* called, although other requests log in, log out and sweep meanwhile.
SweepIsComplete ==
    \A t \in Ids : store[t] # None => bornIn[t] >= swept[store[t].user]

-----------------------------------------------------------------------------
(* What the comments say and the code does not do *)

\* ChangePassword "invalidates all active sessions for the user"
\* (service.go:34-36) and every method is "safe to call concurrently"
\* (service.go:21): once it has returned, no session of the user rests on a
\* password older than the one it wrote.
ChangeEndsOldSessions ==
    \A t \in Ids : store[t] # None => verOf[t] >= changed[store[t].user]

\* ChangePassword "verifies oldPassword against the K8s Secret, replaces it"
\* (service.go:34): what the patch replaces is what was verified.
ChangeReplacesVerified ==
    [][\A r \in Requests : Patch(r) => secret.ver = seen[r]]_vars

=============================================================================
