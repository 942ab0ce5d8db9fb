----------------------------- MODULE AuthProofs -----------------------------
(* Proofs about Auth, for every number of requests, sessions and writes. *)
EXTENDS Auth, TLAPS

(***************************************************************************)
(* The inductive invariant.  SweepIsComplete speaks of finished sweeps; it *)
(* is preserved when a sweep finishes because of what that sweep has still *)
(* to visit while it is under way (SweepInv).                              *)
(***************************************************************************)
LocalsInv ==
    \A r \in Requests :
        /\ pc[r] # "idle" => user[r] \in Users
        /\ pc[r] \notin {"idle", "create"} => newPass[r] \in Passwords

IssuedInv == \A t \in Ids : store[t] # None => t \in issued

CountersInv ==
    /\ \A t \in Ids : bornIn[t] <= sweeps
    /\ \A u \in Users : swept[u] <= sweeps
    /\ \A r \in Requests : began[r] <= sweeps

\* A running sweep has yet to visit every session that is older than it.
SweepInv ==
    \A r \in Requests : pc[r] = "range" =>
        \A t \in Ids :
            store[t] # None /\ store[t].user = user[r] /\ t \notin todo[r]
            => bornIn[t] >= began[r]

IInv == TypeOK /\ LocalsInv /\ IssuedInv /\ CountersInv /\ SweepInv /\ SweepIsComplete

-----------------------------------------------------------------------------
\* Nothing is stored and nobody is at work in the initial states.
LEMMA InitIInv == Init => IInv
  BY AuthAssumption
     DEF Init, IInv, TypeOK, LocalsInv, IssuedInv, CountersInv, SweepInv, SweepIsComplete,
         Secret, PCs

-----------------------------------------------------------------------------
(* Type correctness *)

\* The variables hold their types after every step: a request that is at work
\* has its arguments.
LEMMA NextTypeOK == TypeOK /\ LocalsInv /\ [Next]_vars => TypeOK' /\ LocalsInv'
<1> SUFFICES ASSUME TypeOK, LocalsInv, [Next]_vars PROVE TypeOK' /\ LocalsInv'
  OBVIOUS
<1> USE AuthAssumption DEF TypeOK, LocalsInv, jobVars, history
<1>1. ASSUME NEW r \in Requests, NEW u \in Users, NEW p \in Passwords, LoginCheck(r, u, p)
      PROVE  TypeOK' /\ LocalsInv'
  BY <1>1 DEF LoginCheck, PCs, Secret
<1>2. ASSUME NEW r \in Requests, NEW t \in Ids, Create(r, t)
      PROVE  TypeOK' /\ LocalsInv'
  <2>1. [user |-> user[r], expires |-> now + TTL] \in Session
    BY <1>2 DEF Create, Session
  <2> QED BY <1>2, <2>1 DEF Create, Done, PCs
<1>3. ASSUME NEW r \in Requests, NEW u \in Users, NEW old \in Passwords, NEW new \in Passwords,
             ChangeCheck(r, u, old, new)
      PROVE  TypeOK' /\ LocalsInv'
  BY <1>3 DEF ChangeCheck, PCs, Secret
<1>4. ASSUME NEW r \in Requests, Fetch(r) PROVE TypeOK' /\ LocalsInv'
  BY <1>4 DEF Fetch, PCs, Secret
<1>5. ASSUME NEW r \in Requests, pc[r] = "patch" PROVE Patched(r) \in Secret
  <2>1. user[r] \in Users /\ newPass[r] \in Passwords
    BY <1>5
  <2> QED BY <2>1 DEF Patched, Secret
<1>6. ASSUME NEW r \in Requests, Patch(r) PROVE TypeOK' /\ LocalsInv'
  <2>1. Patched(r) \in Secret /\ secret.ver + 1 \in Nat
    BY <1>5, <1>6 DEF Patch, Secret
  <2> QED BY <1>6, <2>1 DEF Patch, PCs
<1>7. ASSUME NEW r \in Requests, UpdateFails(r) PROVE TypeOK' /\ LocalsInv'
  BY <1>7 DEF UpdateFails, Done, PCs
<1>8. ASSUME NEW r \in Requests, PatchAnswerLost(r) PROVE TypeOK' /\ LocalsInv'
  BY <1>5, <1>8 DEF PatchAnswerLost, Done, PCs
<1>9. ASSUME NEW r \in Requests, DeleteAll(r) PROVE TypeOK' /\ LocalsInv'
  BY <1>9 DEF DeleteAll, SessionsOf, PCs
<1>10. ASSUME NEW r \in Requests, NEW t \in Ids, Visit(r, t) PROVE TypeOK' /\ LocalsInv'
  BY <1>10 DEF Visit
<1>11. ASSUME NEW r \in Requests, RangeEnds(r) PROVE TypeOK' /\ LocalsInv'
  BY <1>11 DEF RangeEnds, Done, PCs
<1>12. ASSUME NEW t \in Ids, GetExpired(t) \/ Logout(t) PROVE TypeOK' /\ LocalsInv'
  BY <1>12 DEF GetExpired, Logout
<1>13. CASE Tick
  BY <1>13 DEF Tick
<1>14. ASSUME NEW u \in Users, NEW p \in Passwords, AdminWrites(u, p)
       PROVE  TypeOK' /\ LocalsInv'
  BY <1>14 DEF AdminWrites, Secret
<1>15. CASE AdminDeletes
  BY <1>15 DEF AdminDeletes, Secret
<1>16. CASE Restart
  BY <1>16 DEF Restart, PCs
<1>17. CASE UNCHANGED vars
  BY <1>17 DEF vars
<1> QED
  BY <1>1, <1>2, <1>3, <1>4, <1>6, <1>7, <1>8, <1>9, <1>10, <1>11, <1>12, <1>13, <1>14,
     <1>15, <1>16, <1>17 DEF Next, RequestStep

-----------------------------------------------------------------------------
(* Sessions *)

\* Only Create stores a session, under an id that was never issued before.
LEMMA NextIssuedInv ==
    ASSUME TypeOK, IssuedInv, [Next]_vars
    PROVE  /\ IssuedInv'
           /\ issued \subseteq issued'
           /\ \A t \in issued : store'[t] \in {store[t], None}
<1> USE DEF TypeOK, IssuedInv, jobVars, history
<1>1. ASSUME NEW r \in Requests, NEW t \in Ids, Create(r, t)
      PROVE  /\ issued' = issued \cup {t} /\ t \notin issued
             /\ \A x \in Ids \ {t} : store'[x] = store[x]
  BY <1>1 DEF Create
<1>2. CASE \E r \in Requests, t \in Ids : Create(r, t)
  BY <1>1, <1>2
<1>3. CASE \E r \in Requests, t \in Ids : Visit(r, t)
  BY <1>3 DEF Visit
<1>4. CASE \E t \in Ids : GetExpired(t) \/ Logout(t)
  BY <1>4 DEF GetExpired, Logout
<1>5. CASE Restart
  BY <1>5 DEF Restart
<1>6. CASE UNCHANGED <<store, issued>>
  BY <1>6
<1> QED
  BY <1>2, <1>3, <1>4, <1>5, <1>6
     DEF Next, RequestStep, vars, LoginCheck, ChangeCheck, Fetch, Patch, UpdateFails,
         PatchAnswerLost, DeleteAll, RangeEnds, Tick, AdminWrites, AdminDeletes

\* The clock never goes back.
LEMMA ClockAdvances ==
    ASSUME TypeOK, [Next]_vars
    PROVE  now' \in Nat /\ now <= now'
  BY DEF TypeOK, Next, RequestStep, vars, LoginCheck, Create, ChangeCheck, Fetch, Patch,
         UpdateFails, PatchAnswerLost, DeleteAll, Visit, RangeEnds, GetExpired, Logout,
         Tick, AdminWrites, AdminDeletes, Restart

-----------------------------------------------------------------------------
(* Sweeps *)

\* The sweeps are numbered in the order they begin, and each session knows how
\* many had begun when it was stored.
LEMMA NextCountersInv == TypeOK /\ LocalsInv /\ CountersInv /\ [Next]_vars => CountersInv'
<1> SUFFICES ASSUME TypeOK, LocalsInv, CountersInv, [Next]_vars PROVE CountersInv'
  OBVIOUS
<1> USE DEF TypeOK, LocalsInv, CountersInv, jobVars, history
<1>1. ASSUME NEW r \in Requests, NEW t \in Ids, Create(r, t) PROVE CountersInv'
  BY <1>1 DEF Create, Done
<1>2. ASSUME NEW r \in Requests, DeleteAll(r) PROVE CountersInv'
  BY <1>2 DEF DeleteAll
<1>3. ASSUME NEW r \in Requests, RangeEnds(r) PROVE CountersInv'
  BY <1>3 DEF RangeEnds, Done
<1>4. ASSUME NEW r \in Requests, UpdateFails(r) \/ PatchAnswerLost(r) PROVE CountersInv'
  BY <1>4 DEF UpdateFails, PatchAnswerLost, Done
<1>5. CASE Restart
  BY <1>5 DEF Restart
<1>6. CASE UNCHANGED <<bornIn, swept, sweeps, began>>
  BY <1>6
<1> QED
  BY <1>1, <1>2, <1>3, <1>4, <1>5, <1>6
     DEF Next, RequestStep, vars, LoginCheck, ChangeCheck, Fetch, Patch, Visit, GetExpired,
         Logout, Tick, AdminWrites, AdminDeletes

\* A step that stores no session and begins or ends no sweep leaves every sweep
\* with no less done than before.
LEMMA QuietStep ==
    ASSUME TypeOK, LocalsInv, SweepInv, SweepIsComplete,
           UNCHANGED <<bornIn, swept>>,
           \A t \in Ids : store'[t] \in {store[t], None},
           \A r \in Requests : pc'[r] = "range" =>
              /\ pc[r] = "range" /\ user'[r] = user[r] /\ began'[r] = began[r]
              /\ \A t \in Ids : t \in todo[r] /\ store'[t] # None => t \in todo'[r]
    PROVE  SweepInv' /\ SweepIsComplete'
  BY DEF SweepInv, SweepIsComplete

\* A sweep that began before a session was stored owes nothing to it; a sweep
\* that ends has visited every session older than itself.
LEMMA NextSweepInv == IInv /\ [Next]_vars => SweepInv' /\ SweepIsComplete'
<1> SUFFICES ASSUME TypeOK, LocalsInv, IssuedInv, CountersInv, SweepInv, SweepIsComplete,
                    [Next]_vars
             PROVE  SweepInv' /\ SweepIsComplete'
  BY DEF IInv
<1>1. ASSUME NEW r \in Requests, NEW t \in Ids, Create(r, t)
      PROVE  SweepInv' /\ SweepIsComplete'
  <2>1. /\ bornIn'[t] = sweeps /\ sweeps \in Nat
        /\ \A x \in Ids \ {t} : store'[x] = store[x] /\ bornIn'[x] = bornIn[x]
        /\ store'[t] # None => store'[t].user \in Users
        /\ swept' = swept
    BY <1>1 DEF Create, TypeOK, LocalsInv
  <2>2. \A q \in Requests : pc'[q] = "range" =>
            /\ pc[q] = "range" /\ user'[q] = user[q] /\ began'[q] = began[q]
            /\ todo'[q] = todo[q]
    BY <1>1 DEF Create, Done, TypeOK
  <2>3. \A u \in Users : swept[u] <= sweeps
    BY DEF CountersInv
  <2>4. \A q \in Requests : began[q] <= sweeps
    BY DEF CountersInv
  <2>5. SweepIsComplete'
    BY <2>1, <2>3 DEF SweepIsComplete
  <2>6. SweepInv'
    BY <2>1, <2>2, <2>4 DEF SweepInv
  <2> QED BY <2>5, <2>6
<1>2. ASSUME NEW r \in Requests, DeleteAll(r) PROVE SweepInv' /\ SweepIsComplete'
  <2>1. /\ todo'[r] = SessionsOf(user[r])
        /\ UNCHANGED <<store, user, bornIn, swept>>
        /\ \A q \in Requests \ {r} :
              pc'[q] = pc[q] /\ todo'[q] = todo[q] /\ began'[q] = began[q]
    BY <1>2 DEF DeleteAll, TypeOK
  <2> QED BY <2>1 DEF SweepInv, SweepIsComplete, SessionsOf
<1>3. ASSUME NEW r \in Requests, RangeEnds(r) PROVE SweepInv' /\ SweepIsComplete'
  <2>1. /\ pc[r] = "range" /\ todo[r] = {} /\ user[r] \in Users
        /\ UNCHANGED <<store, bornIn>>
        /\ \A u \in Users \ {user[r]} : swept'[u] = swept[u]
        /\ swept'[user[r]] \in {swept[user[r]], began[r]}
    BY <1>3 DEF RangeEnds, TypeOK, LocalsInv
  <2>2. \A t \in Ids : store[t] # None /\ store[t].user = user[r] => bornIn[t] >= began[r]
    BY <2>1 DEF SweepInv
  <2>3. SweepIsComplete'
    BY <2>1, <2>2 DEF SweepIsComplete, TypeOK, Session
  <2>4. \A q \in Requests : pc'[q] = "range" =>
            /\ pc[q] = "range" /\ user'[q] = user[q] /\ began'[q] = began[q]
            /\ todo'[q] = todo[q]
    BY <1>3 DEF RangeEnds, Done, TypeOK
  <2>5. SweepInv'
    BY <2>1, <2>4 DEF SweepInv
  <2> QED BY <2>3, <2>5
<1>4. ASSUME NEW r \in Requests, NEW t \in Ids, Visit(r, t)
      PROVE  SweepInv' /\ SweepIsComplete'
  <2>1. /\ store'[t] = None /\ \A x \in Ids : store'[x] \in {store[x], None}
        /\ \A q \in Requests, x \in Ids : x \in todo[q] /\ x # t => x \in todo'[q]
        /\ UNCHANGED <<pc, user, began, bornIn, swept>>
    BY <1>4 DEF Visit, TypeOK, history
  <2> QED BY <2>1, QuietStep
<1>5. ASSUME NEW t \in Ids, GetExpired(t) \/ Logout(t) PROVE SweepInv' /\ SweepIsComplete'
  <2>1. /\ \A x \in Ids : store'[x] \in {store[x], None}
        /\ UNCHANGED <<jobVars, bornIn, swept>>
    BY <1>5 DEF GetExpired, Logout, TypeOK, history
  <2> QED BY <2>1, QuietStep DEF jobVars
<1>6. CASE Restart
  BY <1>6, QuietStep DEF Restart, TypeOK, history
<1>7. ASSUME NEW r \in Requests, UpdateFails(r) \/ PatchAnswerLost(r)
      PROVE  SweepInv' /\ SweepIsComplete'
  <2>1. /\ UNCHANGED <<store, bornIn, swept>>
        /\ pc'[r] = "idle"
        /\ \A q \in Requests \ {r} :
              pc'[q] = pc[q] /\ user'[q] = user[q] /\ todo'[q] = todo[q] /\ began'[q] = began[q]
    BY <1>7 DEF UpdateFails, PatchAnswerLost, Done, TypeOK, history
  <2> QED BY <2>1, QuietStep
<1>8. ASSUME NEW r \in Requests,
             \/ \E u \in Users, p \in Passwords : LoginCheck(r, u, p)
             \/ \E u \in Users, old, new \in Passwords : ChangeCheck(r, u, old, new)
             \/ Fetch(r)
             \/ Patch(r)
      PROVE  SweepInv' /\ SweepIsComplete'
  <2>1. /\ UNCHANGED <<store, bornIn, swept, todo, began>>
        /\ pc'[r] # "range"
        /\ \A q \in Requests \ {r} : pc'[q] = pc[q] /\ user'[q] = user[q]
    BY <1>8 DEF LoginCheck, ChangeCheck, Fetch, Patch, TypeOK, history
  <2> QED BY <2>1, QuietStep
<1>9. CASE UNCHANGED <<store, jobVars, bornIn, swept>>
  BY <1>9, QuietStep DEF jobVars
<1> QED
  BY <1>1, <1>2, <1>3, <1>4, <1>5, <1>6, <1>7, <1>8, <1>9
     DEF Next, RequestStep, vars, Tick, AdminWrites, AdminDeletes, history

-----------------------------------------------------------------------------
(* The theorems *)

\* The inductive invariant holds in every reachable state.
LEMMA Invariance == Spec => []IInv
<1>1. IInv /\ [Next]_vars => IInv'
  BY NextTypeOK, NextIssuedInv, NextCountersInv, NextSweepInv DEF IInv
<1> QED BY <1>1, InitIInv, PTL DEF Spec

\* Type correctness: the session map holds sessions of known users, and a
\* request past its check has the arguments the next call needs.
THEOREM TypeCorrect == Spec => []TypeOK
<1>1. IInv => TypeOK
  BY DEF IInv
<1> QED BY <1>1, Invariance, PTL

\* DeleteAll removes every session of the user stored before it was called,
\* for any number of logins, logouts and sweeps running at the same time.
THEOREM SweepsComplete == Spec => []SweepIsComplete
<1>1. IInv => SweepIsComplete
  BY DEF IInv
<1> QED BY <1>1, Invariance, PTL

\* An id that has stopped being a valid session never becomes one again.
THEOREM RevocationHolds == Spec => RevocationIsFinal
<1>1. ASSUME IInv, [Next]_vars, NEW t \in Ids, t \in issued, ~Valid(t)
      PROVE  ~Valid(t)'
  <2>1. /\ TypeOK /\ IssuedInv
        /\ now \in Nat /\ now' \in Nat /\ now <= now'
        /\ store'[t] \in {store[t], None}
    BY <1>1, ClockAdvances, NextIssuedInv DEF IInv, TypeOK
  <2>2. store[t] # None => store[t].expires \in Int
    BY <2>1 DEF TypeOK, Session
  <2> QED BY <1>1, <2>1, <2>2 DEF Valid
<1>2. IInv /\ [Next]_vars => [\A t \in Ids : t \in issued /\ ~Valid(t) => ~Valid(t)']_vars
  BY <1>1
<1> QED BY <1>2, Invariance, PTL DEF Spec, RevocationIsFinal

=============================================================================
