--------------------------- MODULE ClustersProofs ---------------------------
(***************************************************************************)
(* Proofs about Clusters, for any number of requests, names and parameters *)
(* and any bodies: the types, that a cluster keeps at least one instance,  *)
(* and what a patch may change.                                            *)
(*                                                                         *)
(* The types alone are not inductive: a request at work has a name, one    *)
(* that waits asks for nothing, a create sets the number of instances, and *)
(* what a patch sets it to is at least 1 (AskedInv).                       *)
(***************************************************************************)
EXTENDS Clusters, TLAPS

AskedInv ==
    \A r \in Requests :
        /\ pc[r] = "idle" => asked[r] = NoFields
        /\ pc[r] # "idle" => name[r] \in Names
        /\ pc[r] = "create" => asked[r]["instances"] # None
        /\ pc[r] \in {"fetch", "patch"} =>
                asked[r]["instances"] \in {None} \cup 1..MaxValue

LEMMA StatusIsKnown ==
    ASSUME NEW o, NEW said
    PROVE  StatusOf(o, said) \in {404, 409, 422, 500}
BY DEF StatusOf

\* What Arrive leaves of a state of the right types, but for asked.
LEMMA ArriveTypes ==
    ASSUME TypeOK, NEW r \in Requests, NEW o \in Ops, NEW n \in Names,
           NEW first \in {"create", "fetch"}, Arrive(r, o, n, first),
           asked' \in [Requests -> Body]
    PROVE  TypeOK'
BY DEF TypeOK, Arrive, store

\* ... and Answer, but for the objects.
LEMMA AnswerTypes ==
    ASSUME TypeOK, NEW r \in Requests,
           NEW status \in {200, 201, 204, 404, 409, 422, 500}, Answer(r, status),
           objs' \in [Names -> Object \cup {None}], elsewhere' \subseteq Names
    PROVE  TypeOK'
BY DEF TypeOK, Answer, NoFields, Body

\* The handler's checks leave a body of fields and values.
LEMMA ArrivalTypes ==
    ASSUME TypeOK, NEW r \in Requests, NEW n \in Names, Arrival(r, n)
    PROVE  TypeOK'
<1>b. ASSUME NEW b \in Bodies PROVE \A f \in SpecFields : b[f] \in Values
  BY ClustersAssumption DEF SpecFields, Values
<1>1. ASSUME NEW b \in Bodies, ArriveCreate(r, n, b) PROVE TypeOK'
  <2>1. PICK o \in Creates : Arrive(r, o, n, "create")
    BY <1>1 DEF ArriveCreate
  <2>2. asked' \in [Requests -> Body]
    BY <1>1, <1>b DEF ArriveCreate, TypeOK, Body
  <2> QED BY <2>1, <2>2, ArriveTypes DEF Ops
<1>2. ASSUME NEW b \in Bodies, ArriveUpdate(r, n, b) PROVE TypeOK'
  <2>1. asked' \in [Requests -> Body]
    BY <1>2, <1>b DEF ArriveUpdate, TypeOK, Body
  <2> QED BY <1>2, <2>1, ArriveTypes DEF ArriveUpdate, Ops
<1>3. ASSUME NEW v \in Values, ArriveScale(r, n, v) PROVE TypeOK'
  <2>1. asked' \in [Requests -> Body]
    <3>1. ASSUME NEW b \in Body PROVE [b EXCEPT !["instances"] = v] \in Body
      BY DEF Body
    <3>2. asked[r] \in Body
      BY DEF TypeOK
    <3> QED BY <1>3, <3>1, <3>2 DEF ArriveScale, TypeOK
  <2> QED BY <1>3, <2>1, ArriveTypes DEF ArriveScale, Ops
<1>4. ASSUME NEW given \in SUBSET Params, NEW v \in Values, ArriveConfig(r, n, given, v)
      PROVE  TypeOK'
  <2>1. asked' \in [Requests -> Body]
    BY <1>4 DEF ArriveConfig, TypeOK, Body
  <2> QED BY <1>4, <2>1, ArriveTypes DEF ArriveConfig, Ops
<1>5. CASE ArriveGet(r, n)
  <2>1. PICK o \in Reads : Arrive(r, o, n, "fetch")
    BY <1>5 DEF ArriveGet
  <2>2. asked' \in [Requests -> Body]
    BY <1>5 DEF ArriveGet, TypeOK
  <2> QED BY <2>1, <2>2, ArriveTypes DEF Ops
<1>6. CASE ArriveDelete(r, n)
  <2>1. asked' \in [Requests -> Body]
    BY <1>6 DEF ArriveDelete, TypeOK
  <2> QED BY <1>6, <2>1, ArriveTypes DEF ArriveDelete, Ops
<1> QED BY <1>1, <1>2, <1>3, <1>4, <1>5, <1>6 DEF Arrival

\* An error has one of the four statuses of the handlers.
LEMMA FailureStatus ==
    ASSUME NEW r \in Requests, NEW said, ApiFails(r, said)
    PROVE  \E status \in {404, 409, 422, 500} : Answer(r, status)
<1>1. CASE op[r] \in Configs /\ pc[r] = "fetch"
  BY <1>1 DEF ApiFails
<1>2. CASE ~(op[r] \in Configs /\ pc[r] = "fetch")
  <2>1. PICK status : status = StatusOf(op[r], said)
    OBVIOUS
  <2>2. Answer(r, status)
    BY <1>2, <2>1 DEF ApiFails, Answer
  <2>3. status \in {404, 409, 422, 500}
    BY <2>1, StatusIsKnown, Zenon
  <2> QED BY <2>2, <2>3
<1> QED BY <1>1, <1>2

LEMMA FailureTypes ==
    ASSUME TypeOK, NEW r \in Requests, NEW said, ApiFails(r, said)
    PROVE  TypeOK'
<1>1. objs' \in [Names -> Object \cup {None}] /\ elsewhere' \subseteq Names
  BY DEF ApiFails, TypeOK, store
<1>2. PICK status \in {404, 409, 422, 500} : Answer(r, status)
  BY FailureStatus
<1> QED BY <1>1, <1>2, AnswerTypes

LEMMA BadStorageStatus ==
    ASSUME NEW r \in Requests, NEW said, BadStorage(r, said)
    PROVE  \E status \in {404, 409, 422, 500} : Answer(r, status)
<1>1. PICK status : status = StatusOf(op[r], said)
  OBVIOUS
<1>2. Answer(r, status)
  BY <1>1 DEF BadStorage, Answer
<1>3. status \in {404, 409, 422, 500}
  BY <1>1, StatusIsKnown, Zenon
<1> QED BY <1>2, <1>3

\* What a call does to the objects leaves objects.
LEMMA EffectTypes ==
    ASSUME TypeOK, AskedInv, NEW r \in Requests, Written(r) \/ Removed(r) \/ Created(r)
    PROVE  objs' \in [Names -> Object \cup {None}] /\ elsewhere' \subseteq Names
<1>1. CASE Written(r)
  <2>1. ASSUME NEW cur \in Object
        PROVE  [f \in Fields |-> IF f \in Diff(r) THEN asked[r][f] ELSE cur[f]] \in Object
    BY DEF TypeOK, Body, Object, Diff
  <2>2. ASSUME NEW n \in Names PROVE objs'[n] \in Object \cup {None}
    BY <1>1, <2>1 DEF Written, TypeOK
  <2> QED BY <1>1, <2>2 DEF Written, TypeOK
<1>2. CASE Removed(r)
  BY <1>2 DEF Removed, TypeOK
<1>3. CASE Created(r)
  <2>1. 0 \in Values
    BY ClustersAssumption DEF Values
  <2>2. [f \in Fields |-> IF asked[r][f] = None THEN 0 ELSE asked[r][f]] \in Object
    BY <2>1 DEF TypeOK, Body, Object
  <2>3. name[r] \in Names
    BY <1>3 DEF Created, AskedInv
  <2>4. objs' \in [Names -> Object \cup {None}]
    BY <1>3, <2>2, <2>3 DEF Created, TypeOK
  <2> QED BY <1>3, <2>3, <2>4 DEF Created, TypeOK
<1> QED BY <1>1, <1>2, <1>3

LEMMA ServiceTypes ==
    ASSUME TypeOK, AskedInv, NEW r \in Requests, ServiceStep(r)
    PROVE  TypeOK'
<1>1. CASE Fetch(r)
  <2>1. base' \in [Requests -> Object \cup {None}]
    BY <1>1 DEF Fetch, TypeOK, AskedInv
  <2>2. pc' \in [Requests -> {"idle", "create", "fetch", "patch", "delete"}]
    BY <1>1 DEF Fetch, TypeOK
  <2> QED BY <1>1, <2>1, <2>2 DEF Fetch, TypeOK, store, jobVars
<1>2. CASE Get(r) \/ FetchFindsNothing(r) \/ GoneMeanwhile(r) \/ CreateExists(r)
  <2>1. objs' \in [Names -> Object \cup {None}] /\ elsewhere' \subseteq Names
    BY <1>2 DEF TypeOK, Get, FetchFindsNothing, GoneMeanwhile, CreateExists, store
  <2>2. PICK status \in {200, 404, 409} : Answer(r, status)
    BY <1>2 DEF Get, FetchFindsNothing, GoneMeanwhile, CreateExists
  <2> QED BY <2>1, <2>2, AnswerTypes
<1>3. CASE Patch(r) \/ Remove(r) \/ Create(r) \/ AnswerLost(r)
  <2>1. Written(r) \/ Removed(r) \/ Created(r)
    BY <1>3 DEF Patch, Remove, Create, AnswerLost
  <2>2. PICK status \in {200, 201, 204, 500} : Answer(r, status)
    BY <1>3 DEF Patch, Remove, Create, AnswerLost
  <2> QED BY <2>1, <2>2, EffectTypes, AnswerTypes
<1>4. ASSUME NEW said, BadStorage(r, said) PROVE TypeOK'
  <2>1. objs' \in [Names -> Object \cup {None}] /\ elsewhere' \subseteq Names
    BY <1>4 DEF BadStorage, TypeOK, store
  <2>2. PICK status \in {404, 409, 422, 500} : Answer(r, status)
    BY <1>4, BadStorageStatus
  <2> QED BY <2>1, <2>2, AnswerTypes
<1>5. ASSUME NEW said, ApiFails(r, said) PROVE TypeOK'
  BY <1>5, FailureTypes
<1> QED BY <1>1, <1>2, <1>3, <1>4, <1>5 DEF ServiceStep

-----------------------------------------------------------------------------
(* What a request asks for *)

\* A request that begins.
LEMMA ArrivalAsks ==
    ASSUME TypeOK, AskedInv, NEW r \in Requests, NEW n \in Names, Arrival(r, n)
    PROVE  AskedInv'
<1>a. /\ "instances" \in Fields /\ "instances" \in SpecFields /\ "instances" \notin Params
      /\ None \notin Values /\ \A v \in Values : v > 0 => v \in 1..MaxValue
  BY ClustersAssumption DEF Fields, SpecFields, Values
<1>b. ASSUME NEW b \in Bodies PROVE b["instances"] \in Values
  BY ClustersAssumption DEF Values
<1>c. ASSUME NEW o, NEW first \in {"create", "fetch"}, Arrive(r, o, n, first),
             asked' \in [Requests -> Body],
             \A q \in Requests \ {r} : asked'[q] = asked[q],
             first = "create" => asked'[r]["instances"] # None,
             first = "fetch" => asked'[r]["instances"] \in {None} \cup 1..MaxValue
      PROVE  AskedInv'
  BY <1>c DEF Arrive, AskedInv, TypeOK
<1>t. asked' \in [Requests -> Body]
  BY ArrivalTypes DEF TypeOK
<1>1. ASSUME NEW b \in Bodies, ArriveCreate(r, n, b) PROVE AskedInv'
  <2>1. PICK o \in Creates : Arrive(r, o, n, "create")
    BY <1>1 DEF ArriveCreate
  <2>2. asked'[r]["instances"] = b["instances"]
    BY <1>1, <1>a DEF ArriveCreate, TypeOK
  <2>3. \A q \in Requests \ {r} : asked'[q] = asked[q]
    BY <1>1 DEF ArriveCreate, TypeOK
  <2> QED BY <2>1, <2>2, <2>3, <1>a, <1>b, <1>c, <1>t
<1>2. ASSUME NEW b \in Bodies, ArriveUpdate(r, n, b) PROVE AskedInv'
  <2>1. asked'[r]["instances"] \in {None} \cup 1..MaxValue
    BY <1>2, <1>a, <1>b DEF ArriveUpdate, TypeOK
  <2>2. \A q \in Requests \ {r} : asked'[q] = asked[q]
    BY <1>2 DEF ArriveUpdate, TypeOK
  <2> QED BY <1>2, <2>1, <2>2, <1>c, <1>t DEF ArriveUpdate
<1>3. ASSUME NEW v \in Values, ArriveScale(r, n, v) PROVE AskedInv'
  <2>1. asked'[r]["instances"] = v
    BY <1>3, <1>a DEF ArriveScale, TypeOK, Body
  <2>2. v \in 1..MaxValue
    BY <1>3 DEF ArriveScale, Values
  <2>3. \A q \in Requests \ {r} : asked'[q] = asked[q]
    BY <1>3 DEF ArriveScale, TypeOK
  <2> QED BY <1>3, <2>1, <2>2, <2>3, <1>c, <1>t DEF ArriveScale
<1>4. ASSUME NEW given \in SUBSET Params, NEW v \in Values, ArriveConfig(r, n, given, v)
      PROVE  AskedInv'
  <2>1. asked'[r]["instances"] = None
    BY <1>4, <1>a DEF ArriveConfig, TypeOK
  <2>2. \A q \in Requests \ {r} : asked'[q] = asked[q]
    BY <1>4 DEF ArriveConfig, TypeOK
  <2> QED BY <1>4, <2>1, <2>2, <1>c, <1>t DEF ArriveConfig
<1>5. CASE ArriveGet(r, n) \/ ArriveDelete(r, n)
  <2>1. PICK o : Arrive(r, o, n, "fetch")
    BY <1>5 DEF ArriveGet, ArriveDelete
  <2>2. asked' = asked
    BY <1>5 DEF ArriveGet, ArriveDelete
  <2>3. asked[r]["instances"] = None
    BY <2>1, <1>a DEF Arrive, AskedInv, NoFields
  <2> QED BY <2>1, <2>2, <2>3, <1>c, <1>t
<1> QED BY <1>1, <1>2, <1>3, <1>4, <1>5 DEF Arrival

\* A request that goes on, or is answered.
LEMMA ServiceAsks ==
    ASSUME TypeOK, AskedInv, NEW r \in Requests, ServiceStep(r)
    PROVE  AskedInv'
<1>1. CASE Fetch(r)
  BY <1>1 DEF Fetch, AskedInv, TypeOK, jobVars
<1>2. CASE \E status : Answer(r, status)
  BY <1>2 DEF Answer, AskedInv, TypeOK
<1> QED BY <1>1, <1>2 DEF ServiceStep, Get, FetchFindsNothing, BadStorage, Patch, Remove,
           GoneMeanwhile, Create, CreateExists, AnswerLost, ApiFails

-----------------------------------------------------------------------------
(* The invariants *)

ClustersInv == TypeOK /\ AskedInv /\ InstancesPositive

LEMMA InitInv == Init => ClustersInv
BY ClustersAssumption DEF Init, ClustersInv, TypeOK, AskedInv, InstancesPositive, NoFields, Body

\* A call does one of three things to the objects, or nothing.
LEMMA ServiceEffects ==
    ASSUME NEW r \in Requests, ServiceStep(r)
    PROVE  Written(r) \/ Removed(r) \/ Created(r) \/ UNCHANGED objs
BY DEF ServiceStep, Fetch, Get, FetchFindsNothing, BadStorage, Patch, Remove, GoneMeanwhile,
       Create, CreateExists, AnswerLost, ApiFails, store

\* Only Created and Written set an object's fields.
LEMMA KeepsInstances ==
    ASSUME ClustersInv, NEW r \in Requests, ServiceStep(r)
    PROVE  InstancesPositive'
<1>a. "instances" \in Fields /\ None \notin 1..MaxValue /\ 0 \in Values
  BY ClustersAssumption DEF Fields, SpecFields, Values
<1>1. CASE Written(r)
  <2>1. asked[r]["instances"] \in {None} \cup 1..MaxValue /\ name[r] \in Names
    BY <1>1 DEF Written, ClustersInv, AskedInv
  <2>2. objs'[name[r]]["instances"] =
            IF "instances" \in Diff(r) THEN asked[r]["instances"] ELSE objs[name[r]]["instances"]
    BY <1>1, <2>1, <1>a DEF Written, ClustersInv, TypeOK
  <2>3. objs'[name[r]]["instances"] >= 1
    BY <1>1, <2>1, <2>2 DEF Written, Diff, ClustersInv, InstancesPositive
  <2> QED BY <1>1, <2>3 DEF Written, ClustersInv, TypeOK, InstancesPositive
<1>2. CASE Created(r)
  <2>1. asked[r]["instances"] # None /\ name[r] \in Names
    BY <1>2 DEF Created, ClustersInv, AskedInv
  <2>2. CASE op[r] = "create"
    <3>1. objs'[name[r]]["instances"] = asked[r]["instances"]
      BY <1>2, <2>1, <2>2, <1>a DEF Created, ClustersInv, TypeOK
    <3> QED BY <1>2, <2>2, <3>1 DEF Created, ClustersInv, TypeOK, InstancesPositive
  <2>3. CASE op[r] # "create"
    BY <1>2, <2>3 DEF Created, ClustersInv, InstancesPositive
  <2> QED BY <2>2, <2>3
<1>3. CASE Removed(r)
  BY <1>3 DEF Removed, ClustersInv, TypeOK, InstancesPositive
<1>4. CASE UNCHANGED objs
  BY <1>4 DEF ClustersInv, InstancesPositive
<1> QED BY <1>1, <1>2, <1>3, <1>4, ServiceEffects

LEMMA NextInv == ClustersInv /\ [Next]_vars => ClustersInv'
<1> SUFFICES ASSUME ClustersInv, [Next]_vars PROVE ClustersInv'
  OBVIOUS
<1>1. ASSUME NEW r \in Requests, ServiceStep(r) PROVE ClustersInv'
  BY <1>1, ServiceTypes, ServiceAsks, KeepsInstances DEF ClustersInv
<1>2. ASSUME NEW r \in Requests, NEW n \in Names, Arrival(r, n) PROVE ClustersInv'
  <2>1. UNCHANGED objs
    BY <1>2 DEF Arrival, ArriveCreate, ArriveUpdate, ArriveScale, ArriveConfig, ArriveGet,
                ArriveDelete, Arrive, store
  <2>2. InstancesPositive'
    BY <2>1 DEF ClustersInv, InstancesPositive
  <2> QED BY <1>2, <2>2, ArrivalTypes, ArrivalAsks DEF ClustersInv
<1>3. CASE UNCHANGED vars
  BY <1>3 DEF vars, store, jobVars, ClustersInv, TypeOK, AskedInv, InstancesPositive
<1> QED BY <1>1, <1>2, <1>3 DEF Next

LEMMA Invariance == Spec => []ClustersInv
BY InitInv, NextInv, PTL DEF Spec

\* The state keeps its types, for any number of requests, names and parameters.
THEOREM TypeCorrect == Spec => []TypeOK
<1>1. ClustersInv => TypeOK
  BY DEF ClustersInv
<1> QED BY <1>1, Invariance, PTL

\* No cluster gets below one instance (handler.go:100, service.go:120).
THEOREM InstancesStayPositive == Spec => []InstancesPositive
<1>1. ClustersInv => InstancesPositive
  BY DEF ClustersInv
<1> QED BY <1>1, Invariance, PTL

-----------------------------------------------------------------------------
(* What a patch changes *)

\* Written alone changes an object that stays.
LEMMA OnlyWrittenChanges ==
    ASSUME ClustersInv, NEW r \in Requests, ServiceStep(r), NEW n \in Names,
           objs[n] # None, objs'[n] # None, objs'[n] # objs[n]
    PROVE  Written(r) /\ name[r] = n /\ pc'[r] = "idle"
<1>1. CASE Created(r)
  <2>1. name[r] \in Names
    BY <1>1 DEF Created, ClustersInv, AskedInv
  <2> QED BY <1>1, <2>1 DEF Created, Taken, ClustersInv, TypeOK
<1>2. CASE Removed(r)
  BY <1>2 DEF Removed, ClustersInv, TypeOK
<1>3. CASE Written(r)
  <2>1. name[r] = n
    BY <1>3 DEF Written, ClustersInv, TypeOK
  <2>2. CASE \E status : Answer(r, status)
    BY <1>3, <2>1, <2>2 DEF Answer, ClustersInv, TypeOK
  <2>3. CASE Fetch(r)
    BY <2>3 DEF Fetch, store
  <2> QED BY <2>2, <2>3 DEF ServiceStep, Get, FetchFindsNothing, BadStorage, Patch, Remove,
             GoneMeanwhile, Create, CreateExists, AnswerLost, ApiFails
<1> QED BY <1>1, <1>2, <1>3, ServiceEffects

\* No failure is answered 200.
LEMMA FailureIsNo200 ==
    ASSUME TypeOK, NEW r \in Requests, NEW said, ApiFails(r, said) \/ BadStorage(r, said)
    PROVE  answer'[r] # 200
<1>1. PICK status \in {404, 409, 422, 500} : Answer(r, status)
  BY FailureStatus, BadStorageStatus
<1> QED BY <1>1 DEF Answer, TypeOK

\* Patch alone answers 200 to a request that is no read.
LEMMA OnlyPatchAnswers200 ==
    ASSUME ClustersInv, NEW q \in Requests, ServiceStep(q), NEW r \in Requests,
           answer[r] = 0, op[r] \notin Reads, answer'[r] = 200
    PROVE  q = r /\ Patch(r)
<1>1. q = r
  <2>1. CASE Fetch(q)
    BY <2>1 DEF Fetch
  <2>2. CASE \E status : Answer(q, status)
    BY <2>2 DEF Answer, ClustersInv, TypeOK
  <2>3. ASSUME NEW said, ApiFails(q, said) PROVE \E status : Answer(q, status)
    BY <2>3, FailureStatus
  <2>4. CASE Get(q) \/ Patch(q)
    <3>1. Answer(q, 200)
      BY <2>4 DEF Get, Patch
    <3> QED BY <3>1, <2>2
  <2>5. CASE FetchFindsNothing(q) \/ GoneMeanwhile(q) \/ Remove(q) \/ Create(q)
             \/ CreateExists(q) \/ AnswerLost(q)
    <3>1. PICK status \in {404, 500, 204, 201, 409} : Answer(q, status)
      BY <2>5 DEF FetchFindsNothing, GoneMeanwhile, Remove, Create, CreateExists, AnswerLost
    <3> QED BY <3>1, <2>2
  <2>6. ASSUME NEW said, BadStorage(q, said) PROVE \E status : Answer(q, status)
    BY <2>6, BadStorageStatus
  <2> QED BY <2>1, <2>2, <2>3, <2>4, <2>5, <2>6 DEF ServiceStep
<1>2. ~Fetch(r)
  BY DEF Fetch
<1>3. ~(Get(r) \/ FetchFindsNothing(r) \/ GoneMeanwhile(r) \/ CreateExists(r) \/ Create(r)
        \/ Remove(r) \/ AnswerLost(r))
  BY DEF Get, FetchFindsNothing, GoneMeanwhile, CreateExists, Create, Remove, AnswerLost,
         Answer, ClustersInv, TypeOK
<1>4. ASSUME NEW said PROVE ~ApiFails(r, said) /\ ~BadStorage(r, said)
  BY FailureIsNo200 DEF ClustersInv
<1> QED BY <1>1, <1>2, <1>3, <1>4 DEF ServiceStep

\* What a patch leaves of a field.
LEMMA PatchedField ==
    ASSUME ClustersInv, NEW r \in Requests, Written(r), NEW f \in Fields
    PROVE  objs'[name[r]][f] = IF f \in Diff(r) THEN asked[r][f] ELSE objs[name[r]][f]
<1>1. name[r] \in Names
  BY DEF Written, ClustersInv, AskedInv
<1> QED BY <1>1 DEF Written, ClustersInv, TypeOK

\* A request changes only the fields its body sets, to the values its body sets,
\* however requests overlap (service.go:118-140, config_service.go:74-83).
THEOREM PatchesOnlyAsked == Spec => OnlyAskedFieldsChange
<1>1. ClustersInv /\ [Next]_vars
      => [\A n \in Names :
                objs[n] # None /\ objs'[n] # None /\ objs'[n] # objs[n]
                => \E r \in Requests :
                    /\ pc[r] = "patch" /\ pc'[r] = "idle" /\ name[r] = n
                    /\ \A f \in Fields :
                        objs'[n][f] # objs[n][f] => objs'[n][f] = asked[r][f]]_vars
  <2> SUFFICES ASSUME ClustersInv, Next, NEW n \in Names,
                      objs[n] # None, objs'[n] # None, objs'[n] # objs[n]
               PROVE  \E r \in Requests :
                        /\ pc[r] = "patch" /\ pc'[r] = "idle" /\ name[r] = n
                        /\ \A f \in Fields :
                            objs'[n][f] # objs[n][f] => objs'[n][f] = asked[r][f]
    OBVIOUS
  <2>1. PICK r \in Requests : ServiceStep(r) \/ \E m \in Names : Arrival(r, m)
    BY DEF Next
  <2>2. ASSUME NEW m \in Names, Arrival(r, m) PROVE FALSE
    BY <2>2 DEF Arrival, ArriveCreate, ArriveUpdate, ArriveScale, ArriveConfig, ArriveGet,
                ArriveDelete, Arrive, store
  <2>3. Written(r) /\ name[r] = n /\ pc'[r] = "idle"
    BY <2>1, <2>2, OnlyWrittenChanges
  <2>4. pc[r] = "patch"
    BY <2>3 DEF Written
  <2>5. \A f \in Fields : objs'[n][f] # objs[n][f] => objs'[n][f] = asked[r][f]
    BY <2>3, PatchedField
  <2> QED BY <2>3, <2>4, <2>5
<1> QED BY <1>1, Invariance, PTL DEF Spec, OnlyAskedFieldsChange

\* A request that answers 200 has set every field it asked for, unless somebody
\* else changed that very field after the request had read it.
THEOREM IgnoresOnlyRaced == Spec => IgnoredOnlyIfRaced
<1>1. ClustersInv /\ [Next]_vars
      => [\A r \in Requests :
                answer[r] = 0 /\ op[r] \notin Reads /\ answer'[r] = 200
                => \A f \in Fields : asked[r][f] # None =>
                    \/ objs'[name[r]][f] = asked[r][f]
                    \/ objs[name[r]][f] # base[r][f]]_vars
  <2> SUFFICES ASSUME ClustersInv, Next, NEW r \in Requests,
                      answer[r] = 0, op[r] \notin Reads, answer'[r] = 200,
                      NEW f \in Fields, asked[r][f] # None
               PROVE  \/ objs'[name[r]][f] = asked[r][f]
                      \/ objs[name[r]][f] # base[r][f]
    OBVIOUS
  <2>1. PICK q \in Requests : ServiceStep(q) \/ \E m \in Names : Arrival(q, m)
    BY DEF Next
  <2>2. ASSUME NEW m \in Names, Arrival(q, m) PROVE FALSE
    BY <2>2 DEF Arrival, ArriveCreate, ArriveUpdate, ArriveScale, ArriveConfig,
                ArriveGet, ArriveDelete, Arrive, ClustersInv, TypeOK
  <2>3. Patch(r)
    BY <2>1, <2>2, OnlyPatchAnswers200
  <2>4. objs'[name[r]][f] = IF f \in Diff(r) THEN asked[r][f] ELSE objs[name[r]][f]
    BY <2>3, PatchedField DEF Patch
  <2> QED BY <2>4 DEF Diff
<1> QED BY <1>1, Invariance, PTL DEF Spec, IgnoredOnlyIfRaced

=============================================================================
