------------------------------ MODULE Clusters ------------------------------
(***************************************************************************)
(* The operations of the cluster service (internal/cluster/service.go) and *)
(* of the configuration service (config_service.go) on the Cluster objects *)
(* of the configured namespace, with the status their handlers answer.     *)
(* Update, Scale and UpdateConfig read the object, change the copy and     *)
(* send a merge patch: the fields in which the copy differs from what was  *)
(* read, without a resource version.  Other requests act between the two   *)
(* calls.  The API server itself is external.  A create may name another   *)
(* namespace, where no later call looks.                                   *)
(*                                                                         *)
(* A field's value is a number; 0 is Go's zero value ("" for a string) and *)
(* -1 a value that does not parse, or a negative number of instances.      *)
(* A request the handler refuses before it reaches the API server answers  *)
(* at once and changes nothing; it has no step here.                       *)
(***************************************************************************)
EXTENDS Integers

CONSTANTS
    Requests,  \* the goroutines serving a request
    Names,     \* names of Cluster objects
    Params,    \* names of Postgres parameters
    Bodies,    \* bound: the bodies of create and update requests
    None,
    MaxValue   \* bound: the values of a field

ASSUME ClustersAssumption ==
    /\ MaxValue \in Nat \ {0}
    /\ {"instances", "storage", "image"} \cap Params = {}
    /\ None \notin -1..MaxValue
    /\ Bodies \subseteq [{"instances", "storage", "image"} -> -1..MaxValue]

SpecFields == {"instances", "storage", "image"}
Fields == SpecFields \cup Params
Values == -1..MaxValue
Creates == {"create", "create elsewhere"}
Reads == {"get", "get config"}
Configs == {"config", "get config"}
Ops == Creates \cup Reads \cup {"update", "scale", "config", "delete"}

VARIABLES
    objs,    \* the Cluster objects: name -> field -> value, or None
    elsewhere, \* the names of the objects created in another namespace
    pc,      \* where each request stands
    op,      \* its operation, None once it is answered
    name,    \* the {name} of its URL
    asked,   \* the fields its body sets, None for the others
    base,    \* the object it has read
    answer   \* the status of its latest answer, 0 while it is at work

jobVars == <<op, name, asked>>
store == <<objs, elsewhere>>
vars == <<store, pc, jobVars, base, answer>>

Object == [Fields -> Values]
Body == [Fields -> Values \cup {None}]
NoFields == [f \in Fields |-> None]

TypeOK ==
    /\ objs \in [Names -> Object \cup {None}]
    /\ elsewhere \subseteq Names
    /\ pc \in [Requests -> {"idle", "create", "fetch", "patch", "delete"}]
    /\ op \in [Requests -> Ops \cup {None}]
    /\ name \in [Requests -> Names \cup {None}]
    /\ asked \in [Requests -> Body]
    /\ base \in [Requests -> Object \cup {None}]
    /\ answer \in [Requests -> {0, 200, 201, 204, 404, 409, 422, 500}]

Init ==
    /\ objs = [n \in Names |-> None]
    /\ elsewhere = {}
    /\ pc = [r \in Requests |-> "idle"]
    /\ op = [r \in Requests |-> None]
    /\ name = [r \in Requests |-> None]
    /\ asked = [r \in Requests |-> NoFields]
    /\ base = [r \in Requests |-> None]
    /\ answer = [r \in Requests |-> 0]

-----------------------------------------------------------------------------
(* A request arrives, and has passed the handler's checks. *)

Arrive(r, o, n, first) ==
    /\ pc[r] = "idle"
    /\ pc' = [pc EXCEPT ![r] = first]
    /\ op' = [op EXCEPT ![r] = o]
    /\ name' = [name EXCEPT ![r] = n]
    /\ answer' = [answer EXCEPT ![r] = 0]
    /\ UNCHANGED <<store, base>>

\* Create parses the storage size ("" does not parse) and checks nothing else.
\* Its body may name another namespace than the configured one.
ArriveCreate(r, n, b) ==
    /\ b["storage"] > 0
    /\ \E o \in Creates : Arrive(r, o, n, "create")
    /\ asked' = [asked EXCEPT ![r] =
                    [f \in Fields |-> IF f \in SpecFields THEN b[f] ELSE None]]

\* Mutant: instances is taken whenever it is not zero, like the other fields.
ArriveUpdateNegative(r, n, b) ==
    /\ Arrive(r, "update", n, "fetch")
    /\ asked' = [asked EXCEPT ![r] = [f \in Fields |->
                    IF f \in SpecFields /\ b[f] # 0 THEN b[f] ELSE None]]

\* Update takes the fields that are not zero, and instances only if positive.
\* The storage size is parsed once the object has been read.
ArriveUpdate(r, n, b) ==
    /\ Arrive(r, "update", n, "fetch")
    /\ asked' = [asked EXCEPT ![r] = [f \in Fields |->
                    IF f \in SpecFields /\ b[f] # 0 /\ (f = "instances" => b[f] > 0)
                    THEN b[f] ELSE None]]

\* ScaleCluster refuses a number of instances below 1.
ArriveScale(r, n, v) ==
    /\ v >= 1
    /\ Arrive(r, "scale", n, "fetch")
    /\ asked' = [asked EXCEPT ![r]["instances"] = v]

\* validateParams refuses blank values.
ArriveConfig(r, n, given, v) ==
    /\ v > 0
    /\ Arrive(r, "config", n, "fetch")
    /\ asked' = [asked EXCEPT ![r] = [f \in Fields |-> IF f \in given THEN v ELSE None]]

ArriveGet(r, n) ==
    /\ \E o \in Reads : Arrive(r, o, n, "fetch")
    /\ UNCHANGED asked

ArriveDelete(r, n) ==
    /\ Arrive(r, "delete", n, "fetch")
    /\ UNCHANGED asked

-----------------------------------------------------------------------------
(* The calls to the API server *)

Answer(r, status) ==
    /\ pc' = [pc EXCEPT ![r] = "idle"]
    /\ answer' = [answer EXCEPT ![r] = status]
    /\ op' = [op EXCEPT ![r] = None]
    /\ name' = [name EXCEPT ![r] = None]
    /\ asked' = [asked EXCEPT ![r] = NoFields]
    /\ base' = [base EXCEPT ![r] = None]

\* fetchCluster
Fetch(r) ==
    /\ pc[r] = "fetch" /\ op[r] \notin Reads
    /\ objs[name[r]] # None
    /\ ~(op[r] = "update" /\ asked[r]["storage"] = -1)
    /\ base' = [base EXCEPT ![r] = objs[name[r]]]
    /\ pc' = [pc EXCEPT ![r] = IF op[r] = "delete" THEN "delete" ELSE "patch"]
    /\ UNCHANGED <<store, jobVars, answer>>

\* Get and GetConfig have all they answer with.
Get(r) ==
    /\ pc[r] = "fetch" /\ op[r] \in Reads
    /\ objs[name[r]] # None
    /\ Answer(r, 200)
    /\ UNCHANGED store

FetchFindsNothing(r) ==
    /\ pc[r] = "fetch"
    /\ objs[name[r]] = None
    /\ Answer(r, 404)
    /\ UNCHANGED store

\* The status of an error that is worded as said: the handlers look for these words
\* in the text of the error, whatever it is about and whoever supplied them.
StatusOf(o, said) ==
    CASE o \notin Creates /\ said = "not found" -> 404
      [] o \in Creates /\ said = "already exists" -> 409
      [] o = "config" /\ said = "validation" -> 422
      [] OTHER -> 500

\* "invalid storageSize": Update fails after it has read the object.  The error
\* quotes the size, a text of the body's own.
BadStorage(r, said) ==
    /\ pc[r] = "fetch"
    /\ objs[name[r]] # None
    /\ op[r] = "update" /\ asked[r]["storage"] = -1
    /\ Answer(r, StatusOf(op[r], said))
    /\ UNCHANGED store

\* Mutant: the difference is taken the wrong way round.
DiffSame(r) == {f \in Fields : asked[r][f] # None /\ asked[r][f] = base[r][f]}

\* What client.MergeFrom puts in the patch: the fields the request has changed
\* in its copy of what it read.
Diff(r) == {f \in Fields : asked[r][f] # None /\ asked[r][f] # base[r][f]}

\* What a call does to the objects, whether or not its answer arrives:
\* Written, Removed and Created.

\* Mutant: the whole copy is written, as an Update call would.
WrittenWhole(r) ==
    /\ pc[r] = "patch"
    /\ objs[name[r]] # None
    /\ objs' = [objs EXCEPT ![name[r]] =
                   [f \in Fields |-> IF asked[r][f] # None THEN asked[r][f] ELSE base[r][f]]]
    /\ UNCHANGED elsewhere

Written(r) ==
    /\ pc[r] = "patch"
    /\ objs[name[r]] # None
    /\ objs' = [objs EXCEPT ![name[r]] =
                   [f \in Fields |-> IF f \in Diff(r) THEN asked[r][f] ELSE @[f]]]
    /\ UNCHANGED elsewhere

Removed(r) ==
    /\ pc[r] = "delete"
    /\ objs[name[r]] # None
    /\ objs' = [objs EXCEPT ![name[r]] = None]
    /\ UNCHANGED elsewhere

Patch(r) == Written(r) /\ Answer(r, 200)

Remove(r) == Removed(r) /\ Answer(r, 204)

\* The object went away after it was read: the server's own "not found".
GoneMeanwhile(r) ==
    /\ pc[r] \in {"patch", "delete"}
    /\ objs[name[r]] = None
    /\ Answer(r, 404)
    /\ UNCHANGED store

\* The name is in use in the namespace of the create.
Taken(r) == IF op[r] = "create" THEN objs[name[r]] # None ELSE name[r] \in elsewhere

\* Mutant: what the body leaves out is stored as such.
CreatedUnset(r) ==
    /\ pc[r] = "create" /\ ~Taken(r)
    /\ asked[r]["instances"] >= 1
    /\ IF op[r] = "create"
       THEN objs' = [objs EXCEPT ![name[r]] = asked[r]] /\ UNCHANGED elsewhere
       ELSE elsewhere' = elsewhere \cup {name[r]} /\ UNCHANGED objs

\* The server's schema wants at least one instance; parameters are not set.
Created(r) ==
    /\ pc[r] = "create" /\ ~Taken(r)
    /\ asked[r]["instances"] >= 1
    /\ IF op[r] = "create"
       THEN /\ objs' = [objs EXCEPT ![name[r]] =
                           [f \in Fields |-> IF asked[r][f] = None THEN 0 ELSE asked[r][f]]]
            /\ UNCHANGED elsewhere
       ELSE /\ elsewhere' = elsewhere \cup {name[r]}
            /\ UNCHANGED objs

Create(r) == Created(r) /\ Answer(r, 201)

CreateExists(r) ==
    /\ pc[r] = "create" /\ Taken(r)
    /\ Answer(r, 409)
    /\ UNCHANGED store

\* The call fails: unreachable, forbidden, timed out, refused by a webhook or
\* by the schema.  fetchCluster of config_service.go calls every error of Get
\* "not found".
ApiFails(r, said) ==
    /\ pc[r] # "idle"
    /\ Answer(r, IF op[r] \in Configs /\ pc[r] = "fetch" THEN 404 ELSE StatusOf(op[r], said))
    /\ UNCHANGED store

\* The call is carried out and its answer is lost: the time is up, the connection
\* breaks, or the client has left and its context is cancelled.
AnswerLost(r) ==
    /\ Written(r) \/ Removed(r) \/ Created(r)
    /\ Answer(r, 500)

ServiceStep(r) ==
    \/ Fetch(r) \/ Get(r) \/ FetchFindsNothing(r)
    \/ Patch(r) \/ Remove(r) \/ GoneMeanwhile(r)
    \/ Create(r) \/ CreateExists(r) \/ AnswerLost(r)
    \/ \E said \in {"not found", "already exists", "validation", "other"} :
            BadStorage(r, said) \/ ApiFails(r, said)

Arrival(r, n) ==
    \/ \E b \in Bodies : ArriveCreate(r, n, b) \/ ArriveUpdate(r, n, b)
    \/ \E v \in Values : ArriveScale(r, n, v)
    \/ \E given \in SUBSET Params, v \in Values : ArriveConfig(r, n, given, v)
    \/ ArriveGet(r, n) \/ ArriveDelete(r, n)

Next == \E r \in Requests : ServiceStep(r) \/ \E n \in Names : Arrival(r, n)

Spec == Init /\ [][Next]_vars

-----------------------------------------------------------------------------
(* Safety *)

\* A cluster never gets a number of instances below 1, whatever the bodies
\* leave out and however requests overlap (handler.go:100, service.go:120).
InstancesPositive == \A n \in Names : objs[n] # None => objs[n]["instances"] >= 1

\* A request changes only the fields its body sets, to the values its body
\* sets, though the object it works on may have changed since it read it:
\* concurrent requests for different fields do not undo each other.
OnlyAskedFieldsChange ==
    [][\A n \in Names :
        objs[n] # None /\ objs'[n] # None /\ objs'[n] # objs[n]
        => \E r \in Requests :
            /\ pc[r] = "patch" /\ pc'[r] = "idle" /\ name[r] = n
            /\ \A f \in Fields : objs'[n][f] # objs[n][f] => objs'[n][f] = asked[r][f]]_vars

\* A request that answers 200 has set every field it asked for, unless somebody
\* else changed that very field after the request had read it.
IgnoredOnlyIfRaced ==
    [][\A r \in Requests :
        answer[r] = 0 /\ op[r] \notin Reads /\ answer'[r] = 200
        => \A f \in Fields : asked[r][f] # None =>
            \/ objs'[name[r]][f] = asked[r][f]
            \/ objs[name[r]][f] # base[r][f]]_vars

-----------------------------------------------------------------------------
(* What the code does not keep: TLC refutes it. *)

\* A cluster that a 201 has announced is there for the calls that follow, until
\* it is deleted.  Create takes the namespace of the body, Get, List and the
\* others the configured one (service.go:67 and :44, :175).
CreatedIsFound ==
    [][\A r \in Requests :
        pc[r] = "fetch" /\ answer'[r] = 404 => name[r] \notin elsewhere]_vars

=============================================================================
