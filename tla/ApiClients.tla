----------------------------- MODULE ApiClients -----------------------------
(***************************************************************************)
(* Who gets through to a handler, and what tokens can be made: the stack   *)
(* of handlers registered by router.go, requirePermission, API clients     *)
(* (internal/apiclient) and the scopes their creator may give them.        *)
(*                                                                         *)
(* A resource is a path, a sequence of segments; in a grant the last       *)
(* segment may be the wildcard. What the resolver answers about a user is  *)
(* `known', which changes whenever roles, groups or the resolver's cache   *)
(* do (RbacCache says how). Sessions are those of LoginSession; a route    *)
(* stands for all that are registered with it behind the same gates.       *)
(***************************************************************************)
EXTENDS Naturals, FiniteSets, Sequences, SequencesExt

CONSTANTS
    Account, Client, Call,
    Grants,      \* the permissions users, and the scopes clients, can have
    Resource,    \* the resources a grant may be about
    Served,      \* the routes that are requested
    MaxScopes,   \* bound on the scopes a client is created with
    DbMayFail    \* can a query return an error

\* Grants whose prefix is the wildcard itself are left out.
ASSUME ClientsAssumption ==
    /\ Account \cap Client = {}
    /\ Grants \subseteq [resource : Seq(STRING), action : STRING]
    /\ Resource \subseteq Seq(STRING)
    /\ \A g \in Grants : Len(g.resource) > 0 /\ "*" \notin ToSet(Front(g.resource))
    /\ \A r \in Resource : "*" \notin ToSet(r)
    /\ MaxScopes \in Nat /\ DbMayFail \in BOOLEAN

Grant(resource, action) == [resource |-> resource, action |-> action]

\* The path of a granted resource covers the resource: it is the same, the bare
\* wildcard, or prefix/* with the resource at the prefix or below.
Matches(path, resource) ==
    \/ path = resource
    \/ path = <<"*">>
    \/ Len(path) > 1 /\ Last(path) = "*" /\ IsPrefix(Front(path), resource)

\* Permissions of users and scopes of clients alike; a resource that is asked for
\* with a wildcard is compared as it is written.
Has(grants, wanted) ==
    \E g \in grants : g.action = wanted.action /\ Matches(g.resource, wanted.resource)

-----------------------------------------------------------------------------
(* Routes. *)

Open == Grant(<<>>, "open")         \* no gate of its own
Session == Grant(<<>>, "session")   \* requireUserActor
ApiKey == Grant(<<>>, "key")        \* requireAPIClient

Use(areas, gate) == [areas |-> areas, route |-> "", gate |-> gate]
Route(area, route, gate) == [areas |-> {area}, route |-> route, gate |-> gate]

Api == {"users", "iot", "clients"}  \* below /api/v1

\* Handlers in the order in which registerRoutes adds them. Group(prefix,
\* handlers...) adds its handlers for every path below the prefix, whichever
\* group a route is added through: self's is "/", and iot has two.
Stack == <<
    Route("users", "listUsers", Grant(<<"users">>, "read")),
    Route("users", "updateUser", Grant(<<"users">>, "manage")),
    Use(Api, Session),
    Use({"iot"}, Grant(<<"iot">>, "manage")), Route("iot", "createDevice", Open),
    Use({"iot"}, Grant(<<"iot">>, "read")), Route("iot", "queryEvents", Open),
    Use({"clients"}, Grant(<<"api_clients">>, "manage")),
    Route("clients", "createClient", Open), Route("clients", "deleteClient", Open),
    Use({"external"}, ApiKey),
    Route("external", "createUser", Grant(<<"users">>, "manage")) >>

Routes == {Stack[i].route : i \in DOMAIN Stack} \ {""}
ASSUME ServedAssumption ==
    /\ Served \subseteq Routes
    /\ \A i \in DOMAIN Stack :
           Stack[i].gate \in {Open, Session, ApiKey} \/ Stack[i].gate.resource \in Resource

Entry(route) == CHOOSE i \in DOMAIN Stack : Stack[i].route = route

\* Do the handlers at a place in the stack apply to the route?
Applies(i, r) == Stack[Entry(r)].areas \subseteq Stack[i].areas /\ Stack[i].route \in {"", r}

\* Seeded fault: the handlers before a route, but not its own.
GatesBefore(r) == {i \in 1..(Entry(r) - 1) : Applies(i, r)}

\* What a request for the route goes through: places in the stack.
GatesOf(r) == {i \in 1..Entry(r) : Applies(i, r)}

Ways == {[route |-> r, places |-> GatesOf(r)] : r \in Served}

-----------------------------------------------------------------------------
VARIABLES
    known,      \* what the resolver answers about each user
    registered, \* the clients there are
    scopes,     \* of each of them
    stage,
    actor,      \* the user or client a request acts for
    route,
    ahead,      \* the places in the stack it has yet to go through
    asked,      \* the scopes it wants for a new client
    unchecked,  \* those not checked yet
    held,       \* a client's scopes when it was authenticated; of a user, all that
                \* was known since the request began, for the properties only
    source      \* what each client's creator had held; for the properties only

clients == <<registered, scopes, source>>
accessVars == <<known, clients, stage, actor, route, ahead, asked, unchecked, held>>

NoActor == "nobody"
Labels == {"idle", "gates", "forbidden", "handler", "scopes"}

AccessInit ==
    /\ known \in [Account -> SUBSET Grants]
    /\ registered = {}
    /\ scopes = [c \in Client |-> {}] /\ source = [c \in Client |-> {}]
    /\ stage = [q \in Call |-> "idle"]
    /\ actor = [q \in Call |-> NoActor] /\ route = [q \in Call |-> ""]
    /\ ahead = [q \in Call |-> {}]
    /\ asked = [q \in Call |-> {}] /\ unchecked = [q \in Call |-> {}]
    /\ held = [q \in Call |-> {}]

\* A user's roles or groups change, or the resolver learns that they have.
Learn(u, g) ==
    /\ known' = [known EXCEPT ![u] = IF g \in @ THEN @ \ {g} ELSE @ \cup {g}]
    /\ held' = [q \in Call |-> IF actor[q] = u THEN held[q] \cup known'[u] ELSE held[q]]
    /\ UNCHANGED <<clients, stage, actor, route, ahead, asked, unchecked>>

\* What the actor of a request holds: the resolver's answer, or the scopes that
\* came with the client's row, which may have been deleted since.
Holds(q) == IF actor[q] \in Account THEN known[actor[q]] ELSE held[q]

\* authenticateAny or requireAPIClient: a session, or the key of a client that is
\* there. Other requests end here.
Begin(q, a, walk) ==
    /\ stage[q] = "idle"
    /\ a \in Account \cup registered
    /\ stage' = [stage EXCEPT ![q] = "gates"]
    /\ actor' = [actor EXCEPT ![q] = a] /\ route' = [route EXCEPT ![q] = walk.route]
    /\ ahead' = [ahead EXCEPT ![q] = walk.places]
    /\ held' = [held EXCEPT ![q] = IF a \in Account THEN known[a] ELSE scopes[a]]
    /\ UNCHANGED <<known, clients, asked, unchecked>>

\* Seeded fault: what was left to check stays for the goroutine's next request.
AnswerKeeping(q) ==
    /\ stage' = [stage EXCEPT ![q] = "idle"]
    /\ actor' = [actor EXCEPT ![q] = NoActor] /\ route' = [route EXCEPT ![q] = ""]
    /\ ahead' = [ahead EXCEPT ![q] = {}] /\ asked' = [asked EXCEPT ![q] = {}]
    /\ held' = [held EXCEPT ![q] = {}]
    /\ UNCHANGED unchecked

\* The request is answered and forgotten.
Answer(q) ==
    /\ stage' = [stage EXCEPT ![q] = "idle"]
    /\ actor' = [actor EXCEPT ![q] = NoActor] /\ route' = [route EXCEPT ![q] = ""]
    /\ ahead' = [ahead EXCEPT ![q] = {}]
    /\ asked' = [asked EXCEPT ![q] = {}] /\ unchecked' = [unchecked EXCEPT ![q] = {}]
    /\ held' = [held EXCEPT ![q] = {}]

\* requireUserActor, requireAPIClient or requirePermission lets the actor pass.
Passes(q, gate) ==
    CASE gate = Open -> TRUE
      [] gate = Session -> actor[q] \in Account
      [] gate = ApiKey -> actor[q] \in Client
      [] OTHER -> Has(Holds(q), gate)

\* The next handler of the stack; behind the last one is the route's own.
Gate(q) ==
    /\ stage[q] = "gates"
    /\ LET first == Min(ahead[q])
       IN IF ~Passes(q, Stack[first].gate)
          THEN stage' = [stage EXCEPT ![q] = "forbidden"] /\ UNCHANGED ahead
          ELSE /\ ahead' = [ahead EXCEPT ![q] = @ \ {first}]
               /\ stage' = [stage EXCEPT ![q] = IF ahead'[q] = {} THEN "handler" ELSE "gates"]
    /\ UNCHANGED <<known, clients, actor, route, asked, unchecked, held>>

\* Every handler but those below is a single step here; so is a refusal.
Respond(q) ==
    /\ \/ stage[q] = "forbidden"
       \/ stage[q] = "handler" /\ route[q] \notin {"createClient", "deleteClient"}
    /\ Answer(q)
    /\ UNCHANGED <<known, clients>>

\* handleCreateAPIClient reads the scopes the request asks for.
Ask(q, wanted) ==
    /\ stage[q] = "handler" /\ route[q] = "createClient"
    /\ stage' = [stage EXCEPT ![q] = "scopes"]
    /\ asked' = [asked EXCEPT ![q] = wanted] /\ unchecked' = [unchecked EXCEPT ![q] = wanted]
    /\ UNCHANGED <<known, clients, actor, route, ahead, held>>

\* Seeded fault: one scope that is held is enough.
CheckOneScope(q) ==
    /\ stage[q] = "scopes"
    /\ \E scope \in unchecked[q] :
           IF Has(Holds(q), scope)
           THEN /\ unchecked' = [unchecked EXCEPT ![q] = {}]
                /\ UNCHANGED <<stage, actor, route, ahead, asked, held>>
           ELSE Answer(q)
    /\ UNCHANGED <<known, clients>>

\* requireOwnScopes: one scope after the other; the first that the actor does not
\* hold ends the request.
CheckScope(q) ==
    /\ stage[q] = "scopes"
    /\ \E scope \in unchecked[q] :
           IF Has(Holds(q), scope)
           THEN /\ unchecked' = [unchecked EXCEPT ![q] = @ \ {scope}]
                /\ UNCHANGED <<stage, actor, route, ahead, asked, held>>
           ELSE Answer(q)
    /\ UNCHANGED <<known, clients>>

\* handleCreateAPIClient: the row, with a new id and key.
Create(q, c) ==
    /\ stage[q] = "scopes" /\ unchecked[q] = {}
    /\ c \notin registered
    /\ registered' = registered \cup {c}
    /\ scopes' = [scopes EXCEPT ![c] = asked[q]]
    /\ source' = [source EXCEPT ![c] = held[q]]
    /\ Answer(q)
    /\ UNCHANGED known

\* handleDeleteAPIClient, of the row only: a request of the client goes on.
Delete(q, c) ==
    /\ stage[q] = "handler" /\ route[q] = "deleteClient"
    /\ registered' = registered \ {c}
    /\ scopes' = [scopes EXCEPT ![c] = {}] /\ source' = [source EXCEPT ![c] = {}]
    /\ Answer(q)
    /\ UNCHANGED known

\* A query returns an error, a name is taken, the rate limit is exceeded.
Fail(q) ==
    /\ DbMayFail
    /\ stage[q] \in {"gates", "handler", "scopes"}
    /\ Answer(q)
    /\ UNCHANGED <<known, clients>>

AccessNext ==
    \/ \E u \in Account, g \in Grants : Learn(u, g)
    \/ \E q \in Call :
           \/ \E a \in Account \cup Client, walk \in Ways : Begin(q, a, walk)
           \/ Gate(q) \/ Respond(q) \/ CheckScope(q) \/ Fail(q)
           \/ \E wanted \in SUBSET Grants : Cardinality(wanted) <= MaxScopes /\ Ask(q, wanted)
           \/ \E c \in Client : Create(q, c) \/ Delete(q, c)

AccessSpec == AccessInit /\ [][AccessNext]_accessVars

-----------------------------------------------------------------------------
(* Properties. *)

\* Every variable has its type; a goroutine that serves no request has nothing of
\* an earlier one.
AccessTypeOK ==
    /\ known \in [Account -> SUBSET Grants]
    /\ registered \subseteq Client
    /\ scopes \in [Client -> SUBSET Grants] /\ source \in [Client -> SUBSET Grants]
    /\ stage \in [Call -> Labels]
    /\ actor \in [Call -> Account \cup Client \cup {NoActor}]
    /\ route \in [Call -> Served \cup {""}]
    /\ ahead \in [Call -> SUBSET DOMAIN Stack]
    /\ asked \in [Call -> SUBSET Grants] /\ unchecked \in [Call -> SUBSET Grants]
    /\ held \in [Call -> SUBSET Grants]
    /\ \A q \in Call :
           /\ stage[q] = "gates" => ahead[q] # {}
           /\ unchecked[q] \subseteq asked[q]
           /\ stage[q] = "idle" => asked[q] = {} /\ actor[q] = NoActor

\* What a set of grants opens, by what its wildcards mean.
Below(path) ==
    IF path = <<"*">> THEN Resource
    ELSE IF Last(path) = "*" THEN {r \in Resource : IsPrefix(Front(path), r)}
    ELSE {path} \cap Resource
Reach(grants) == UNION {{Grant(r, g.action) : r \in Below(g.resource)} : g \in grants}

\* "A token can never escalate past its creator's own access" (actor.go): no
\* client opens anything its creator did not hold at some time while creating it,
\* whatever wildcards either has, and whatever is revoked between two checks.
NoEscalation == \A c \in Client : Reach(scopes[c]) \subseteq Reach(source[c])

\* The permission of each route (docs/api-clients.md, "Available scopes").
Documented(r) ==
    CASE r = "listUsers" -> Grant(<<"users">>, "read")
      [] r \in {"updateUser", "createUser"} -> Grant(<<"users">>, "manage")
      [] r = "createDevice" -> Grant(<<"iot">>, "manage")
      [] r = "queryEvents" -> Grant(<<"iot">>, "read")
      [] r \in {"createClient", "deleteClient"} -> Grant(<<"api_clients">>, "manage")

\* A handler runs only for an actor who has held the route's permission at some
\* time since the request began. Which checks a request meets is a matter of what
\* was registered before the route and below which prefix.
Gatekept ==
    \A q \in Call : stage[q] = "handler" => Documented(route[q]) \in Reach(held[q])

\* "Any /api/v1 route works the same way for a token as it does for a logged in
\* admin; requirePermission checks the token's scopes" (docs/api-clients.md): a
\* token that holds a route's scope is not forbidden the route.
TokenLikeAdmin ==
    \A q \in Call : stage[q] = "forbidden" /\ actor[q] \in Client =>
        Documented(route[q]) \notin Reach(held[q])
=============================================================================
