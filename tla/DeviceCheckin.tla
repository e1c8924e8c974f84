--------------------------- MODULE DeviceCheckin ---------------------------
(***************************************************************************)
(* internal/iot behind handleDeviceCheckin: a reader sends one or more     *)
(* scanned credentials; the server resolves them to a user, records an     *)
(* event and answers whether the user may pass and whether there was such  *)
(* an event today.                                                         *)
(*                                                                         *)
(* Each query is a step; check-ins interleave with each other and with     *)
(* administrators who enrol and remove credentials and delete users. All   *)
(* check-ins here are of one event type.                                   *)
(***************************************************************************)
EXTENDS Naturals, Sequences, FiniteSets

CONSTANTS
    Checkin,      \* goroutines that serve check-ins
    User, Nobody,
    Ref,          \* credentials a reader can scan: a type and a reference
    Resource, NoResource,
    Factors,      \* bound on the number of credentials of a check-in
    MaxEvents,    \* bound on the number of events
    MaxDay,       \* bound on the number of midnights
    ForeignKeys,  \* does the database enforce its foreign keys
    DbMayFail     \* can a query return an error

ASSUME CheckinAssumption ==
    /\ Nobody \notin User /\ NoResource \notin Resource
    /\ Factors \in Nat \ {0} /\ MaxEvents \in Nat /\ MaxDay \in Nat
    /\ ForeignKeys \in BOOLEAN /\ DbMayFail \in BOOLEAN
    /\ IsFiniteSet(Checkin)

Scan == UNION {[1..n -> Ref] : n \in 1..Factors}

Request == [proofs : Scan, resource : Resource \cup {NoResource}]

Event == [user : User \cup {Nobody}, resource : Resource \cup {NoResource},
          status : {"matched", "unmatched", "mismatch"}, day : 0..MaxDay]

VARIABLES
    users,       \* rows of users
    owner,       \* device_credentials: whose each credential is
    events,      \* device_events, in order
    today,
    pc, req,     \* what each check-in does next, and its parameters
    next,        \* the credential it resolves next
    found,       \* userID of ResolveUser
    clock,       \* the day it read from the clock
    event,       \* the event it recorded
    \* History, read by the properties only:
    held,        \* whose each check-in's credentials were at some time since it
                 \* began
    deserved,    \* of each event: does what its check-in held bear it out
    answers      \* the answers given to matched check-ins

tables == <<users, owner, events, today>>
local == <<pc, req, next, found, clock, event>>
vars == <<tables, local, held, deserved, answers>>

Scanned(r) == {r.proofs[k] : k \in DOMAIN r.proofs}

NoRequest == [proofs |-> <<>>, resource |-> NoResource]

Init ==
    /\ users = User
    /\ owner = [r \in Ref |-> Nobody]
    /\ events = <<>> /\ today = 0
    /\ pc = [c \in Checkin |-> "idle"]
    /\ req = [c \in Checkin |-> NoRequest]
    /\ next = [c \in Checkin |-> 0]
    /\ found = [c \in Checkin |-> Nobody]
    /\ clock = [c \in Checkin |-> 0]
    /\ event = [c \in Checkin |-> 0]
    /\ held = [c \in Checkin |-> {}]
    /\ deserved = <<>> /\ answers = {}

-----------------------------------------------------------------------------
(* A check-in. *)

\* Check-ins under way whose event is still to come.
Expected == {c \in Checkin : pc[c] \in {"resolve", "matched", "unmatched", "mismatch"}}

\* requireDeviceKey has let the reader in; a malformed request is refused.
Receive(c, r) ==
    /\ pc[c] = "idle"
    /\ Len(events) + Cardinality(Expected) < MaxEvents
    /\ pc' = [pc EXCEPT ![c] = "resolve"]
    /\ req' = [req EXCEPT ![c] = r]
    /\ next' = [next EXCEPT ![c] = 1]
    /\ held' = [held EXCEPT ![c] = {<<p, owner[p]>> : p \in Scanned(r)} \cap (Ref \X User)]
    /\ UNCHANGED <<tables, found, clock, event, deserved, answers>>

\* ResolveUser is left with this outcome, and the handler reads the time.
Outcome(c, status) ==
    /\ pc' = [pc EXCEPT ![c] = status]
    /\ clock' = [clock EXCEPT ![c] = today]

\* Seeded fault: the loop assigns to a variable of its own, and the user is lost.
AgreeShadowed(c, who) ==
    /\ next' = [next EXCEPT ![c] = @ + 1]
    /\ IF next[c] = Len(req[c].proofs) THEN Outcome(c, "matched")
                                       ELSE UNCHANGED <<pc, clock>>
    /\ UNCHANGED found

\* The credential is the first one's user's; the loop goes on or ends.
Agree(c, who) ==
    /\ found' = [found EXCEPT ![c] = who]
    /\ next' = [next EXCEPT ![c] = @ + 1]
    /\ IF next[c] = Len(req[c].proofs) THEN Outcome(c, "matched")
                                       ELSE UNCHANGED <<pc, clock>>

\* Seeded fault: all credentials but the first only have to be somebody's.
FirstProofDecides(c) ==
    /\ pc[c] = "resolve"
    /\ LET who == owner[req[c].proofs[next[c]]] IN
         IF who = Nobody THEN Outcome(c, "unmatched") /\ UNCHANGED <<next, found>>
                         ELSE Agree(c, IF next[c] = 1 THEN who ELSE found[c])
    /\ UNCHANGED <<tables, req, event, held, deserved, answers>>

\* resolveCredential of the next proof, and what ResolveUser makes of it.
Resolve(c) ==
    /\ pc[c] = "resolve"
    /\ LET who == owner[req[c].proofs[next[c]]] IN
       \/ /\ who = Nobody \/ DbMayFail
          /\ Outcome(c, "unmatched") /\ UNCHANGED <<next, found>>
       \/ /\ who # Nobody /\ next[c] > 1 /\ who # found[c]
          /\ Outcome(c, "mismatch") /\ UNCHANGED <<next, found>>
       \/ /\ who # Nobody /\ (next[c] > 1 => who = found[c])
          /\ Agree(c, who)
    /\ UNCHANGED <<tables, req, event, held, deserved, answers>>

Resolved(c) == pc[c] \in {"matched", "unmatched", "mismatch"}

\* The check-in is answered, with or without an event.
Finish(c) ==
    /\ pc' = [pc EXCEPT ![c] = "idle"]
    /\ req' = [req EXCEPT ![c] = NoRequest]
    /\ next' = [next EXCEPT ![c] = 0]
    /\ found' = [found EXCEPT ![c] = Nobody]
    /\ clock' = [clock EXCEPT ![c] = 0]
    /\ event' = [event EXCEPT ![c] = 0]
    /\ held' = [held EXCEPT ![c] = {}]

\* The user of the event: ResolveUser returns none with an error.
Whom(c) == IF pc[c] = "matched" THEN found[c] ELSE Nobody

\* Is the outcome one that the credentials' owners during the check-in admit?
Deserved(c) ==
    /\ pc[c] = "matched" => \A p \in Scanned(req[c]) : <<p, found[c]>> \in held[c]
    /\ pc[c] = "mismatch" => \E g, h \in held[c] : g[2] # h[2]

\* RecordEvent, at the time the handler read. Only a match goes on.
Record(c) ==
    /\ Resolved(c)
    /\ ForeignKeys => Whom(c) \in users \cup {Nobody}
    /\ events' = Append(events, [user |-> Whom(c), resource |-> req[c].resource,
                                 status |-> pc[c], day |-> clock[c]])
    /\ deserved' = Append(deserved, Deserved(c))
    /\ IF pc[c] = "matched"
       THEN /\ event' = [event EXCEPT ![c] = Len(events) + 1]
            /\ pc' = [pc EXCEPT ![c] = "permission"]
            /\ held' = [held EXCEPT ![c] = {}]
            /\ UNCHANGED <<req, next, found, clock>>
       ELSE Finish(c)
    /\ UNCHANGED <<users, owner, today, answers>>

\* The insert fails, on its own account or for a user deleted since.
RecordFails(c) ==
    /\ Resolved(c)
    /\ DbMayFail \/ (ForeignKeys /\ Whom(c) \notin users \cup {Nobody})
    /\ Finish(c)
    /\ UNCHANGED <<tables, deserved, answers>>

\* HasPermission of "<resource>:access", which RbacCache models: its answer goes
\* to the reader and decides nothing here. Then HasEventToday reads the time.
CheckAccess(c) ==
    /\ pc[c] = "permission"
    /\ pc' = [pc EXCEPT ![c] = "count"]
    /\ clock' = [clock EXCEPT ![c] = today]
    /\ UNCHANGED <<tables, req, next, found, event, held, deserved, answers>>

\* Seeded fault: the comparison of times leaves out the day itself.
StrictlySince(u, r, start) ==
    \E n \in DOMAIN events :
        events[n].user = u /\ events[n].resource = r /\ events[n].day > start

\* HasEventToday. A resource that was not given is stored as NULL, which equals
\* nothing.
HasEventToday(u, r, start) ==
    /\ r # NoResource
    /\ \E n \in DOMAIN events :
        events[n].user = u /\ events[n].resource = r /\ events[n].day >= start

\* Is there an event of that user, resource and day besides this one?
Another(n, u, r, day) ==
    \E m \in DOMAIN events \ {n} :
        events[m].user = u /\ events[m].resource = r /\ events[m].day = day

\* The answer, with what the properties need to know about it; already is
\* "unknown" when the count failed, which the reader sees as FALSE.
Answer(c, already) ==
    [event |-> event[c], user |-> found[c], resource |-> req[c].resource,
     already |-> already, day |-> clock[c],
     another |-> Another(event[c], found[c], req[c].resource, clock[c])]

\* The count and the answer.
Count(c) ==
    /\ pc[c] = "count"
    /\ \E already \in {IF HasEventToday(found[c], req[c].resource, clock[c])
                       THEN "yes" ELSE "no"}
                      \cup (IF DbMayFail THEN {"unknown"} ELSE {}) :
         answers' = answers \cup {Answer(c, already)}
    /\ Finish(c)
    /\ UNCHANGED <<tables, deserved>>

-----------------------------------------------------------------------------
(* Administrators, and the clock. *)

\* UNIQUE (credential_type, credential_ref) refuses a second owner.
AddCredential(u, r) ==
    /\ owner[r] = Nobody
    /\ ForeignKeys => u \in users
    /\ owner' = [owner EXCEPT ![r] = u]
    /\ held' = [c \in Checkin |-> IF c \in Expected /\ r \in Scanned(req[c])
                                    THEN held[c] \cup {<<r, u>>} ELSE held[c]]
    /\ UNCHANGED <<users, events, today, local, deserved, answers>>

DeleteCredential(r) ==
    /\ owner[r] # Nobody
    /\ owner' = [owner EXCEPT ![r] = Nobody]
    /\ UNCHANGED <<users, events, today, local, held, deserved, answers>>

\* ON DELETE CASCADE and ON DELETE SET NULL, where they are executed.
DeleteUser(u) ==
    /\ u \in users
    /\ users' = users \ {u}
    /\ IF ForeignKeys
       THEN /\ owner' = [r \in Ref |-> IF owner[r] = u THEN Nobody ELSE owner[r]]
            /\ events' = [n \in DOMAIN events |->
                            IF events[n].user = u THEN [events[n] EXCEPT !.user = Nobody]
                                                  ELSE events[n]]
       ELSE UNCHANGED <<owner, events>>
    /\ UNCHANGED <<today, local, held, deserved, answers>>

Midnight ==
    /\ today < MaxDay
    /\ today' = today + 1
    /\ UNCHANGED <<users, owner, events, local, held, deserved, answers>>

Serve(c) ==
    \/ \E r \in Request : Receive(c, r)
    \/ Resolve(c) \/ Record(c) \/ RecordFails(c) \/ CheckAccess(c) \/ Count(c)

Next ==
    \/ \E c \in Checkin : Serve(c)
    \/ \E u \in User, r \in Ref : AddCredential(u, r)
    \/ \E r \in Ref : DeleteCredential(r)
    \/ \E u \in User : DeleteUser(u)
    \/ Midnight

Spec == Init /\ [][Next]_vars

-----------------------------------------------------------------------------
(* Properties. *)

\* Every variable has its type: device_events holds rows its columns can hold,
\* and a check-in that is past ResolveUser with a match has a user.
TypeOK ==
    /\ users \subseteq User
    /\ owner \in [Ref -> User \cup {Nobody}]
    /\ events \in Seq(Event) /\ Len(events) <= MaxEvents
    /\ today \in 0..MaxDay
    /\ pc \in [Checkin -> {"idle", "resolve", "matched", "unmatched", "mismatch",
                           "permission", "count"}]
    /\ \A c \in Checkin : req[c] \in Request \/ (pc[c] = "idle" /\ req[c] = NoRequest)
    /\ next \in [Checkin -> 0..(Factors + 1)]
    /\ found \in [Checkin -> User \cup {Nobody}]
    /\ \A c \in Checkin : pc[c] \in {"matched", "permission", "count"} => found[c] \in User
    /\ clock \in [Checkin -> 0..MaxDay]
    /\ event \in [Checkin -> 0..MaxEvents]
    /\ held \in [Checkin -> SUBSET (Ref \X User)]
    /\ deserved \in Seq(BOOLEAN) /\ Len(deserved) = Len(events)

\* An event says "matched" with a user only if every credential of that scan was
\* that user's at some time during the check-in, and "mismatch" only if two of
\* them were different people's (ResolveUser: "all proofs must agree on the
\* same user_id"). Credentials may be removed and enrolled for somebody else
\* between the queries.
StatusDeserved == \A n \in DOMAIN deserved : deserved[n]

\* A user who is still there is told by two check-ins at one resource and day that there
\* was no event before, which a canteen that gives one discount a day takes as two
\* discounts, only if midnight fell between the recording and the count of each
\* (iot_handlers.go:147, repository.go:202): however the two overlap, an event of the
\* day, and be it that of one of them alone, keeps the other or its own from being first.
NoSecondFirst ==
    \A a, b \in answers :
        (/\ a.event # b.event
         /\ a.user = b.user /\ a.user \in users
         /\ a.resource = b.resource /\ a.resource # NoResource
         /\ a.day = b.day
         /\ a.already = "no" /\ b.already = "no")
        => events[a.event].day # a.day /\ events[b.event].day # b.day

\* A check-in is told that there already was an event today only if there was
\* another one than its own (HasEventToday: "already exists").
AlreadyMeansAnother ==
    \A a \in answers : a.already = "yes" => a.another
=============================================================================
