------------------------------ MODULE LiveFeed ------------------------------
(***************************************************************************)
(* The live feed: realtimeHub of internal/httpserver/ws.go on every        *)
(* instance, the useRealtime hook of web/lib/ws.ts in every tab, and the   *)
(* notification bell of web/components/AppShell.tsx on top of both.        *)
(*                                                                         *)
(* An event is an announcement or an audit entry.  The instance that       *)
(* handles the request delivers it to its own connections, then publishes  *)
(* it for the others.  A connection is written to by every delivery under  *)
(* way, all of which hold the hub's lock for reading: two of them may write *)
(* to it at once, which the WebSocket library answers with a panic, and    *)
(* nothing in the server recovers from one.                                *)
(***************************************************************************)
EXTENDS Naturals, FiniteSets, FiniteSetsExt

CONSTANTS
    Instance,      \* the processes behind the load balancer
    Tab,           \* browser tabs
    Announcement,
    Old,           \* those of them that were posted before
    AuditEvent,    \* audit entries that get logged
    BellSize,      \* entries the bell shows, and the server lists, at most: 20
    MaxFaults      \* bound: connections that break, calls that fail, processes that end

ASSUME LiveFeedAssumption ==
    /\ MaxFaults \in Nat /\ BellSize \in Nat \ {0}
    /\ Announcement \cap AuditEvent = {} /\ Old \subseteq Announcement

Event == Announcement \cup AuditEvent

VARIABLES
    up,          \* instances that run
    subscribed,  \* instances that listen on the cluster channel
    conns,       \* connections that the server side holds
    started,     \* events that have begun; announcements among them are in the database
    posting,     \* <<event, instance>> about to be broadcast there
    delivering,  \* deliverLocal calls under way
    queue,       \* per instance, what its subscription has yet to handle
    life,        \* per tab, "away", "mounted" or "gone"
    sock,        \* per tab, its socket: "none", "waiting", "connecting", "open"
    gen,         \* per tab, how many connections it has had
    load,        \* per tab, the bell's request: "none", "sent", "read", "done"
    snapshot,    \* per tab, what the server answered it
    list,        \* per tab, how often each announcement is listed
    faults,      \* how much broke by itself
    cut,         \* history: announcements whose broadcast did not run its course
    exposed,     \* history: <<tab, announcement>>, in flight while the tab was unsettled
    pushed       \* history: <<tab, announcement>>, off the end of what the tab lists

serverVars == <<up, subscribed, started, posting, delivering, queue>>
tabVars == <<life, sock, gen, load, snapshot, list, pushed>>
vars == <<serverVars, conns, tabVars, faults, cut, exposed>>

Name(c) == <<c.tab, c.gen>>

\* The connection tab t reads from, if the server still holds it.
Own(t) == {c \in conns : c.tab = t /\ c.gen = gen[t]}

\* No deliverLocal holds the lock of i for reading.
Unlocked(i) == \A d \in delivering : d.at # i

\* The announcements some part of whose broadcast is still to come.
InFlight ==
    {a \in Announcement :
        \/ \E p \in posting : p[1] = a
        \/ \E d \in delivering : d.ev = a
        \/ \E i \in Instance : \E m \in queue[i] : m.ev = a}

Init ==
    /\ up = Instance /\ subscribed = Instance
    /\ conns = {}
    /\ started = Old /\ posting = {} /\ delivering = {}
    /\ queue = [i \in Instance |-> {}]
    /\ life = [t \in Tab |-> "away"]
    /\ sock = [t \in Tab |-> "none"] /\ gen = [t \in Tab |-> 0]
    /\ load = [t \in Tab |-> "none"] /\ snapshot = [t \in Tab |-> {}]
    /\ list = [t \in Tab |-> [a \in Announcement |-> 0]]
    /\ faults = 0
    /\ cut = {} /\ exposed = {} /\ pushed = {}

-----------------------------------------------------------------------------
(* The instances.                                                          *)

\* An announcement is inserted first.
Create(a, i) ==
    /\ a \notin started /\ i \in up
    /\ started' = started \cup {a}
    /\ posting' = posting \cup {<<a, i>>}
    /\ UNCHANGED <<up, subscribed, delivering, queue, conns, tabVars, faults, cut>>

\* deliverLocal: the lock is taken, and the connections do not change from there.
deliverLocal(e, i, auditOnly, origin) ==
    LET readers == {c \in conns : /\ c.at = i /\ c.stage = "added"
                                  /\ auditOnly => c.canSeeAudit}
    IN  delivering' = delivering \cup
            {[ev |-> e, at |-> i, origin |-> origin,
              left |-> {Name(c) : c \in readers}]}

onAnnouncement(a, i) ==
    /\ <<a, i>> \in posting
    /\ posting' = posting \ {<<a, i>>}
    /\ deliverLocal(a, i, FALSE, i)
    /\ UNCHANGED <<up, subscribed, started, queue, conns, tabVars, faults, cut>>

\* An audit entry is broadcast ahead of its insertion.
onAuditLog(e, i) ==
    /\ e \notin started /\ i \in up
    /\ started' = started \cup {e}
    /\ deliverLocal(e, i, TRUE, i)
    /\ UNCHANGED <<up, subscribed, posting, queue, conns, tabVars, faults, cut>>

\* announcementList.length of the tab.
Entries(t) == MapThenSumSet(LAMBDA a : list[t][a], Announcement)

\* onmessage: an announcement is listed first, whatever is listed already, and slice
\* drops the last entry of a list that is full: which of those listed is left open.
Receive(t, e) ==
    IF e \notin Announcement THEN UNCHANGED <<list, pushed>>
    ELSE LET longer == [list[t] EXCEPT ![e] = @ + 1] IN
         \/ /\ Entries(t) < BellSize
            /\ list' = [list EXCEPT ![t] = longer]
            /\ UNCHANGED pushed
         \/ /\ Entries(t) >= BellSize
            /\ \E old \in Announcement :
                 /\ list[t][old] > 0
                 /\ list' = [list EXCEPT ![t] = [longer EXCEPT ![old] = @ - 1]]
                 /\ pushed' = pushed \cup {<<t, old>>}

\* WriteMessage to one of the connections left; the error it returns where the
\* connection is broken is ignored.
Write(d, x) ==
    /\ x \in d.left
    /\ delivering' = (delivering \ {d}) \cup {[d EXCEPT !.left = @ \ {x}]}
    /\ conns' = {IF Name(c) = x /\ ~c.broken THEN [c EXCEPT !.writes[d.ev] = @ + 1] ELSE c :
                    c \in conns}
    /\ IF sock[x[1]] = "open" /\ \E c \in Own(x[1]) : Name(c) = x /\ ~c.broken
       THEN Receive(x[1], d.ev)
       ELSE UNCHANGED <<list, pushed>>
    /\ UNCHANGED <<up, subscribed, started, posting, queue,
                   life, sock, gen, load, snapshot, faults, cut>>

\* Two deliveries at the same connection at once.
Clash(d, o, x) == d # o /\ d.at = o.at /\ x \in d.left \cap o.left

\* The library does not notice: the frames mix, and the client ignores what it
\* cannot parse.
Garble(d, o, x) ==
    /\ Clash(d, o, x)
    /\ delivering' = (delivering \ {d, o}) \cup {[r EXCEPT !.left = @ \ {x}] : r \in {d, o}}
    /\ cut' = cut \cup ({d.ev, o.ev} \cap Announcement)
    /\ UNCHANGED <<up, subscribed, started, posting, queue, conns,
                   tabVars, faults>>

\* Seeded fault: nothing is published.
FaultyFinish(d) ==
    /\ d.left = {}
    /\ delivering' = delivering \ {d}
    /\ UNCHANGED <<up, subscribed, started, posting, queue, conns, tabVars, faults, cut>>

\* Everyone served.  What came over the channel ends here; what was broadcast here
\* is published, and reaches the subscriptions unless that fails, which is ignored, or
\* one is being made anew.
Finish(d) ==
    /\ d.left = {}
    /\ delivering' = delivering \ {d}
    /\ IF d.origin # d.at
       THEN UNCHANGED <<queue, cut, faults>>
       ELSE \E reached \in SUBSET subscribed :
               /\ \/ reached = subscribed /\ UNCHANGED faults
                  \/ faults < MaxFaults /\ faults' = faults + 1
               /\ queue' = [i \in Instance |->
                     IF i \in reached THEN queue[i] \cup {[ev |-> d.ev, origin |-> d.origin]}
                                      ELSE queue[i]]
               /\ cut' = IF up \subseteq reached \cup {d.at} THEN cut
                          ELSE cut \cup ({d.ev} \cap Announcement)
    /\ UNCHANGED <<up, subscribed, started, posting, conns, tabVars>>

\* Seeded fault: what comes over the channel goes to every connection.
FaultyRelay(i, m) ==
    /\ i \in subscribed /\ m \in queue[i]
    /\ \A d \in delivering : d.at = i => d.origin = i
    /\ queue' = [queue EXCEPT ![i] = @ \ {m}]
    /\ IF m.origin = i THEN UNCHANGED delivering
                       ELSE deliverLocal(m.ev, i, FALSE, m.origin)
    /\ UNCHANGED <<up, subscribed, started, posting, conns, tabVars, faults, cut>>

\* subscribeCluster: one message at a time, its own ones skipped.
Relay(i, m) ==
    /\ i \in subscribed /\ m \in queue[i]
    /\ \A d \in delivering : d.at = i => d.origin = i
    /\ queue' = [queue EXCEPT ![i] = @ \ {m}]
    /\ IF m.origin = i THEN UNCHANGED delivering
                       ELSE deliverLocal(m.ev, i, m.ev \in AuditEvent, m.origin)
    /\ UNCHANGED <<up, subscribed, started, posting, conns, tabVars, faults, cut>>

\* The process ends: a panic, or anything else.  Everything in its memory goes.
Crash(i) ==
    /\ i \in up
    /\ \/ faults < MaxFaults /\ faults' = faults + 1
       \/ UNCHANGED faults /\
             \E d, o \in delivering : \E x \in d.left : d.at = i /\ Clash(d, o, x)
    /\ up' = up \ {i} /\ subscribed' = subscribed \ {i}
    /\ cut' = cut \cup {a \in Announcement :
                   \/ <<a, i>> \in posting
                   \/ \E d \in delivering : d.at = i /\ d.ev = a
                   \/ \E m \in queue[i] : m.ev = a}
    /\ posting' = {p \in posting : p[2] # i}
    /\ delivering' = {d \in delivering : d.at # i}
    /\ queue' = [queue EXCEPT ![i] = {}]
    /\ conns' = {c \in conns : c.at # i}
    /\ UNCHANGED <<started, tabVars>>

Restart(i) ==
    /\ i \notin up
    /\ up' = up \cup {i}
    /\ UNCHANGED <<subscribed, started, posting, delivering, queue, conns,
                   tabVars, faults, cut>>

\* Seeded fault: a subscription without its process.
FaultySubscribe(i) ==
    /\ i \notin subscribed
    /\ subscribed' = subscribed \cup {i}
    /\ UNCHANGED <<up, started, posting, delivering, queue, conns, tabVars, faults, cut>>

\* newRealtimeHub starts the subscription in the background.
Subscribe(i) ==
    /\ i \in up \ subscribed
    /\ subscribed' = subscribed \cup {i}
    /\ UNCHANGED <<up, started, posting, delivering, queue, conns,
                   tabVars, faults, cut>>

-----------------------------------------------------------------------------
(* Connections.                                                            *)

\* The request is authenticated and upgraded, and what the user may see is decided
\* for as long as the connection lasts.
Upgrade(t, i) ==
    /\ life[t] = "mounted" /\ sock[t] = "connecting" /\ i \in up
    /\ sock' = [sock EXCEPT ![t] = "open"]
    /\ gen' = [gen EXCEPT ![t] = @ + 1]
    /\ \E allowed \in BOOLEAN :
          conns' = conns \cup {[tab |-> t, gen |-> gen[t] + 1, at |-> i, stage |-> "upgraded",
                                canSeeAudit |-> allowed, broken |-> FALSE,
                                writes |-> [e \in Event |-> 0]]}
    /\ UNCHANGED <<serverVars, life, load, snapshot, list, pushed, faults, cut>>

\* The session has ended or the rate limit is used up: 401 or 429 is the answer, which
\* ends in onclose as well.
Refuse(t) ==
    /\ life[t] = "mounted" /\ sock[t] = "connecting" /\ up # {}
    /\ sock' = [sock EXCEPT ![t] = "waiting"]
    /\ UNCHANGED <<serverVars, conns, life, gen, load, snapshot, list, pushed, faults, cut>>

add(c) ==
    /\ c.stage = "upgraded" /\ Unlocked(c.at)
    /\ conns' = (conns \ {c}) \cup {[c EXCEPT !.stage = "added"]}
    /\ UNCHANGED <<serverVars, tabVars, faults, cut>>

\* The read loop sees that the other end is gone.
remove(c) ==
    /\ c.broken /\ c.stage = "added" /\ Unlocked(c.at)
    /\ conns' = conns \ {c}
    /\ UNCHANGED <<serverVars, tabVars, faults, cut>>

Break(c) ==
    /\ ~c.broken /\ faults < MaxFaults
    /\ faults' = faults + 1
    /\ conns' = (conns \ {c}) \cup {[c EXCEPT !.broken = TRUE]}
    /\ UNCHANGED <<serverVars, tabVars, cut>>

-----------------------------------------------------------------------------
(* The hook.                                                               *)

connect(t) ==
    /\ life[t] = "mounted" /\ sock[t] = "waiting"
    /\ sock' = [sock EXCEPT ![t] = "connecting"]
    /\ UNCHANGED <<serverVars, conns, life, gen, load, snapshot, list, pushed, faults, cut>>

\* Seeded fault: a closed socket is not replaced.
Faultyonclose(t) ==
    /\ life[t] = "mounted" /\ sock[t] = "open" /\ \A c \in Own(t) : c.broken
    /\ sock' = [sock EXCEPT ![t] = "none"]
    /\ UNCHANGED <<serverVars, conns, life, gen, load, snapshot, list, pushed, faults, cut>>

\* onclose: the instance it was to be opened at does not run, or it is found closed.
onclose(t) ==
    /\ life[t] = "mounted"
    /\ \/ sock[t] = "connecting" /\ up # Instance
       \/ sock[t] = "open" /\ \A c \in Own(t) : c.broken
    /\ sock' = [sock EXCEPT ![t] = "waiting"]
    /\ UNCHANGED <<serverVars, conns, life, gen, load, snapshot, list, pushed, faults, cut>>

\* The shell is mounted once /me has answered, and asks for the announcements.
Mount(t) ==
    /\ life[t] = "away"
    /\ life' = [life EXCEPT ![t] = "mounted"]
    /\ sock' = [sock EXCEPT ![t] = "connecting"]
    /\ load' = [load EXCEPT ![t] = "sent"]
    /\ UNCHANGED <<serverVars, conns, gen, snapshot, list, pushed, faults, cut>>

\* The effect's cleanup: no timer and no socket stays behind.
Unmount(t) ==
    /\ life[t] = "mounted"
    /\ life' = [life EXCEPT ![t] = "gone"]
    /\ sock' = [sock EXCEPT ![t] = "none"]
    /\ conns' = {IF c \in Own(t) THEN [c EXCEPT !.broken = TRUE] ELSE c :
                    c \in conns}
    /\ load' = [load EXCEPT ![t] = "none"] /\ snapshot' = [snapshot EXCEPT ![t] = {}]
    /\ list' = [list EXCEPT ![t] = [a \in Announcement |-> 0]]
    /\ pushed' = {x \in pushed : x[1] # t}
    /\ UNCHANGED <<serverVars, gen, faults, cut>>

-----------------------------------------------------------------------------
(* The bell.                                                               *)

\* List(ctx, 20): the latest announcements.
ReadList(t) ==
    /\ load[t] = "sent"
    /\ load' = [load EXCEPT ![t] = "read"]
    /\ LET all == started \cap Announcement
       IN  \E latest \in SUBSET all :
             /\ IF Cardinality(all) <= BellSize THEN latest = all
                                                ELSE Cardinality(latest) = BellSize
             /\ snapshot' = [snapshot EXCEPT ![t] = latest]
             /\ pushed' = pushed \cup ({t} \X (all \ latest))
    /\ UNCHANGED <<serverVars, conns, life, sock, gen, list, faults, cut>>

\* The answer replaces what is listed. One that fails is one that never comes: what
\* is listed stays.
Loaded(t) ==
    /\ life[t] = "mounted" /\ load[t] = "read"
    /\ load' = [load EXCEPT ![t] = "done"]
    /\ list' = [list EXCEPT ![t] =
          [a \in Announcement |-> IF a \in snapshot[t] THEN 1 ELSE 0]]
    /\ snapshot' = [snapshot EXCEPT ![t] = {}]
    /\ UNCHANGED <<serverVars, conns, life, sock, gen, pushed, faults, cut>>

-----------------------------------------------------------------------------
\* Connected, with a list that is there.
Steady(t) ==
    /\ load[t] = "done" /\ sock[t] = "open"
    /\ \E c \in Own(t) : c.stage = "added" /\ ~c.broken

\* The history of what was in flight while which mounted tab was not steady.
Expose ==
    exposed' = {x \in Tab \X Announcement :
        /\ life'[x[1]] = "mounted"
        /\ x \in exposed \/ (x[2] \in InFlight' /\ ~Steady(x[1])')}

Delivery ==
    \E d \in delivering :
        \/ \E x \in d.left : Write(d, x) \/ \E o \in delivering : Garble(d, o, x)
        \/ Finish(d)

Step ==
    \/ \E i \in Instance : \/ \E a \in Announcement : Create(a, i) \/ onAnnouncement(a, i)
                           \/ \E e \in AuditEvent : onAuditLog(e, i)
    \/ Delivery
    \/ \E i \in Instance : (\E m \in queue[i] : Relay(i, m)) \/ Crash(i) \/ Restart(i) \/ Subscribe(i)
    \/ \E t \in Tab : Refuse(t) \/ \E i \in Instance : Upgrade(t, i)
    \/ \E c \in conns : add(c) \/ remove(c) \/ Break(c)
    \/ \E t \in Tab : \/ connect(t) \/ onclose(t) \/ Mount(t) \/ Unmount(t)
                      \/ ReadList(t) \/ Loaded(t)

Next == Step /\ Expose

Spec == Init /\ [][Next]_vars

\* Processes are restarted, requests and timers get their turn, a request to connect is
\* answered one way or the other, and a write to a connection ends (the peer reads, or
\* the kernel gives up on it).
Fairness ==
    /\ \A i \in Instance : WF_vars(Restart(i) /\ Expose)
    /\ WF_vars(Delivery /\ Expose)
    /\ \A t \in Tab :
          /\ WF_vars((connect(t) \/ onclose(t)) /\ Expose)
          /\ WF_vars((Refuse(t) \/ \E i \in Instance : Upgrade(t, i)) /\ Expose)
          /\ WF_vars((\E c \in conns : c.tab = t /\ (add(c) \/ remove(c))) /\ Expose)

FairSpec == Spec /\ Fairness

-----------------------------------------------------------------------------
Conn == [tab : Tab, gen : Nat, at : Instance, stage : {"upgraded", "added"},
         canSeeAudit : BOOLEAN, broken : BOOLEAN, writes : [Event -> Nat]]

\* Everything has its type.
TypeOK ==
    /\ up \subseteq Instance /\ subscribed \subseteq up
    /\ conns \subseteq Conn
    /\ started \subseteq Event
    /\ posting \subseteq Announcement \X Instance
    /\ \A d \in delivering : d.ev \in Event /\ d.at \in up /\ d.origin \in Instance
    /\ \A i \in Instance : \A m \in queue[i] : m.ev \in Event /\ m.origin \in Instance
    /\ life \in [Tab -> {"away", "mounted", "gone"}]
    /\ sock \in [Tab -> {"none", "waiting", "connecting", "open"}]
    /\ gen \in [Tab -> Nat]
    /\ load \in [Tab -> {"none", "sent", "read", "done"}]
    /\ list \in [Tab -> [Announcement -> Nat]]
    /\ snapshot \in [Tab -> SUBSET Announcement]
    /\ exposed \cup pushed \subseteq Tab \X Announcement /\ cut \subseteq Announcement

\* No connection is written the same event twice, whichever way round the cluster
\* it came, and audit entries only go where audit:read was held when the
\* connection was made (ws.go:26-34, 43-46).
DeliveryDiscipline ==
    \A c \in conns : \A e \in Event :
        /\ c.writes[e] <= 1
        /\ e \in AuditEvent /\ c.writes[e] > 0 => c.canSeeAudit

\* A bell whose list is there shows every announcement exactly once -- except
\* announcements that were in flight while the tab loaded its list or was not
\* connected, those whose broadcast was cut short, and those that twenty later entries
\* pushed off its end (AppShell.tsx:99-108).
BellIsRight ==
    \A t \in Tab : life[t] = "mounted" /\ load[t] = "done" =>
        \A a \in Announcement \ (InFlight \cup cut) :
            <<t, a>> \notin exposed \cup pushed => list[t][a] = IF a \in started THEN 1 ELSE 0

\* Once connections stop breaking, a mounted tab is either refused again and again, for
\* as long as its session has ended it asks anew, or ends up connected and known to the
\* hub; a tab that is gone ends up known to nobody (ws.ts:32-67, ws.go:202-214).
LinksSettle ==
    \A t \in Tab :
        \/ []<><<Refuse(t)>>_vars
        \/ <>[](/\ life[t] = "gone" => \A c \in conns : c.tab # t
                /\ life[t] = "mounted" =>
                     /\ sock[t] = "open"
                     /\ \E c \in Own(t) : c.stage = "added"
                     /\ Cardinality({c \in conns : c.tab = t}) = 1)
=============================================================================
