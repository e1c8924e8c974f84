------------------------------- MODULE Console -------------------------------
(***************************************************************************)
(* web/: one browser tab at the administration console.  The shell signs   *)
(* in and learns who the user is; a page asks for its answers when it is   *)
(* mounted, when its address, offset, range or filter changes, and after   *)
(* each of its operations that succeeded.  Nothing is ever cancelled:      *)
(* answers come in any order, and whichever comes last is what is shown.   *)
(*                                                                         *)
(* The pieces of state that answers fill never read one another, so the    *)
(* specification follows one of them, slot, chosen at the start and any.   *)
(* Any call may fail at any time: the session is over, a permission was    *)
(* withdrawn, the connection broke; what a page does is the same.          *)
(***************************************************************************)
EXTENDS ConsolePages

CONSTANTS
    Grants,      \* the permission sets a user may have
    MaxArg,      \* ids, offsets and ranges of days are 0..MaxArg
    MaxLoads,    \* bound: GETs for the slot since the page was mounted
    MaxOps       \* bound: operations since the page was mounted

ASSUME ConsoleAssumption ==
    /\ MaxArg \in Nat \ {0} /\ MaxLoads \in Nat /\ MaxOps \in Nat

VARIABLES
    where,       \* the layout that is up: "login", "changePassword", "loading", "app"
    known,       \* what /me said the user is granted, when the shell was mounted
    page, arg,   \* the page, and the id, offset or range of days it is at
    flt, chosen, \* the filter last asked for, and the one in the drop-downs
    ready,       \* the page shows its panels
    enrolling,   \* a TOTP secret is waiting for its first code
    slot,        \* the piece of state that is followed
    shown,       \* what it shows: of which arg and flt, of how many own writes
    loads,       \* GETs for it under way
    due, newest, \* the number of the last one sent, of the latest that came back
    doubt,       \* history: an answer was lost, overtaken, or of another address
    ops,         \* operations under way
    pressed,     \* how many there were since the page was mounted
    writes,      \* per target, own operations the server has executed on the slot
    acked        \* per target, how many of them the page has been told of

shellVars == <<where, known>>
placeVars == <<page, arg, flt, chosen, ready, enrolling>>
slotVars == <<shown, loads, due, newest, doubt, slot>>
opVars == <<ops, pressed, writes, acked>>
vars == <<shellVars, placeVars, slotVars, opVars>>

Arg == 0..MaxArg

\* What an operation on the page at address a changes, as far as slot goes.
Target(a) == IF slot \in PerId THEN a ELSE 0

Blank == [arg |-> 0, flt |-> 0, ver |-> 0, full |-> FALSE, live |-> FALSE]

\* The k-th GET from now, for address a under filter f.
Request(k, a, f, isStray) ==
    [n |-> due + k, arg |-> a, flt |-> f, stray |-> isStray, stage |-> "sent", ver |-> 0]

Ask(times, a, f, isStray) ==
    /\ due + times <= MaxLoads
    /\ loads' = loads \cup {Request(k, a, f, isStray) : k \in 1..times}
    /\ due' = due + times

\* refresh() of the page, as the closure over address a and filter f knows it.
\* The list of actors is asked for once.
Refresh(a, f) ==
    IF slot \in Loads[page] \ {"actors"}
    THEN Ask(1, a, f, slot \in PerArg /\ a # arg')
    ELSE UNCHANGED <<loads, due>>

-----------------------------------------------------------------------------
(* Pages come and go.                                                      *)

\* Seeded fault: the days start outside those offered.
FaultyStartsAt(p) ==
    IF p = "usage" THEN {MaxArg + 1} ELSE IF p \in {"userDetail", "roleDetail"} THEN Arg ELSE {0}

StartsAt(p) ==
    CASE p \in {"userDetail", "roleDetail"} -> Arg
      [] p = "usage" -> {MaxArg}
      [] OTHER -> {0}

Mount(p, a) ==
    /\ page' = p
    /\ arg' = a
    /\ flt' = 0 /\ chosen' = 0
    /\ ready' = (p # "userDetail")
    /\ enrolling' = FALSE
    /\ shown' = Blank
    /\ loads' = IF slot \in Loads[p]
                THEN {[Request(1, a, 0, FALSE) EXCEPT !.n = 1]} ELSE {}
    /\ due' = IF slot \in Loads[p] THEN 1 ELSE 0
    /\ newest' = 0 /\ doubt' = FALSE
    /\ ops' = {} /\ pressed' = 0
    /\ writes' = [t \in Arg |-> 0] /\ acked' = [t \in Arg |-> 0]
    /\ UNCHANGED slot

\* No page is mounted: what is left of the last one is forgotten.
NoPage ==
    /\ loads' = {} /\ due' = 0 /\ newest' = 0 /\ doubt' = FALSE
    /\ shown' = Blank
    /\ ready' = FALSE /\ enrolling' = FALSE
    /\ flt' = 0 /\ chosen' = 0
    /\ ops' = {} /\ pressed' = 0
    /\ writes' = [t \in Arg |-> 0] /\ acked' = [t \in Arg |-> 0]
    /\ UNCHANGED slot

Init ==
    /\ where = "loading"
    /\ known = {}
    /\ page \in Page /\ arg \in StartsAt(page)
    /\ flt = 0 /\ chosen = 0 /\ ready = FALSE /\ enrolling = FALSE
    /\ slot \in Slot
    /\ shown = Blank /\ loads = {} /\ due = 0 /\ newest = 0 /\ doubt = FALSE
    /\ ops = {} /\ pressed = 0
    /\ writes = [t \in Arg |-> 0] /\ acked = [t \in Arg |-> 0]

-----------------------------------------------------------------------------
(* The shell.                                                              *)

\* An address is typed, or the tab reloads: nothing of the old page survives.
OpenApp(p, a) ==
    /\ where' = "loading"
    /\ page' = p /\ arg' = a
    /\ known' = {}
    /\ NoPage

MeAnswered ==
    /\ where = "loading"
    /\ where' = "app"
    /\ known' \in Grants
    /\ Mount(page, arg)

MeMustChange ==
    /\ where = "loading"
    /\ where' = "changePassword"
    /\ UNCHANGED <<known, placeVars, slotVars, opVars>>

\* Any refusal or failure counts as nobody being signed in.
MeFailed ==
    /\ where = "loading"
    /\ where' = "login"
    /\ UNCHANGED <<known, placeVars, slotVars, opVars>>

\* Signing in may ask for a new password first; both end at the dashboard.
SignIn ==
    /\ where = "login"
    /\ \/ OpenApp("dashboard", 0)
       \/ /\ where' = "changePassword"
          /\ UNCHANGED <<known, placeVars, slotVars, opVars>>

ChangePassword ==
    /\ where = "changePassword"
    /\ OpenApp("dashboard", 0)

\* Whatever becomes of the call.
Logout ==
    /\ where = "app"
    /\ where' = "login"
    /\ NoPage
    /\ known' = {}
    /\ UNCHANGED <<page, arg>>

-----------------------------------------------------------------------------
(* Moving about.                                                           *)

GoTo(p, a) ==
    /\ Mount(p, a)
    /\ UNCHANGED shellVars

FollowLink(p, a) ==
    /\ where = "app"
    /\ p # page
    /\ CASE p = "userDetail" -> page = "users"
         [] p = "roleDetail" -> page = "roles"
         [] OTHER -> useCan(known, NAV[p])
    /\ GoTo(p, a)

\* Seeded fault: the effect that refreshes does not name the id it depends on.
FaultyChangeAddress(a) ==
    /\ page = "userDetail" /\ a # arg
    /\ arg' = a
    /\ UNCHANGED <<shellVars, page, flt, chosen, ready, enrolling, slotVars, opVars>>

\* From one user's page to another's the component stays and only its id changes.
ChangeAddress(a) ==
    /\ page = "userDetail" /\ a # arg
    /\ arg' = a
    /\ Refresh(a, 0)
    /\ UNCHANGED <<shellVars, page, flt, chosen, ready, enrolling,
                   shown, newest, doubt, slot, opVars>>

\* A user found by the shell's search, in a list it fetched some time ago, under
\* whatever the permissions were.
PickFound(a) ==
    /\ where = "app"
    /\ \/ ChangeAddress(a)
       \/ page # "userDetail" /\ GoTo("userDetail", a)

PagedSlot(p) ==
    CASE p = "users" -> "users" [] p = "iot" -> "events" [] p = "audit" -> "entries"

CanFill == IF slot \in {"users", "events", "entries"} THEN BOOLEAN ELSE {FALSE}

\* Next is enabled when the page shown is full.  The filter chosen so far comes
\* into force with the turn, as load() reads the drop-downs.
Turn(a) ==
    /\ where = "app" /\ page \in {"users", "iot", "audit"}
    /\ \/ a = arg + 1 /\ (slot = PagedSlot(page) => shown.full)
       \/ a + 1 = arg
    /\ arg' = a
    /\ flt' = chosen
    /\ Refresh(a, chosen)
    /\ UNCHANGED <<shellVars, page, chosen, ready, enrolling, shown, newest, doubt, slot, opVars>>

SetDays(d) ==
    /\ where = "app" /\ page = "usage" /\ d # arg
    /\ arg' = d
    /\ Refresh(d, 0)
    /\ UNCHANGED <<shellVars, page, flt, chosen, ready, enrolling, shown, newest, doubt, slot, opVars>>

Choose(f) ==
    /\ where = "app" /\ page = "audit" /\ f # chosen
    /\ chosen' = f
    /\ UNCHANGED <<shellVars, page, arg, flt, ready, enrolling, slotVars, opVars>>

\* Back to the first page; where it was not there already, the change of offset
\* asks once more.
ApplyFilter ==
    /\ where = "app" /\ page = "audit"
    /\ flt' = chosen
    /\ arg' = 0
    /\ IF slot = "entries"
       THEN Ask(IF arg = 0 THEN 1 ELSE 2, 0, chosen, FALSE)
       ELSE UNCHANGED <<loads, due>>
    /\ UNCHANGED <<shellVars, page, chosen, ready, enrolling, shown, newest, doubt, slot, opVars>>

\* An audit event from the hub.
LiveEntry ==
    /\ where = "app" /\ page = "audit" /\ slot = "entries"
    /\ flt = 0 /\ arg = 0
    /\ shown' = [shown EXCEPT !.live = TRUE]
    /\ UNCHANGED <<shellVars, placeVars, loads, due, newest, doubt, slot, opVars>>

-----------------------------------------------------------------------------
(* The slot's GETs.                                                        *)

\* Permissions are checked anew at each call: the user has any of Grants by then.
MayBeServed(needs) ==
    \E granted \in Grants : \A need \in needs : useCan(granted, need)

ServeLoad(l) ==
    /\ l.stage = "sent"
    /\ MayBeServed(ReadRoute[slot])
    /\ loads' = (loads \ {l}) \cup
                  {[l EXCEPT !.stage = "read", !.ver = writes[Target(l.arg)]]}
    /\ UNCHANGED <<shellVars, placeVars, shown, due, newest, doubt, slot, opVars>>

Latest(n) == IF n > newest THEN n ELSE newest

LoadAnswered(l, isFull) ==
    /\ l.stage = "read"
    /\ shown' = [arg |-> l.arg, flt |-> l.flt, ver |-> l.ver, full |-> isFull, live |-> FALSE]
    /\ ready' = (ready \/ slot = "user")
    /\ newest' = Latest(l.n)
    /\ doubt' = (l.n < newest \/ l.stray)
    /\ loads' = loads \ {l}
    /\ UNCHANGED <<shellVars, page, arg, flt, chosen, enrolling, due, slot, opVars>>

\* Refused, or the answer never came.  No .catch: what was shown stays.
LoadFailed(l) ==
    /\ newest' = Latest(l.n)
    /\ doubt' = (doubt \/ l.n >= newest)
    /\ loads' = loads \ {l}
    /\ UNCHANGED <<shellVars, placeVars, shown, due, slot, opVars>>

\* The user of a detail page arrives, while another slot is followed.
UserArrives ==
    /\ where = "app" /\ page = "userDetail" /\ slot # "user" /\ ~ready
    /\ MayBeServed(ReadRoute["user"])
    /\ ready' = TRUE
    /\ UNCHANGED <<shellVars, page, arg, flt, chosen, enrolling, slotVars, opVars>>

-----------------------------------------------------------------------------
(* Operations.                                                             *)

Offered == UNION {q.offers : q \in
    {q \in Panels[page] : useCan(known, q.gate) /\ (q = BellPanel \/ ready)}}

\* A button that stays disabled while its call is under way.
Busy(op) ==
    \/ op = "uploadAvatar" /\ \E o \in ops : o.op = op
    \/ op = "registerBegin" /\ \E o \in ops : o.op \in {op, "registerFinish"}

\* What can neither change the slot nor refresh it is left out: the operations of
\* pages that do not show it, but for the account page's and the bell's.
Press(op) ==
    /\ where = "app" /\ ~Busy(op)
    /\ op = "mfaConfirm" => enrolling
    /\ slot \in Loads[page] \/ op \in Offers("account")
    /\ pressed < MaxOps
    /\ pressed' = pressed + 1
    /\ \E k \in 1..MaxOps :
          /\ \A j \in 1..k : j = k <=> \A o \in ops : o.op = op => o.k # j
          /\ ops' = ops \cup {[op |-> op, arg |-> arg, k |-> k, stage |-> "sent", nth |-> 0]}
    /\ UNCHANGED <<shellVars, placeVars, slotVars, writes, acked>>

Serve(o) ==
    /\ o.stage = "sent"
    /\ MayBeServed({Route[o.op]})
    /\ LET t == Target(o.arg)
       IN  IF slot \in Touches[o.op]
           THEN /\ writes' = [writes EXCEPT ![t] = @ + 1]
                /\ ops' = (ops \ {o}) \cup {[o EXCEPT !.stage = "ok", !.nth = writes[t] + 1]}
           ELSE /\ ops' = (ops \ {o}) \cup {[o EXCEPT !.stage = "ok"]}
                /\ UNCHANGED writes
    /\ UNCHANGED <<shellVars, placeVars, slotVars, pressed, acked>>

\* Seeded fault: success is reported and nothing is asked for again.
FaultyReport(o) ==
    /\ o.op \notin Offers("account") \cup {"createUser", "registerFinish"}
    /\ ops' = ops \ {o}
    /\ UNCHANGED <<arg, enrolling, loads, due>>

\* report() and the handlers like it: on success, refresh with the address the
\* button was pressed at.
Report(o) ==
    /\ o.op \notin Offers("account") \cup {"createUser", "registerFinish"}
    /\ ops' = ops \ {o}
    /\ UNCHANGED <<arg, enrolling>>
    /\ Refresh(o.arg, 0)

\* handleCreate: back to the first page of the list, and ask for it.
UserCreated(o) ==
    /\ o.op = "createUser"
    /\ ops' = ops \ {o}
    /\ arg' = 0
    /\ IF slot = "users"
       THEN Ask(IF arg = 0 THEN 1 ELSE 2, 0, 0, FALSE)
       ELSE UNCHANGED <<loads, due>>
    /\ UNCHANGED enrolling

\* The operations of the account page and of the bell.  Those that change the
\* user reload the tab after a while, on whatever page it is by then: OpenApp.
OwnAccount(o) ==
    /\ o.op \in Offers("account") \cup {"registerFinish"}
    /\ \/ /\ o.op = "registerBegin"       \* the key takes part, or does not
          /\ ops' = (ops \ {o}) \cup {[o EXCEPT !.op = "registerFinish", !.stage = "sent"]}
       \/ ops' = ops \ {o}
    /\ enrolling' = CASE o.op = "mfaEnroll" -> TRUE
                       [] o.op = "mfaConfirm" -> FALSE
                       [] OTHER -> enrolling
    /\ UNCHANGED <<arg, loads, due>>

Answered(o) ==
    /\ o.stage = "ok"
    /\ acked' = [acked EXCEPT ![Target(o.arg)] = IF o.nth > @ THEN o.nth ELSE @]
    /\ Report(o) \/ UserCreated(o) \/ OwnAccount(o)
    /\ UNCHANGED <<shellVars, page, flt, chosen, ready, shown, newest, doubt, slot, pressed, writes>>

\* Refused, or the answer never came.
Failed(o) ==
    /\ ops' = ops \ {o}
    /\ UNCHANGED <<shellVars, placeVars, slotVars, pressed, writes, acked>>

-----------------------------------------------------------------------------
Shell ==
    \/ \E p \in Page : \E a \in StartsAt(p) : OpenApp(p, a)
    \/ MeAnswered \/ MeMustChange \/ MeFailed
    \/ SignIn \/ ChangePassword \/ Logout

Moves ==
    \/ \E p \in Page : \E a \in StartsAt(p) : FollowLink(p, a)
    \/ \E a \in Arg : PickFound(a) \/ Turn(a) \/ SetDays(a)
    \/ \E f \in {0, 1} : Choose(f)
    \/ ApplyFilter \/ LiveEntry

Answers ==
    \E l \in loads : \/ ServeLoad(l)
                     \/ \E isFull \in CanFill : LoadAnswered(l, isFull)
                     \/ LoadFailed(l)

Operations ==
    \/ \E op \in Offered : Press(op)
    \/ \E o \in ops : Serve(o) \/ Answered(o) \/ Failed(o)

Next == Shell \/ Moves \/ Answers \/ UserArrives \/ Operations

Spec == Init /\ [][Next]_vars

-----------------------------------------------------------------------------
Load == [n : Nat, arg : Arg, flt : {0, 1}, stray : BOOLEAN,
         stage : {"sent", "read"}, ver : Nat]

Op == [op : Operation, arg : Arg, k : Nat,
       stage : {"sent", "ok"}, nth : Nat]

\* Everything has its type.
TypeOK ==
    /\ where \in {"login", "changePassword", "loading", "app"}
    /\ known \in Grants \cup {{}}
    /\ ready \in BOOLEAN /\ enrolling \in BOOLEAN
    /\ page \in Page /\ arg \in Arg /\ flt \in {0, 1} /\ chosen \in {0, 1}
    /\ slot \in Slot
    /\ shown \in [arg : Arg, flt : {0, 1}, ver : Nat, full : BOOLEAN, live : BOOLEAN]
    /\ loads \subseteq Load /\ due \in Nat /\ newest \in Nat /\ doubt \in BOOLEAN
    /\ ops \subseteq Op /\ pressed \in Nat
    /\ writes \in [Arg -> Nat] /\ acked \in [Arg -> Nat]

\* The page waits for nothing that fills the slot.
Calm == where = "app" /\ slot \in Loads[page] /\ loads = {}

\* Once the answers are in, what the page shows is of the id its buttons act on,
\* of the offset or range it says it is at and of the filter last asked for, and
\* live audit entries stand only on an unfiltered first page -- except where an
\* answer was lost, overtook a later one, or was asked for by an operation of
\* another address (users/detail/page.tsx:37-46, audit/page.tsx:42-64).
ShowsWhatItActsOn ==
    Calm /\ ~doubt /\ slot \in PerArg =>
        /\ shown.arg = arg
        /\ slot = "entries" => /\ shown.flt = flt
                               /\ shown.live => flt = 0 /\ arg = 0

\* Once the answers are in, with the same exceptions, every operation the page
\* was told succeeded is visible in what it shows: no form re-creates what is
\* there already for want of a refresh (report() and handleCreate of the pages).
ReadsOwnWrites == Calm /\ ~doubt => shown.ver >= acked[Target(arg)]

\* On a page its reader was linked to, nothing is offered that the server refuses
\* to a user with the permissions /me gave: "hidden rather than shown-then-403'd"
\* (current-user.tsx:25-28, AppShell.tsx:31-34).
HiddenNotRefused ==
    where = "app" /\ useCan(known, NAV[page]) =>
        \A op \in Offered : useCan(known, Route[op])
=============================================================================
