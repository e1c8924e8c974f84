---------------------------- MODULE ConsoleProofs ----------------------------
(***************************************************************************)
(* Theorems about Console, for every set of grants, any number of ids,     *)
(* offsets and ranges, and any number of requests and operations.          *)
(***************************************************************************)
EXTENDS Console, TLAPS

-----------------------------------------------------------------------------
(* The tables of ConsolePages.                                             *)

\* Every operation but the second half of a key registration is offered.
LEMMA OffersAreOperations == \A p \in Page : Offers(p) \subseteq Operation
  BY DEF Operation

\* What a panel offers needs what its gate asks for, or what the link to its
\* page asked for, or nothing.
LEMMA PanelsAreGated ==
  \A p \in Page : \A q \in Panels[p] : \A op \in q.offers :
      Route[op] \in {q.gate, NAV[p], Anyone}
<1> SUFFICES ASSUME NEW p \in Page, NEW q \in Panels[p], NEW op \in q.offers
             PROVE  Route[op] \in {q.gate, NAV[p], Anyone}
  OBVIOUS
<1>o. op \in Operation
  BY OffersAreOperations DEF Offers
<1>b. CASE q = BellPanel
  BY <1>b, <1>o DEF BellPanel, Panel, Route
<1>1. CASE p = "dashboard"
  BY <1>1, <1>o, <1>b DEF Panels, DashboardPanels, Panel
<1>2. CASE p = "users"
  BY <1>2, <1>o, <1>b DEF Panels, UsersPanels, Panel, Route
<1>3. CASE p = "userDetail"
  BY <1>3, <1>o, <1>b DEF Panels, ProfilePanel, UserRolesPanel, CredentialsPanel, Panel, Route
<1>4. CASE p = "roles"
  BY <1>4, <1>o, <1>b DEF Panels, RolesPanel, PermissionsPanel, GroupsPanel, Panel, Route, NAV
<1>5. CASE p = "roleDetail"
  BY <1>5, <1>o, <1>b DEF Panels, RoleDetailPanels, Panel, Route, NAV
<1>6. CASE p = "apiClients"
  BY <1>6, <1>o, <1>b DEF Panels, NewClientPanel, ClientsPanel, Panel, Route, NAV
<1>7. CASE p = "iot"
  BY <1>7, <1>o, <1>b DEF Panels, RegisterDevicePanel, DevicesPanel, EventsPanel, Panel, Route, NAV
<1>8. CASE p \in {"usage", "audit", "settings"}
  BY <1>8, <1>o, <1>b DEF Panels, UsagePanels, FilterPanel, EntriesPanel, SettingsPanels, Panel
<1>9. CASE p = "account"
  BY <1>9, <1>o, <1>b DEF Panels, AvatarPanel, TotpPanel, SecurityKeysPanel, Panel, Route
<1> QED
  BY <1>1, <1>2, <1>3, <1>4, <1>5, <1>6, <1>7, <1>8, <1>9 DEF Page

\* No panel on a page the user was linked to offers what the server refuses.
LEMMA OfferedIsServed == page \in Page => HiddenNotRefused
<1> SUFFICES ASSUME page \in Page, useCan(known, NAV[page]), NEW op \in Offered
             PROVE  useCan(known, Route[op])
  BY DEF HiddenNotRefused
<1>1. PICK q \in Panels[page] : useCan(known, q.gate) /\ op \in q.offers
  BY DEF Offered
<1>2. Route[op] \in {q.gate, NAV[page], Anyone}
  BY <1>1, PanelsAreGated
<1>3. useCan(known, Anyone)
  BY DEF useCan
<1> QED
  BY <1>1, <1>2, <1>3

-----------------------------------------------------------------------------
(* Types.                                                                  *)

LEMMA ZeroIsArg == 0 \in Arg
  BY ConsoleAssumption DEF Arg

LEMMA StartsInside == \A p \in Page : StartsAt(p) \subseteq Arg
  BY ConsoleAssumption DEF StartsAt, Arg

LEMMA RequestType ==
  ASSUME due \in Nat, NEW k \in Nat, NEW a \in Arg, NEW f \in {0, 1}, NEW b \in BOOLEAN
  PROVE  Request(k, a, f, b) \in Load
  BY DEF Request, Load

LEMMA AskType ==
  ASSUME loads \subseteq Load, due \in Nat, NEW times \in Nat, NEW a \in Arg,
         NEW f \in {0, 1}, NEW b \in BOOLEAN, Ask(times, a, f, b)
  PROVE  loads' \subseteq Load /\ due' \in Nat
<1>1. \A k \in 1..times : Request(k, a, f, b) \in Load
  BY RequestType
<1> QED
  BY <1>1 DEF Ask

LEMMA RefreshType ==
  ASSUME loads \subseteq Load, due \in Nat, NEW a \in Arg, NEW f \in {0, 1}, Refresh(a, f)
  PROVE  loads' \subseteq Load /\ due' \in Nat
<1>1. CASE slot \in Loads[page] \ {"actors"}
  <2>1. Ask(1, a, f, slot \in PerArg /\ a # arg')
    BY <1>1 DEF Refresh
  <2> QED
    BY <2>1, AskType
<1>2. CASE slot \notin Loads[page] \ {"actors"}
  BY <1>2 DEF Refresh
<1> QED
  BY <1>1, <1>2

LEMMA BlankType ==
  Blank \in [arg : Arg, flt : {0, 1}, ver : Nat, full : BOOLEAN, live : BOOLEAN]
  BY ZeroIsArg DEF Blank

\* TypeOK without what the shell says of where the tab is.
PageOK ==
  /\ ready \in BOOLEAN /\ enrolling \in BOOLEAN
  /\ page \in Page /\ arg \in Arg /\ flt \in {0, 1} /\ chosen \in {0, 1}
  /\ slot \in Slot
  /\ shown \in [arg : Arg, flt : {0, 1}, ver : Nat, full : BOOLEAN, live : BOOLEAN]
  /\ loads \subseteq Load /\ due \in Nat /\ newest \in Nat /\ doubt \in BOOLEAN
  /\ ops \subseteq Op /\ pressed \in Nat
  /\ writes \in [Arg -> Nat] /\ acked \in [Arg -> Nat]

ShellOK ==
  /\ where \in {"login", "changePassword", "loading", "app"}
  /\ known \in Grants \cup {{}}

LEMMA TypeParts == TypeOK <=> ShellOK /\ PageOK
  BY DEF TypeOK, ShellOK, PageOK

LEMMA MountType ==
  ASSUME slot \in Slot, NEW p \in Page, NEW a \in Arg, Mount(p, a)
  PROVE  PageOK'
<1>1. [Request(1, a, 0, FALSE) EXCEPT !.n = 1] \in Load
  BY DEF Request, Load
<1>2. loads' \subseteq Load /\ due' \in Nat
  BY <1>1 DEF Mount
<1>3. ready' \in BOOLEAN
  BY DEF Mount
<1> QED
  BY <1>2, <1>3, BlankType DEF Mount, PageOK

LEMMA NoPageType ==
  ASSUME slot \in Slot, page' \in Page, arg' \in Arg, NoPage
  PROVE  PageOK'
  BY BlankType DEF NoPage, PageOK

LEMMA TypeInit == Init => TypeOK
<1> SUFFICES ASSUME Init PROVE TypeOK
  OBVIOUS
<1>1. arg \in Arg
  BY StartsInside DEF Init
<1> QED
  BY <1>1, BlankType DEF Init, TypeOK

-----------------------------------------------------------------------------
(* Steps that take no answer and press no button.                          *)

LEMMA OpenAppType ==
  ASSUME PageOK, NEW p \in Page, NEW a \in Arg, OpenApp(p, a)
  PROVE  ShellOK' /\ PageOK'
<1>1. PageOK'
  BY NoPageType DEF OpenApp, PageOK
<1>2. ShellOK'
  BY DEF OpenApp, ShellOK
<1> QED
  BY <1>1, <1>2

LEMMA ShellType == TypeOK /\ Shell => TypeOK'
<1> SUFFICES ASSUME ShellOK, PageOK, Shell PROVE ShellOK' /\ PageOK'
  BY TypeParts DEF TypeOK, ShellOK, PageOK
<1>0. "dashboard" \in Page /\ 0 \in Arg
  BY ZeroIsArg DEF Page
<1>1. CASE \E p \in Page : \E a \in StartsAt(p) : OpenApp(p, a)
  BY <1>1, OpenAppType, StartsInside
<1>2. CASE MeAnswered
  <2>1. PageOK'
    BY <1>2, MountType DEF MeAnswered, PageOK
  <2> QED
    BY <1>2, <2>1 DEF MeAnswered, ShellOK
<1>3. CASE where' \in {"login", "changePassword"} /\
            UNCHANGED <<known, placeVars, slotVars, opVars>>
  BY <1>3 DEF placeVars, slotVars, opVars, ShellOK, PageOK
<1>4. CASE OpenApp("dashboard", 0)
  BY <1>0, <1>4, OpenAppType
<1>5. CASE Logout
  <2>1. PageOK'
    BY <1>5, NoPageType DEF Logout, PageOK
  <2> QED
    BY <1>5, <2>1 DEF Logout, ShellOK
<1> QED
  BY <1>1, <1>2, <1>3, <1>4, <1>5
  DEF Shell, MeMustChange, MeFailed, SignIn, ChangePassword

LEMMA MovesType == TypeOK /\ Moves => TypeOK'
<1> SUFFICES ASSUME ShellOK, PageOK, Moves PROVE ShellOK' /\ PageOK'
  BY TypeParts DEF TypeOK, ShellOK, PageOK
<1> USE DEF shellVars
<1>1. ASSUME NEW p \in Page, NEW a \in Arg, GoTo(p, a) PROVE ShellOK' /\ PageOK'
  <2>1. PageOK'
    BY <1>1, MountType DEF GoTo, PageOK
  <2> QED
    BY <1>1, <2>1 DEF GoTo, ShellOK
<1>2. CASE \E p \in Page : \E a \in StartsAt(p) : FollowLink(p, a)
  BY <1>1, <1>2, StartsInside DEF FollowLink
<1>3. ASSUME NEW a \in Arg, ChangeAddress(a) PROVE ShellOK' /\ PageOK'
  <2>1. loads' \subseteq Load /\ due' \in Nat
    BY <1>3, RefreshType DEF ChangeAddress, PageOK
  <2> QED
    BY <1>3, <2>1 DEF ChangeAddress, ShellOK, PageOK, opVars
<1>4. ASSUME NEW a \in Arg, PickFound(a) PROVE ShellOK' /\ PageOK'
  <2>1. "userDetail" \in Page
    BY DEF Page
  <2> QED
    BY <1>1, <1>3, <1>4, <2>1 DEF PickFound
<1>5. ASSUME NEW a \in Arg, Turn(a) PROVE ShellOK' /\ PageOK'
  <2>1. loads' \subseteq Load /\ due' \in Nat
    BY <1>5, RefreshType DEF Turn, PageOK
  <2> QED
    BY <1>5, <2>1 DEF Turn, ShellOK, PageOK, opVars
<1>6. ASSUME NEW a \in Arg, SetDays(a) PROVE ShellOK' /\ PageOK'
  <2>1. loads' \subseteq Load /\ due' \in Nat
    BY <1>6, RefreshType DEF SetDays, PageOK
  <2> QED
    BY <1>6, <2>1 DEF SetDays, ShellOK, PageOK, opVars
<1>7. ASSUME NEW f \in {0, 1}, Choose(f) PROVE ShellOK' /\ PageOK'
  BY <1>7 DEF Choose, ShellOK, PageOK, slotVars, opVars
<1>8. CASE ApplyFilter
  <2>1. loads' \subseteq Load /\ due' \in Nat
    <3>1. CASE slot = "entries"
      <4>1. Ask(1, 0, chosen, FALSE) \/ Ask(2, 0, chosen, FALSE)
        BY <1>8, <3>1 DEF ApplyFilter
      <4> QED
        BY <4>1, AskType, ZeroIsArg DEF PageOK
    <3>2. CASE slot # "entries"
      BY <1>8, <3>2 DEF ApplyFilter, PageOK
    <3> QED
      BY <3>1, <3>2
  <2> QED
    BY <1>8, <2>1, ZeroIsArg DEF ApplyFilter, ShellOK, PageOK, opVars
<1>9. CASE LiveEntry
  <2>1. shown' \in [arg : Arg, flt : {0, 1}, ver : Nat, full : BOOLEAN, live : BOOLEAN]
    BY <1>9 DEF LiveEntry, PageOK
  <2> QED
    BY <1>9, <2>1 DEF LiveEntry, ShellOK, PageOK, placeVars, opVars
<1> QED
  BY <1>2, <1>4, <1>5, <1>6, <1>7, <1>8, <1>9 DEF Moves

-----------------------------------------------------------------------------
(* Answers and operations.                                                 *)

LEMMA TargetIsArg == \A a \in Arg : Target(a) \in Arg
  BY ZeroIsArg DEF Target

LEMMA AnswersType == TypeOK /\ Answers => TypeOK'
<1> SUFFICES ASSUME ShellOK, PageOK, Answers PROVE ShellOK' /\ PageOK'
  BY TypeParts DEF TypeOK, ShellOK, PageOK
<1>l. PICK l \in loads : \/ ServeLoad(l)
                         \/ \E isFull \in CanFill : LoadAnswered(l, isFull)
                         \/ LoadFailed(l)
  BY DEF Answers
<1> USE DEF shellVars
<1>0. /\ l \in Load /\ l.n \in Nat /\ l.arg \in Arg /\ l.flt \in {0, 1}
      /\ l.stray \in BOOLEAN /\ l.ver \in Nat
  BY DEF PageOK, Load
<1>n. Latest(l.n) \in Nat
  BY <1>0 DEF Latest, PageOK
<1>1. CASE ServeLoad(l)
  <2>1. writes[Target(l.arg)] \in Nat
    BY <1>0, TargetIsArg DEF PageOK
  <2>2. [l EXCEPT !.stage = "read", !.ver = writes[Target(l.arg)]] \in Load
    BY <1>0, <2>1 DEF Load
  <2>3. loads' \subseteq Load
    BY <1>1, <2>2 DEF ServeLoad, PageOK
  <2> QED
    BY <1>1, <2>3 DEF ServeLoad, ShellOK, PageOK, placeVars, opVars
<1>2. ASSUME NEW isFull \in CanFill, LoadAnswered(l, isFull) PROVE ShellOK' /\ PageOK'
  <2>0. isFull \in BOOLEAN
    BY DEF CanFill
  <2>1. shown' \in [arg : Arg, flt : {0, 1}, ver : Nat, full : BOOLEAN, live : BOOLEAN]
    BY <1>0, <1>2, <2>0 DEF LoadAnswered
  <2>2. ready' \in BOOLEAN /\ doubt' \in BOOLEAN
    BY <1>0, <1>2 DEF LoadAnswered, PageOK
  <2> QED
    BY <1>n, <1>2, <2>1, <2>2 DEF LoadAnswered, ShellOK, PageOK, opVars
<1>3. CASE LoadFailed(l)
  <2>1. doubt' \in BOOLEAN
    BY <1>0, <1>3 DEF LoadFailed, PageOK
  <2> QED
    BY <1>n, <1>3, <2>1 DEF LoadFailed, ShellOK, PageOK, placeVars, opVars
<1> QED
  BY <1>l, <1>1, <1>2, <1>3
LEMMA OfferedOnPage == page \in Page => Offered \subseteq Offers(page)
  BY DEF Offered, Offers

LEMMA PressType ==
  ASSUME ShellOK, PageOK, NEW op \in Offered, Press(op)
  PROVE  ShellOK' /\ PageOK'
<1>1. op \in Operation
  BY OfferedOnPage, OffersAreOperations DEF PageOK
<1>2. PICK k \in 1..MaxOps :
        ops' = ops \cup {[op |-> op, arg |-> arg, k |-> k, stage |-> "sent", nth |-> 0]}
  BY DEF Press
<1>3. [op |-> op, arg |-> arg, k |-> k, stage |-> "sent", nth |-> 0] \in Op
  BY <1>1 DEF Op, PageOK
<1>4. ops' \subseteq Op
  BY <1>2, <1>3 DEF PageOK
<1> QED
  BY <1>4 DEF Press, ShellOK, PageOK, shellVars, placeVars, slotVars

LEMMA ServeType ==
  ASSUME ShellOK, PageOK, NEW o \in ops, Serve(o)
  PROVE  ShellOK' /\ PageOK'
<1>0. /\ o \in Op /\ o.op \in Operation /\ o.arg \in Arg /\ o.k \in Nat /\ o.nth \in Nat
      /\ Target(o.arg) \in Arg /\ writes[Target(o.arg)] \in Nat
  BY TargetIsArg DEF PageOK, Op
<1>1. writes' \in [Arg -> Nat] /\ ops' \subseteq Op
  <2>1. CASE slot \in Touches[o.op]
    <3> DEFINE nth == writes[Target(o.arg)] + 1
    <3>0. nth \in Nat
      BY <1>0
    <3> HIDE DEF nth
    <3>1. [o EXCEPT !.stage = "ok", !.nth = nth] \in Op
      BY <1>0, <3>0 DEF Op
    <3> USE DEF nth
    <3> QED
      BY <1>0, <2>1, <3>1 DEF Serve, PageOK
  <2>2. CASE slot \notin Touches[o.op]
    <3>1. [o EXCEPT !.stage = "ok"] \in Op
      BY <1>0 DEF Op
    <3> QED
      BY <2>2, <3>1 DEF Serve, PageOK
  <2> QED
    BY <2>1, <2>2
<1> QED
  BY <1>1 DEF Serve, ShellOK, PageOK, shellVars, placeVars, slotVars

\* What the three ways to take an operation's answer do to what they may touch.
LEMMA AnswerType ==
  ASSUME PageOK, NEW o \in ops, Report(o) \/ UserCreated(o) \/ OwnAccount(o)
  PROVE  /\ ops' \subseteq Op /\ arg' \in Arg /\ enrolling' \in BOOLEAN
         /\ loads' \subseteq Load /\ due' \in Nat
<1>0. o \in Op /\ o.op \in Operation /\ o.arg \in Arg
  BY DEF PageOK, Op
<1>1. CASE Report(o)
  <2>1. loads' \subseteq Load /\ due' \in Nat
    BY <1>0, <1>1, RefreshType DEF Report, PageOK
  <2> QED
    BY <1>1, <2>1 DEF Report, PageOK
<1>2. CASE UserCreated(o)
  <2>1. loads' \subseteq Load /\ due' \in Nat
    <3>1. CASE slot = "users"
      <4>1. Ask(1, 0, 0, FALSE) \/ Ask(2, 0, 0, FALSE)
        BY <1>2, <3>1 DEF UserCreated
      <4> QED
        BY <4>1, AskType, ZeroIsArg DEF PageOK
    <3>2. CASE slot # "users"
      BY <1>2, <3>2 DEF UserCreated, PageOK
    <3> QED
      BY <3>1, <3>2
  <2> QED
    BY <1>2, <2>1, ZeroIsArg DEF UserCreated, PageOK
<1>3. CASE OwnAccount(o)
  <2>0. "registerFinish" \in Operation
    BY DEF Operation
  <2>1. [o EXCEPT !.op = "registerFinish", !.stage = "sent"] \in Op
    BY <1>0, <2>0 DEF Op
  <2>2. ops' \subseteq Op
    BY <1>3, <2>1 DEF OwnAccount, PageOK
  <2>3. enrolling' \in BOOLEAN
    BY <1>3 DEF OwnAccount, PageOK
  <2> QED
    BY <1>3, <2>2, <2>3 DEF OwnAccount, PageOK
<1> QED
  BY <1>1, <1>2, <1>3

LEMMA OpsType ==
  ASSUME ShellOK, PageOK, NEW o \in ops, Serve(o) \/ Answered(o) \/ Failed(o)
  PROVE  ShellOK' /\ PageOK'
<1>1. CASE Answered(o)
  <2>1. acked' \in [Arg -> Nat]
    <3>1. o.nth \in Nat
      BY DEF PageOK, Op
    <3> QED
      BY <1>1, <3>1 DEF Answered, PageOK
  <2>2. /\ ops' \subseteq Op /\ arg' \in Arg /\ enrolling' \in BOOLEAN
        /\ loads' \subseteq Load /\ due' \in Nat
    BY <1>1, AnswerType DEF Answered
  <2> QED
    BY <1>1, <2>1, <2>2 DEF Answered, ShellOK, PageOK, shellVars
<1>2. CASE Failed(o)
  BY <1>2 DEF Failed, ShellOK, PageOK, shellVars, placeVars, slotVars
<1> QED
  BY <1>1, <1>2, ServeType

LEMMA OperationsType == TypeOK /\ Operations => TypeOK'
<1> SUFFICES ASSUME ShellOK, PageOK, Operations PROVE ShellOK' /\ PageOK'
  BY TypeParts DEF TypeOK, ShellOK, PageOK
<1> QED
  BY PressType, OpsType DEF Operations

LEMMA TypeNext == TypeOK /\ [Next]_vars => TypeOK'
<1> SUFFICES ASSUME TypeOK, [Next]_vars PROVE TypeOK'
  OBVIOUS
<1>1. CASE UserArrives
  BY <1>1 DEF UserArrives, TypeOK, shellVars, slotVars, opVars
<1>2. CASE UNCHANGED vars
  BY <1>2 DEF TypeOK, vars, shellVars, placeVars, slotVars, opVars
<1> QED
  BY <1>1, <1>2, ShellType, MovesType, AnswersType, OperationsType DEF Next

\* Every piece of a page's state keeps its type.
THEOREM TypeCorrect == Spec => []TypeOK
<1> QED
  BY TypeInit, TypeNext, PTL DEF Spec

\* A page reached through the links it is reached through offers only what the
\* server allows a user with the permissions /me gave.
THEOREM NothingOfferedInVain == Spec => []HiddenNotRefused
<1>1. TypeOK => HiddenNotRefused
  BY OfferedIsServed DEF TypeOK
<1> QED
  BY <1>1, TypeCorrect, PTL

-----------------------------------------------------------------------------
(* Why what a page shows can be relied on once its answers are in.  The    *)
(* answer that counts is that of the last GET sent, number due: the        *)
(* invariant says that it asks for what the page is at, that it was read   *)
(* after every operation the page had been told of when it was sent, and   *)
(* that it is either still to come or what is shown, unless doubted.       *)

\* The tab shows a page that has the slot.
Followed == where = "app" /\ slot \in Loads[page]

\* An answer for address a under filter f is one for what the page is at.
Current(a, f) ==
  /\ slot \in PerArg => a = arg
  /\ slot = "entries" => f = flt

\* The operations under way are those of the page.
OpsKnown ==
  where = "app" => \A o \in ops : o.op \in Offers(page) \cup {"registerFinish"}

\* The page has been told of no more than the server has done.
ToldOfDone ==
  where = "app" =>
    /\ \A t \in Arg : acked[t] <= writes[t]
    /\ \A o \in ops : /\ o.nth <= writes[Target(o.arg)]
                      /\ o.nth = 0 \/ slot \in Touches[o.op]

\* GETs are numbered from 1 to due; the last is under way until it came back.
Numbered ==
  Followed =>
    /\ newest <= due /\ 0 < due
    /\ \A l \in loads : 0 < l.n /\ l.n <= due
    /\ \A l, m \in loads : l.n = m.n => l = m
    /\ newest < due => \E l \in loads : l.n = due
    /\ newest = due => \A l \in loads : l.n < due

\* The last GET is for what the page is at, and none of the operations the page
\* has been told of came after it was read.
LastAsked ==
  Followed =>
    \A l \in loads : l.n = due /\ ~l.stray =>
      /\ Current(l.arg, l.flt)
      /\ l.stage = "read" => l.ver >= acked[Target(arg)]

\* So it is with what is shown, once the last GET has come back.
LastShown ==
  Followed /\ newest = due /\ ~doubt =>
    /\ Current(shown.arg, shown.flt)
    /\ shown.ver >= acked[Target(arg)]
    /\ slot = "entries" /\ shown.live => flt = 0 /\ arg = 0

Answering == Numbered /\ LastAsked /\ LastShown
IInv == TypeOK /\ OpsKnown /\ ToldOfDone /\ Answering

-----------------------------------------------------------------------------
(* The tables.                                                             *)

LEMMA SlotTables ==
  /\ PerId \subseteq PerArg
  /\ "actors" \notin PerArg /\ "actors" # "entries"
  /\ \A p \in Page : "entries" \in Loads[p] \/ "actors" \in Loads[p] => p = "audit"
  /\ Loads["audit"] = {"actors", "entries"}
  /\ Loads["users"] = {"users"}
<1>1. \A p \in Page : "entries" \in Loads[p] \/ "actors" \in Loads[p] => p = "audit"
  BY DEF Page, Loads, DashboardLoads, UsersLoads, UserDetailLoads, RolesLoads,
         RoleDetailLoads, ApiClientsLoads, IotLoads, UsageLoads, SettingsLoads
<1>2. Loads["audit"] = {"actors", "entries"} /\ Loads["users"] = {"users"}
  BY DEF Page, Loads, AuditLoads, UsersLoads
<1> QED
  BY <1>1, <1>2 DEF PerId, PerArg

LEMMA OfferTables ==
  /\ Offers("audit") = {"announce"}
  /\ \A p \in Page : "createUser" \in Offers(p) => p = "users"
  /\ \A op \in Offers("account") \cup {"registerFinish"} : Touches[op] = {}
  /\ "announce" \in Offers("account")
<1>1. Offers("audit") = {"announce"}
  BY DEF Offers, Panels, Page, FilterPanel, EntriesPanel, BellPanel, Panel
<1>2. Offers("account") = {"announce", "uploadAvatar", "mfaEnroll", "mfaConfirm",
                           "mfaDisable", "registerBegin"}
  BY DEF Offers, Panels, Page, AvatarPanel, TotpPanel, SecurityKeysPanel, BellPanel, Panel
<1>3. \A p \in Page : "createUser" \in Offers(p) => p = "users"
  <2> SUFFICES ASSUME NEW p \in Page, "createUser" \in Offers(p), p # "users" PROVE FALSE
    OBVIOUS
  <2>1. PICK q \in Panels[p] : "createUser" \in q.offers
    BY DEF Offers
  <2>2. q # BellPanel
    BY <2>1 DEF BellPanel, Panel
  <2>3. CASE p = "dashboard"
    BY <2>1, <2>2, <2>3 DEF Panels, DashboardPanels, Panel
  <2>4. CASE p = "userDetail"
    BY <2>1, <2>2, <2>4 DEF Panels, ProfilePanel, UserRolesPanel, CredentialsPanel, Panel
  <2>5. CASE p \in {"roles", "roleDetail"}
    BY <2>1, <2>2, <2>5 DEF Panels, RolesPanel, PermissionsPanel, GroupsPanel,
                            RoleDetailPanels, Panel
  <2>6. CASE p \in {"apiClients", "iot"}
    BY <2>1, <2>2, <2>6 DEF Panels, NewClientPanel, ClientsPanel, RegisterDevicePanel,
                            DevicesPanel, EventsPanel, Panel
  <2>7. CASE p \in {"usage", "audit", "settings"}
    BY <2>1, <2>2, <2>7 DEF Panels, UsagePanels, FilterPanel, EntriesPanel, SettingsPanels,
                            Panel
  <2>8. CASE p = "account"
    BY <2>1, <2>2, <2>8 DEF Panels, AvatarPanel, TotpPanel, SecurityKeysPanel, Panel
  <2> QED
    BY <2>3, <2>4, <2>5, <2>6, <2>7, <2>8 DEF Page
<1>4. Offers("account") \cup {"registerFinish"} \subseteq Operation
  BY OffersAreOperations DEF Page, Operation
<1>5. \A op \in Offers("account") \cup {"registerFinish"} : Touches[op] = {}
  BY <1>2, <1>4 DEF Touches
<1> QED
  BY <1>1, <1>2, <1>3, <1>5

\* What is for the page's address is about the rows its operations change.
LEMMA SameTarget ==
  ASSUME NEW a, NEW f, Current(a, f)
  PROVE  Target(a) = Target(arg)
  BY SlotTables DEF Current, Target

-----------------------------------------------------------------------------
(* What mounting a page, and asking once more, establish.                  *)

LEMMA Elsewhere == where' # "app" => (OpsKnown /\ ToldOfDone /\ Answering)'
  BY DEF OpsKnown, ToldOfDone, Answering, Numbered, LastAsked, LastShown, Followed

LEMMA MountAnswers ==
  ASSUME NEW p \in Page, NEW a \in Arg, Mount(p, a)
  PROVE  (OpsKnown /\ ToldOfDone /\ Answering)'
<1>1. OpsKnown' /\ ToldOfDone'
  BY DEF Mount, OpsKnown, ToldOfDone
<1>2. CASE slot \in Loads[p]
  <2> DEFINE l0 == [Request(1, a, 0, FALSE) EXCEPT !.n = 1]
  <2>1. loads' = {l0} /\ due' = 1 /\ newest' = 0 /\ arg' = a /\ flt' = 0
    BY <1>2 DEF Mount
  <2>2. l0.n = 1 /\ l0.arg = a /\ l0.flt = 0 /\ l0.stage = "sent"
    BY DEF Request
  <2> HIDE DEF l0
  <2>3. Numbered'
    BY <2>1, <2>2 DEF Numbered
  <2>4. LastAsked'
    BY <2>1, <2>2 DEF LastAsked, Current
  <2>5. LastShown'
    BY <2>1 DEF LastShown
  <2> QED
    BY <1>1, <2>3, <2>4, <2>5 DEF Answering
<1>3. CASE slot \notin Loads[p]
  <2>1. ~Followed'
    BY <1>3 DEF Mount, Followed
  <2> QED
    BY <1>1, <2>1 DEF Answering, Numbered, LastAsked, LastShown
<1> QED
  BY <1>2, <1>3

\* A step that asks: from here on it is the new answer that counts.
LEMMA AskAnswers ==
  ASSUME TypeOK, Numbered, Followed, UNCHANGED <<where, page, slot, newest>>,
         NEW times \in {1, 2}, NEW a \in Arg, NEW f \in {0, 1}, NEW b \in BOOLEAN,
         Ask(times, a, f, b), ~b => Current(a, f)'
  PROVE  Answering'
<1> DEFINE new == {Request(k, a, f, b) : k \in 1..times}
<1>1. loads' = loads \cup new /\ due' = due + times
  BY DEF Ask
<1>2. /\ due \in Nat /\ newest \in Nat /\ newest <= due
      /\ \A l \in loads : l.n \in Nat /\ 0 < l.n /\ l.n <= due
      /\ \A l, m \in loads : l.n = m.n => l = m
  BY DEF TypeOK, Numbered, Load
<1>3. \A k \in 1..times : /\ Request(k, a, f, b).n = due + k
                          /\ Request(k, a, f, b).arg = a
                          /\ Request(k, a, f, b).flt = f
                          /\ Request(k, a, f, b).stray = b
                          /\ Request(k, a, f, b).stage = "sent"
  BY DEF Request
<1>4. \A l \in new : /\ \E k \in 1..times : l = Request(k, a, f, b) /\ l.n = due + k
                     /\ due < l.n /\ l.n <= due + times
                     /\ l.arg = a /\ l.flt = f /\ l.stray = b /\ l.stage = "sent"
  BY <1>2, <1>3
<1>5. \A l, m \in new : l.n = m.n => l = m
  BY <1>2, <1>4
<1>6. \E l \in new : l.n = due + times
  BY <1>3
<1> HIDE DEF new
<1>7. Numbered'
  <2>1. \A l, m \in loads' : l.n = m.n => l = m
    BY <1>1, <1>2, <1>4, <1>5
  <2>2. \A l \in loads' : 0 < l.n /\ l.n <= due'
    BY <1>1, <1>2, <1>4
  <2>3. newest' < due' /\ 0 < due' /\ newest' <= due' /\ newest' # due'
    BY <1>1, <1>2
  <2>4. \E l \in loads' : l.n = due'
    BY <1>1, <1>6
  <2> QED
    BY <2>1, <2>2, <2>3, <2>4 DEF Numbered
<1>8. LastAsked'
  <2>1. \A l \in loads' : l.n = due' => l \in new
    BY <1>1, <1>2
  <2> QED
    BY <1>4, <2>1 DEF LastAsked, Current
<1>9. LastShown'
  BY <1>1, <1>2 DEF LastShown
<1> QED
  BY <1>7, <1>8, <1>9 DEF Answering

\* A step that leaves the answers alone, and what is asked of them.
LEMMA KeepAnswers ==
  ASSUME Answering,
         UNCHANGED <<where, page, slot, loads, due, newest, shown, doubt>>,
         slot = "actors" \/ UNCHANGED <<arg, flt>>,
         acked'[Target(arg)] = acked[Target(arg)]
  PROVE  Answering'
<1>1. Target(arg)' = Target(arg)
  BY SlotTables DEF Target
<1>2. \A a, f : Current(a, f) => Current(a, f)'
  BY SlotTables DEF Current
<1>3. Numbered'
  BY DEF Answering, Numbered, Followed
<1>4. LastAsked'
  BY <1>1, <1>2 DEF Answering, LastAsked, Followed
<1>5. LastShown'
  BY <1>1, <1>2, SlotTables DEF Answering, LastShown, Followed
<1> QED
  BY <1>3, <1>4, <1>5 DEF Answering

LEMMA NotFollowed ==
  ASSUME ~Followed, UNCHANGED <<where, page, slot>>
  PROVE  Answering'
  BY DEF Answering, Numbered, LastAsked, LastShown, Followed

LEMMA RefreshAnswers ==
  ASSUME TypeOK, Answering, UNCHANGED <<where, page, slot, newest, shown, doubt>>,
         NEW a \in Arg, NEW f \in {0, 1}, Refresh(a, f), where = "app",
         acked'[Target(arg)] = acked[Target(arg)] \/ slot \in Loads[page] \ {"actors"},
         (slot \in PerArg /\ a = arg') \/ slot \notin PerArg => Current(a, f)'
  PROVE  Answering'
<1>1. CASE slot \in Loads[page] \ {"actors"}
  <2>1. Ask(1, a, f, slot \in PerArg /\ a # arg')
    BY <1>1 DEF Refresh
  <2> QED
    BY <1>1, <2>1, AskAnswers DEF Followed, Answering
<1>2. CASE slot = "actors"
  BY <1>2, KeepAnswers DEF Refresh
<1>3. CASE slot \notin Loads[page]
  BY <1>3, NotFollowed DEF Followed
<1> QED
  BY <1>1, <1>2, <1>3

-----------------------------------------------------------------------------
(* Shell and moves.                                                        *)

\* What a step that presses no button keeps of the operations.
LEMMA OpsKept ==
  ASSUME OpsKnown, ToldOfDone, UNCHANGED <<where, page, slot, opVars>>
  PROVE  OpsKnown' /\ ToldOfDone'
  BY DEF OpsKnown, ToldOfDone, opVars, Target

LEMMA ShellAnswers == IInv /\ Shell => (OpsKnown /\ ToldOfDone /\ Answering)'
<1> SUFFICES ASSUME TypeOK, Shell PROVE (OpsKnown /\ ToldOfDone /\ Answering)'
  BY DEF IInv
<1>1. CASE MeAnswered
  BY <1>1, MountAnswers DEF MeAnswered, TypeOK
<1>2. CASE where' # "app"
  BY <1>2, Elsewhere
<1> QED
  BY <1>1, <1>2
  DEF Shell, MeMustChange, MeFailed, SignIn, ChangePassword, Logout, OpenApp

LEMMA MovesAnswers == IInv /\ Moves => (OpsKnown /\ ToldOfDone /\ Answering)'
<1> SUFFICES ASSUME TypeOK, OpsKnown, ToldOfDone, Answering, Moves
             PROVE  (OpsKnown /\ ToldOfDone /\ Answering)'
  BY DEF IInv
<1>t. page \in Page /\ arg \in Arg /\ flt \in {0, 1} /\ chosen \in {0, 1}
  BY DEF TypeOK
<1>k. UNCHANGED <<where, page, slot, opVars>> => OpsKnown' /\ ToldOfDone'
  BY OpsKept
<1>1. ASSUME NEW p \in Page, NEW a \in Arg, GoTo(p, a)
      PROVE  (OpsKnown /\ ToldOfDone /\ Answering)'
  BY <1>1, MountAnswers DEF GoTo
<1>2. CASE \E p \in Page : \E a \in StartsAt(p) : FollowLink(p, a)
  BY <1>1, <1>2, StartsInside DEF FollowLink
<1>3. ASSUME NEW a \in Arg, ChangeAddress(a), where = "app"
      PROVE  (OpsKnown /\ ToldOfDone /\ Answering)'
  <2>1. UNCHANGED <<where, page, slot, newest, shown, doubt, opVars, flt>> /\ arg' = a
    BY <1>3 DEF ChangeAddress, shellVars
  <2>2. slot \in Loads[page] => slot # "entries"
    BY <1>t, <1>3, SlotTables DEF ChangeAddress
  <2>3. CASE slot \in Loads[page]
    <3>1. Current(a, 0)'
      BY <2>1, <2>2, <2>3 DEF Current
    <3>2. acked'[Target(arg)] = acked[Target(arg)]
      BY <2>1 DEF opVars
    <3>3. Refresh(a, 0)
      BY <1>3 DEF ChangeAddress
    <3> QED
      BY <1>3, <1>k, <2>1, <3>1, <3>2, <3>3, RefreshAnswers
  <2>4. CASE slot \notin Loads[page]
    BY <1>k, <2>1, <2>4, NotFollowed DEF Followed
  <2> QED
    BY <2>3, <2>4
<1>4. ASSUME NEW a \in Arg, PickFound(a) PROVE (OpsKnown /\ ToldOfDone /\ Answering)'
  <2>1. "userDetail" \in Page
    BY DEF Page
  <2> QED
    BY <1>1, <1>3, <1>4, <2>1 DEF PickFound
<1>5. ASSUME NEW a \in Arg, Turn(a) PROVE (OpsKnown /\ ToldOfDone /\ Answering)'
  <2>0. PICK f \in {0, 1} : f = chosen
    BY <1>t
  <2>1. /\ UNCHANGED <<where, page, slot, newest, shown, doubt, opVars>>
        /\ arg' = a /\ flt' = f /\ Refresh(a, f) /\ where = "app"
    BY <1>5, <2>0 DEF Turn, shellVars
  <2>2. Current(a, f)'
    BY <2>1 DEF Current
  <2>3. acked'[Target(arg)] = acked[Target(arg)]
    BY <2>1 DEF opVars
  <2> QED
    BY <1>k, <2>1, <2>2, <2>3, RefreshAnswers
<1>6. ASSUME NEW a \in Arg, SetDays(a) PROVE (OpsKnown /\ ToldOfDone /\ Answering)'
  <2>1. /\ UNCHANGED <<where, page, slot, newest, shown, doubt, opVars, flt>>
        /\ arg' = a /\ Refresh(a, 0) /\ where = "app" /\ page = "usage"
    BY <1>6 DEF SetDays, shellVars
  <2>2. CASE slot \in Loads[page]
    <3>1. Current(a, 0)'
      BY <1>t, <2>1, <2>2, SlotTables DEF Current
    <3>2. acked'[Target(arg)] = acked[Target(arg)]
      BY <2>1 DEF opVars
    <3> QED
      BY <1>k, <2>1, <3>1, <3>2, RefreshAnswers
  <2>3. CASE slot \notin Loads[page]
    BY <1>k, <2>1, <2>3, NotFollowed DEF Followed
  <2> QED
    BY <2>2, <2>3
<1>7. ASSUME NEW f \in {0, 1}, Choose(f) PROVE (OpsKnown /\ ToldOfDone /\ Answering)'
  BY <1>7, <1>k, KeepAnswers DEF Choose, shellVars, slotVars, opVars
<1>8. CASE ApplyFilter
  <2>0. PICK f \in {0, 1} : f = chosen
    BY <1>t
  <2>1. /\ UNCHANGED <<where, page, slot, newest, shown, doubt, opVars>>
        /\ arg' = 0 /\ flt' = f /\ where = "app" /\ page = "audit"
    BY <1>8, <2>0 DEF ApplyFilter, shellVars
  <2>2. CASE slot = "entries"
    <3>1. PICK times \in {1, 2} : Ask(times, 0, f, FALSE)
      BY <1>8, <2>0, <2>2 DEF ApplyFilter
    <3>2. Current(0, f)'
      BY <2>1 DEF Current
    <3>3. Followed
      BY <2>1, <2>2, SlotTables DEF Followed
    <3>4. Numbered /\ 0 \in Arg /\ FALSE \in BOOLEAN /\ UNCHANGED <<where, page, slot, newest>>
      BY <2>1, ZeroIsArg DEF Answering
    <3>5. Answering'
      BY <3>1, <3>2, <3>3, <3>4, AskAnswers
    <3> QED
      BY <1>k, <2>1, <3>5
  <2>3. CASE slot = "actors"
    BY <1>8, <1>k, <2>1, <2>3, KeepAnswers, SlotTables DEF ApplyFilter, opVars
  <2>4. CASE slot \notin {"actors", "entries"}
    BY <1>k, <2>1, <2>4, NotFollowed, SlotTables DEF Followed
  <2> QED
    BY <2>2, <2>3, <2>4
<1>9. CASE LiveEntry
  <2>1. /\ UNCHANGED <<where, page, slot, loads, due, newest, doubt, arg, flt, opVars>>
        /\ shown' = [shown EXCEPT !.live = TRUE] /\ arg = 0 /\ flt = 0
    BY <1>9 DEF LiveEntry, shellVars, placeVars
  <2>2. shown'.arg = shown.arg /\ shown'.flt = shown.flt /\ shown'.ver = shown.ver
    BY <2>1 DEF TypeOK
  <2>3. Numbered' /\ LastAsked'
    BY <2>1 DEF Answering, Numbered, LastAsked, Followed, Current, Target, opVars
  <2>4. LastShown'
    BY <2>1, <2>2 DEF Answering, LastShown, Followed, Current, Target, opVars
  <2> QED
    BY <1>k, <2>1, <2>3, <2>4 DEF Answering
<1> QED
  BY <1>2, <1>4, <1>5, <1>6, <1>7, <1>8, <1>9 DEF Moves

-----------------------------------------------------------------------------
(* Answers.                                                                *)

LEMMA ServeLoadAnswers ==
  ASSUME IInv, NEW l \in loads, ServeLoad(l)
  PROVE  Answering'
<1> DEFINE l2 == [l EXCEPT !.stage = "read", !.ver = writes[Target(l.arg)]]
<1>1. /\ UNCHANGED <<where, page, arg, flt, slot, shown, due, newest, doubt, acked>>
      /\ loads' = (loads \ {l}) \cup {l2}
  BY DEF ServeLoad, shellVars, placeVars, opVars
<1>2. l \in Load
  BY DEF IInv, TypeOK
<1>3. /\ l2.n = l.n /\ l2.arg = l.arg /\ l2.flt = l.flt /\ l2.stray = l.stray
      /\ l2.ver = writes[Target(l.arg)]
  BY <1>2 DEF Load
<1> HIDE DEF l2
<1>4. ~Followed => Answering'
  BY <1>1, NotFollowed
<1> SUFFICES ASSUME Followed PROVE Answering'
  BY <1>4
<1>5. Numbered'
  BY <1>1, <1>3 DEF IInv, Answering, Numbered, Followed
<1>6. LastAsked'
  <2> SUFFICES ASSUME NEW m \in loads', m.n = due, ~m.stray
               PROVE  /\ Current(m.arg, m.flt)
                      /\ m.stage = "read" => m.ver >= acked[Target(arg)]
    BY <1>1 DEF LastAsked, Current, Target
  <2>1. CASE m \in loads
    BY <2>1 DEF IInv, Answering, LastAsked
  <2>2. CASE m = l2
    <3>1. Current(l.arg, l.flt)
      BY <1>3, <2>2 DEF IInv, Answering, LastAsked
    <3>2. Target(l.arg) = Target(arg)
      BY <3>1, SameTarget
    <3>3. Target(arg) \in Arg
      BY TargetIsArg DEF IInv, TypeOK
    <3>4. writes[Target(arg)] >= acked[Target(arg)]
      BY <3>3 DEF IInv, ToldOfDone, Followed, TypeOK
    <3> QED
      BY <1>3, <2>2, <3>1, <3>2, <3>4
  <2> QED
    BY <1>1, <2>1, <2>2
<1>7. LastShown'
  BY <1>1 DEF IInv, Answering, LastShown, Followed, Current, Target
<1> QED
  BY <1>5, <1>6, <1>7 DEF Answering

\* An answer, or its failure, is one fewer under way.
LEMMA LoadGone ==
  ASSUME TypeOK, Numbered, Followed, NEW l \in loads,
         UNCHANGED <<where, page, slot, due>>,
         loads' = loads \ {l}, newest' = Latest(l.n)
  PROVE  /\ Numbered'
         /\ newest' = due' => l.n = due \/ (newest = due /\ l.n < newest)
<1>1. /\ due \in Nat /\ newest \in Nat /\ newest <= due /\ 0 < due
      /\ \A m \in loads : m.n \in Nat /\ 0 < m.n /\ m.n <= due
      /\ \A m, k \in loads : m.n = k.n => m = k
      /\ newest < due => \E m \in loads : m.n = due
      /\ newest = due => \A m \in loads : m.n < due
  BY DEF TypeOK, Numbered, Load
<1>2. newest' = IF l.n > newest THEN l.n ELSE newest
  BY DEF Latest
<1>3. newest' = due' => l.n = due \/ (newest = due /\ l.n < newest)
  BY <1>1, <1>2
<1>4. newest' <= due' /\ newest' \in Nat
  BY <1>1, <1>2
<1>5. newest' < due' => \E m \in loads' : m.n = due'
  <2> SUFFICES ASSUME newest' < due' PROVE \E m \in loads' : m.n = due'
    OBVIOUS
  <2>1. l.n < due /\ newest < due
    BY <1>1, <1>2
  <2> QED
    BY <1>1, <2>1
<1>6. newest' = due' => \A m \in loads' : m.n < due'
  <2> SUFFICES ASSUME newest' = due', NEW m \in loads' PROVE m.n < due'
    OBVIOUS
  <2>1. m \in loads /\ m # l
    OBVIOUS
  <2> QED
    BY <1>1, <1>3, <2>1
<1> QED
  BY <1>1, <1>3, <1>4, <1>5, <1>6 DEF Numbered

LEMMA LoadAnsweredAnswers ==
  ASSUME IInv, NEW l \in loads, NEW isFull \in CanFill, LoadAnswered(l, isFull)
  PROVE  Answering'
<1>1. /\ UNCHANGED <<where, page, arg, flt, slot, due, acked>>
      /\ loads' = loads \ {l} /\ newest' = Latest(l.n)
      /\ doubt' = (l.n < newest \/ l.stray) /\ l.stage = "read"
      /\ shown' = [arg |-> l.arg, flt |-> l.flt, ver |-> l.ver, full |-> isFull,
                   live |-> FALSE]
  BY DEF LoadAnswered, shellVars, opVars
<1>2. ~Followed => Answering'
  BY <1>1, NotFollowed
<1> SUFFICES ASSUME Followed PROVE Answering'
  BY <1>2
<1>3. /\ Numbered'
      /\ newest' = due' => l.n = due \/ (newest = due /\ l.n < newest)
  BY <1>1, LoadGone DEF IInv, Answering
<1>4. LastAsked'
  BY <1>1 DEF IInv, Answering, LastAsked, Followed, Current, Target
<1>5. LastShown'
  <2> SUFFICES ASSUME newest' = due', ~doubt'
               PROVE  /\ Current(l.arg, l.flt)
                      /\ l.ver >= acked[Target(arg)]
    BY <1>1 DEF LastShown, Current, Target
  <2>1. l.n = due /\ ~l.stray
    BY <1>1, <1>3
  <2> QED
    BY <1>1, <2>1 DEF IInv, Answering, LastAsked
<1> QED
  BY <1>3, <1>4, <1>5 DEF Answering

LEMMA LoadFailedAnswers ==
  ASSUME IInv, NEW l \in loads, LoadFailed(l)
  PROVE  Answering'
<1>1. /\ UNCHANGED <<where, page, arg, flt, slot, due, shown, acked>>
      /\ loads' = loads \ {l} /\ newest' = Latest(l.n)
      /\ doubt' = (doubt \/ l.n >= newest)
  BY DEF LoadFailed, shellVars, placeVars, opVars
<1>2. ~Followed => Answering'
  BY <1>1, NotFollowed
<1> SUFFICES ASSUME Followed PROVE Answering'
  BY <1>2
<1>3. /\ Numbered'
      /\ newest' = due' => l.n = due \/ (newest = due /\ l.n < newest)
  BY <1>1, LoadGone DEF IInv, Answering
<1>4. LastAsked'
  BY <1>1 DEF IInv, Answering, LastAsked, Followed, Current, Target
<1>5. LastShown'
  <2> SUFFICES ASSUME newest' = due', ~doubt' PROVE LastShown'
    BY DEF LastShown
  <2>1. newest = due /\ ~doubt
    <3>1. l.n \in Nat /\ newest \in Nat /\ newest <= due /\ due \in Nat
      BY DEF IInv, TypeOK, Load, Answering, Numbered
    <3> QED
      BY <1>1, <1>3, <3>1
  <2> QED
    BY <1>1, <2>1 DEF IInv, Answering, LastShown, Followed, Current, Target
<1> QED
  BY <1>3, <1>4, <1>5 DEF Answering

LEMMA AnswersAnswers == IInv /\ Answers => (OpsKnown /\ ToldOfDone /\ Answering)'
<1> SUFFICES ASSUME IInv, NEW l \in loads,
                    \/ ServeLoad(l)
                    \/ \E isFull \in CanFill : LoadAnswered(l, isFull)
                    \/ LoadFailed(l)
             PROVE  (OpsKnown /\ ToldOfDone /\ Answering)'
  BY DEF Answers
<1>1. UNCHANGED <<where, page, slot, opVars>>
  BY DEF ServeLoad, LoadAnswered, LoadFailed, shellVars, placeVars, opVars
<1>2. OpsKnown' /\ ToldOfDone'
  BY <1>1, OpsKept DEF IInv
<1> QED
  BY <1>2, ServeLoadAnswers, LoadAnsweredAnswers, LoadFailedAnswers

-----------------------------------------------------------------------------
(* Operations.                                                             *)

LEMMA PressAnswers ==
  ASSUME IInv, NEW op \in Offered, Press(op)
  PROVE  (OpsKnown /\ ToldOfDone /\ Answering)'
<1>1. UNCHANGED <<where, page, arg, flt, slot, shown, loads, due, newest, doubt,
                  writes, acked>>
  BY DEF Press, shellVars, placeVars, slotVars
<1>2. PICK k \in 1..MaxOps :
        ops' = ops \cup {[op |-> op, arg |-> arg, k |-> k, stage |-> "sent", nth |-> 0]}
  BY DEF Press
<1>3. op \in Offers(page)
  BY OfferedOnPage DEF IInv, TypeOK
<1>4. OpsKnown'
  BY <1>1, <1>2, <1>3 DEF IInv, OpsKnown
<1>5. ToldOfDone'
  <2>1. writes[Target(arg)] \in Nat
    BY TargetIsArg DEF IInv, TypeOK
  <2>2. 0 <= writes[Target(arg)]
    BY <2>1
  <2> QED
    BY <1>1, <1>2, <2>2 DEF IInv, ToldOfDone, Target
<1>6. Answering'
  BY <1>1, KeepAnswers DEF IInv
<1> QED
  BY <1>4, <1>5, <1>6

LEMMA ServeAnswers ==
  ASSUME IInv, NEW o \in ops, Serve(o)
  PROVE  (OpsKnown /\ ToldOfDone /\ Answering)'
<1> DEFINE t == Target(o.arg)
<1>1. UNCHANGED <<where, page, arg, flt, slot, shown, loads, due, newest, doubt, acked>>
  BY DEF Serve, shellVars, placeVars, slotVars
<1>2. Answering'
  BY <1>1, KeepAnswers DEF IInv
<1>3. CASE where # "app"
  BY <1>1, <1>2, <1>3 DEF OpsKnown, ToldOfDone
<1>4. CASE where = "app"
  <2>0. /\ o \in Op /\ t \in Arg /\ writes \in [Arg -> Nat] /\ acked \in [Arg -> Nat]
        /\ \A u \in Op : u.nth \in Nat /\ Target(u.arg) \in Arg
    BY TargetIsArg DEF IInv, TypeOK, Op
  <2>1. /\ o.op \in Offers(page) \cup {"registerFinish"}
        /\ \A u \in ops : u \in Op /\ u.nth <= writes[Target(u.arg)]
                                   /\ (u.nth = 0 \/ slot \in Touches[u.op])
        /\ \A x \in Arg : acked[x] <= writes[x]
        /\ \A u \in ops : u.op \in Offers(page) \cup {"registerFinish"}
    BY <1>4 DEF IInv, OpsKnown, ToldOfDone, TypeOK
  <2> HIDE DEF t
  <2>2. CASE slot \in Touches[o.op]
    <3> DEFINE nth == writes[t] + 1
               o2 == [o EXCEPT !.stage = "ok", !.nth = nth]
    <3>1. /\ writes' = [writes EXCEPT ![t] = nth]
          /\ ops' = (ops \ {o}) \cup {o2}
      BY <2>2 DEF Serve, t
    <3>2. nth \in Nat /\ writes[t] <= nth
      BY <2>0
    <3> HIDE DEF nth
    <3>3. o2.op = o.op /\ o2.arg = o.arg /\ o2.nth = nth
      BY <2>0 DEF Op
    <3> HIDE DEF o2
    <3>4. \A x \in Arg : writes[x] <= writes'[x] /\ writes'[x] \in Nat
      BY <2>0, <3>1, <3>2
    <3>5. writes'[t] = nth
      BY <2>0, <3>1
    <3>6. OpsKnown'
      BY <1>1, <2>1, <3>1, <3>3 DEF OpsKnown
    <3>7. \A x \in Arg : acked'[x] <= writes'[x]
      BY <1>1, <2>0, <2>1, <3>4
    <3>8. \A u \in ops' : /\ u.nth <= writes'[Target(u.arg)]
                          /\ u.nth = 0 \/ slot \in Touches[u.op]
      <4> SUFFICES ASSUME NEW u \in ops'
                   PROVE  /\ u.nth <= writes'[Target(u.arg)]
                          /\ u.nth = 0 \/ slot \in Touches[u.op]
        OBVIOUS
      <4>1. CASE u \in ops
        <5>1. u.nth <= writes[Target(u.arg)] /\ Target(u.arg) \in Arg /\ u.nth \in Nat
          BY <2>0, <2>1, <4>1
        <5>2. writes[Target(u.arg)] \in Nat
          BY <2>0, <5>1
        <5> QED
          BY <2>1, <3>4, <4>1, <5>1, <5>2
      <4>2. CASE u = o2
        BY <2>2, <3>2, <3>3, <3>5, <4>2 DEF t
      <4> QED
        BY <3>1, <4>1, <4>2
    <3>9. ToldOfDone'
      <4>1. \A u \in ops' : Target(u.arg)' = Target(u.arg)
        BY <1>1 DEF Target
      <4>2. \A u \in ops' : u.nth <= writes'[Target(u.arg)']
        <5> SUFFICES ASSUME NEW u \in ops' PROVE u.nth <= writes'[Target(u.arg)']
          OBVIOUS
        <5>1. Target(u.arg)' = Target(u.arg)
          BY <4>1
        <5>2. u.nth <= writes'[Target(u.arg)]
          BY <3>8
        <5> QED
          BY <5>1, <5>2
      <4>3. \A u \in ops' : u.nth = 0 \/ slot' \in Touches[u.op]
        BY <1>1, <3>8
      <4> QED
        BY <3>7, <4>2, <4>3, Zenon DEF ToldOfDone
    <3> QED
      BY <1>2, <3>6, <3>9
  <2>3. CASE slot \notin Touches[o.op]
    <3> DEFINE o2 == [o EXCEPT !.stage = "ok"]
    <3>1. writes' = writes /\ ops' = (ops \ {o}) \cup {o2}
      BY <2>3 DEF Serve
    <3>2. o2.op = o.op /\ o2.arg = o.arg /\ o2.nth = o.nth
      BY <2>0 DEF Op
    <3> HIDE DEF o2
    <3> QED
      BY <1>1, <1>2, <2>1, <3>1, <3>2 DEF OpsKnown, ToldOfDone, Target
  <2> QED
    BY <2>2, <2>3
<1> QED
  BY <1>3, <1>4

LEMMA FailedAnswers ==
  ASSUME IInv, NEW o \in ops, Failed(o)
  PROVE  (OpsKnown /\ ToldOfDone /\ Answering)'
<1>1. UNCHANGED <<where, page, arg, flt, slot, shown, loads, due, newest, doubt,
                  writes, acked>> /\ ops' = ops \ {o}
  BY DEF Failed, shellVars, placeVars, slotVars
<1>2. Answering'
  BY <1>1, KeepAnswers DEF IInv
<1> QED
  BY <1>1, <1>2 DEF IInv, OpsKnown, ToldOfDone, Target

LEMMA AnsweredAnswers ==
  ASSUME IInv, NEW o \in ops, Answered(o), where = "app"
  PROVE  (OpsKnown /\ ToldOfDone /\ Answering)'
<1>0. /\ o \in Op /\ o.nth \in Nat /\ o.arg \in Arg /\ Target(o.arg) \in Arg
      /\ acked \in [Arg -> Nat] /\ writes \in [Arg -> Nat] /\ arg \in Arg
      /\ page \in Page /\ Target(arg) \in Arg /\ TypeOK /\ Answering
  BY TargetIsArg DEF IInv, TypeOK, Op
<1>1. /\ UNCHANGED <<where, page, flt, slot, shown, newest, doubt, writes>>
      /\ acked' = [acked EXCEPT ![Target(o.arg)] = IF o.nth > @ THEN o.nth ELSE @]
  BY DEF Answered, shellVars
<1>2. /\ o.op \in Offers(page) \cup {"registerFinish"}
      /\ o.nth <= writes[Target(o.arg)]
      /\ o.nth = 0 \/ slot \in Touches[o.op]
  BY DEF IInv, OpsKnown, ToldOfDone
<1>3. \A x \in Arg : acked'[x] <= writes'[x]
  <2>1. \A x \in Arg : acked[x] <= writes[x]
    BY DEF IInv, ToldOfDone
  <2> QED
    BY <1>0, <1>1, <1>2, <2>1
<1>4. ASSUME Touches[o.op] = {} PROVE acked' = acked
  <2>1. o.nth = 0
    BY <1>2, <1>4
  <2>2. ~(o.nth > acked[Target(o.arg)])
    BY <1>0, <2>1
  <2> QED
    BY <1>0, <1>1, <2>2
<1>5. ASSUME ops' = ops \ {o} PROVE OpsKnown' /\ ToldOfDone'
  BY <1>1, <1>3, <1>5 DEF IInv, OpsKnown, ToldOfDone, Target
<1>6. CASE Report(o)
  <2>1. arg' = arg /\ Refresh(o.arg, 0) /\ OpsKnown' /\ ToldOfDone'
    BY <1>5, <1>6 DEF Report
  <2>2. page # "audit"
    BY <1>2, <1>6, OfferTables DEF Report
  <2>3. CASE slot \in Loads[page]
    <3>1. slot \notin {"entries", "actors"}
      BY <1>0, <2>2, <2>3, SlotTables
    <3>2. (slot \in PerArg /\ o.arg = arg') \/ slot \notin PerArg => Current(o.arg, 0)'
      BY <1>1, <3>1 DEF Current
    <3> QED
      BY <1>0, <1>1, <2>1, <2>3, <3>1, <3>2, RefreshAnswers
  <2>4. CASE slot \notin Loads[page]
    BY <1>1, <2>1, <2>4, NotFollowed DEF Followed
  <2> QED
    BY <2>3, <2>4
<1>7. CASE UserCreated(o)
  <2>1. page = "users"
    BY <1>0, <1>2, <1>7, OfferTables DEF UserCreated
  <2>2. arg' = 0 /\ OpsKnown' /\ ToldOfDone'
    BY <1>5, <1>7 DEF UserCreated
  <2>3. CASE slot = "users"
    <3>1. PICK times \in {1, 2} : Ask(times, 0, 0, FALSE)
      BY <1>7, <2>3 DEF UserCreated
    <3>2. Followed /\ Numbered
      BY <1>0, <2>1, <2>3, SlotTables DEF Followed, Answering
    <3>3. Current(0, 0)'
      BY <1>1, <2>2, <2>3 DEF Current
    <3>4. Answering'
      BY <1>0, <1>1, <3>1, <3>2, <3>3, ZeroIsArg, AskAnswers
    <3> QED
      BY <2>2, <3>4
  <2>4. CASE slot # "users"
    BY <1>1, <2>1, <2>2, <2>4, NotFollowed, SlotTables DEF Followed
  <2> QED
    BY <2>3, <2>4
<1>8. CASE OwnAccount(o)
  <2>1. Touches[o.op] = {} /\ Touches["registerFinish"] = {} /\ o.nth = 0
    BY <1>2, <1>8, OfferTables DEF OwnAccount
  <2>2. acked' = acked
    BY <1>4, <2>1
  <2>3. UNCHANGED <<arg, loads, due>>
    BY <1>8 DEF OwnAccount
  <2>4. Answering'
    BY <1>0, <1>1, <2>2, <2>3, KeepAnswers
  <2> DEFINE o2 == [o EXCEPT !.op = "registerFinish", !.stage = "sent"]
  <2>5. o2.op = "registerFinish" /\ o2.nth = o.nth /\ o2.arg = o.arg
    BY <1>0 DEF Op
  <2>6. CASE ops' = (ops \ {o}) \cup {o2}
    <3> HIDE DEF o2
    <3>1. OpsKnown'
      BY <1>1, <2>5, <2>6 DEF IInv, OpsKnown
    <3>2. ToldOfDone'
      BY <1>1, <1>2, <1>3, <2>1, <2>5, <2>6 DEF IInv, ToldOfDone, Target
    <3> QED
      BY <2>4, <3>1, <3>2
  <2>7. CASE ops' = ops \ {o}
    BY <1>5, <2>4, <2>7
  <2> QED
    BY <1>8, <2>6, <2>7 DEF OwnAccount
<1> QED
  BY <1>6, <1>7, <1>8 DEF Answered

LEMMA OperationsAnswers ==
  IInv /\ Operations => (OpsKnown /\ ToldOfDone /\ Answering)'
<1>1. ASSUME IInv, NEW o \in ops, Answered(o), where # "app"
      PROVE  (OpsKnown /\ ToldOfDone /\ Answering)'
  BY <1>1, Elsewhere DEF Answered, shellVars
<1> QED
  BY <1>1, PressAnswers, ServeAnswers, FailedAnswers, AnsweredAnswers DEF Operations

-----------------------------------------------------------------------------
(* The theorems.                                                           *)

LEMMA IInvInit == Init => IInv
<1> SUFFICES ASSUME Init PROVE IInv
  OBVIOUS
<1>1. where # "app"
  BY DEF Init
<1> QED
  BY <1>1, TypeInit
  DEF IInv, OpsKnown, ToldOfDone, Answering, Numbered, LastAsked, LastShown, Followed

LEMMA IInvNext == IInv /\ [Next]_vars => IInv'
<1> SUFFICES ASSUME IInv, [Next]_vars PROVE IInv'
  OBVIOUS
<1>1. TypeOK'
  BY TypeNext DEF IInv
<1>2. CASE UserArrives
  <2>1. UNCHANGED <<where, page, slot, opVars, loads, due, newest, shown, doubt, arg, flt>>
    BY <1>2 DEF UserArrives, shellVars, slotVars
  <2> QED
    BY <1>1, <2>1, OpsKept, KeepAnswers DEF IInv, opVars
<1>3. CASE UNCHANGED vars
  <2>1. UNCHANGED <<where, page, slot, opVars, loads, due, newest, shown, doubt, arg, flt>>
    BY <1>3 DEF vars, shellVars, slotVars, placeVars
  <2> QED
    BY <1>1, <2>1, OpsKept, KeepAnswers DEF IInv, opVars
<1> QED
  BY <1>1, <1>2, <1>3, ShellAnswers, MovesAnswers, AnswersAnswers, OperationsAnswers
  DEF Next, IInv

\* Once its answers are in, what a page shows is of the id, offset, range and
\* filter it is at, unless an answer was lost, overtaken or of another address.
THEOREM PageShowsItsAddress == Spec => []ShowsWhatItActsOn
<1>1. IInv => ShowsWhatItActsOn
  BY DEF IInv, TypeOK, Answering, Numbered, LastShown, Followed, Calm, Current,
         ShowsWhatItActsOn
<1> QED
  BY <1>1, IInvInit, IInvNext, PTL DEF Spec

\* Under the same conditions it shows every operation it was told succeeded.
THEOREM PageShowsItsOperations == Spec => []ReadsOwnWrites
<1>1. IInv => ReadsOwnWrites
  BY DEF IInv, TypeOK, Answering, Numbered, LastShown, Followed, Calm, ReadsOwnWrites
<1> QED
  BY <1>1, IInvInit, IInvNext, PTL DEF Spec
=============================================================================
