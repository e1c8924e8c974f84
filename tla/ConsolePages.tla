---------------------------- MODULE ConsolePages ----------------------------
(***************************************************************************)
(* web/app and web/components: what each page of the administration        *)
(* console asks the server for, what it shows, and which calls its buttons *)
(* and forms make, under which permission.  One operator per page says     *)
(* which answers fill it (its slots), one which panels it is made of.      *)
(*                                                                         *)
(* A slot is a piece of component state that a GET fills.  An operation is *)
(* a call that changes something.  Both are named as in lib/api.ts, or as  *)
(* what they show where two pages ask for the same list.                   *)
(***************************************************************************)
EXTENDS Naturals

Need(resource, action) == [res |-> resource, act |-> action]
Anyone == Need("", "")           \* any signed-in user

\* "users/*" also covers "users": resources of the routes have no slash, so a
\* prefix grant counts as one of the resource itself.
hasPermission(permissions, need) ==
    \E p \in permissions : p.act = need.act /\ p.res \in {need.res, "*"}

useCan(permissions, need) == need = Anyone \/ hasPermission(permissions, need)

\* A panel: the slots it shows, the operations it offers, who it offers them to.
Panel(shows, offers, gate) == [shows |-> shows, offers |-> offers, gate |-> gate]

-----------------------------------------------------------------------------
(* The pages.                                                              *)

DashboardLoads == {"counts"}
DashboardPanels == {Panel({"counts"}, {}, Anyone)}

UsersLoads == {"users"}
UsersPanels ==
    {Panel({}, {"createUser"}, Need("users", "manage")),
     Panel({"users"}, {}, Anyone)}

UserDetailLoads == {"user", "userRoles", "roles", "credentials"}

\* Seeded fault: the buttons of the profile are shown to whoever may look.
FaultyProfilePanel ==
    Panel({"user"}, {"updateUser", "resetPassword", "offboardUser", "removeUser"}, Anyone)

ProfilePanel ==
    Panel({"user"}, {"updateUser", "resetPassword", "offboardUser", "removeUser"},
          Need("users", "manage"))

UserRolesPanel ==
    Panel({"userRoles", "roles"}, {"assignRoleToUser", "removeRoleFromUser"},
          Need("rbac", "manage"))

CredentialsPanel ==
    Panel({"credentials"}, {"addCredential", "removeCredential"}, Need("users", "manage"))

RolesLoads == {"roles", "permissions", "groups"}
RolesPanel == Panel({"roles"}, {"createRole", "deleteRole"}, Anyone)
PermissionsPanel == Panel({"permissions"}, {"createPermission"}, Anyone)
GroupsPanel == Panel({"groups"}, {"createGroup"}, Anyone)

RoleDetailLoads == {"role", "rolePermissions", "permissions"}
RoleDetailPanels ==
    {Panel({"role"}, {}, Anyone),
     Panel({"rolePermissions", "permissions"}, {"grantPermission", "revokePermission"}, Anyone)}

ApiClientsLoads == {"clients"}
NewClientPanel == Panel({}, {"createClient"}, Anyone)
ClientsPanel == Panel({"clients"}, {"removeClient"}, Anyone)

IotLoads == {"devices", "events"}
RegisterDevicePanel == Panel({}, {"createDevice"}, Need("iot", "manage"))
DevicesPanel == Panel({"devices"}, {}, Anyone)
EventsPanel == Panel({"events"}, {}, Anyone)

UsageLoads == {"snapshots"}
UsagePanels == {Panel({"snapshots"}, {}, Anyone)}

AuditLoads == {"actors", "entries"}
FilterPanel == Panel({"actors"}, {}, Anyone)
EntriesPanel == Panel({"entries"}, {}, Anyone)

SettingsLoads == {"settings"}
SettingsPanels == {Panel({"settings"}, {}, Anyone)}

AvatarPanel == Panel({}, {"uploadAvatar"}, Anyone)
TotpPanel == Panel({}, {"mfaEnroll", "mfaConfirm", "mfaDisable"}, Anyone)
SecurityKeysPanel == Panel({}, {"registerBegin"}, Anyone)

\* The bell of the top bar is there on every page.
BellPanel == Panel({}, {"announce"}, Need("announcements", "manage"))

-----------------------------------------------------------------------------
(* All of them.                                                            *)

Page == {"dashboard", "users", "userDetail", "roles", "roleDetail", "apiClients",
         "iot", "usage", "audit", "settings", "account"}

\* The links of the top bar; the two detail pages are linked from the rows of
\* their list, which its reader was served.
NAV == [p \in Page |->
    CASE p \in {"users", "userDetail"} -> Need("users", "read")
      [] p \in {"roles", "roleDetail"} -> Need("rbac", "manage")
      [] p = "apiClients" -> Need("api_clients", "manage")
      [] p = "iot" -> Need("iot", "read")
      [] p = "usage" -> Need("metrics", "read")
      [] p = "audit" -> Need("audit", "read")
      [] p = "settings" -> Need("settings", "read")
      [] OTHER -> Anyone]

Loads == [p \in Page |->
    CASE p = "dashboard" -> DashboardLoads
      [] p = "users" -> UsersLoads
      [] p = "userDetail" -> UserDetailLoads
      [] p = "roles" -> RolesLoads
      [] p = "roleDetail" -> RoleDetailLoads
      [] p = "apiClients" -> ApiClientsLoads
      [] p = "iot" -> IotLoads
      [] p = "usage" -> UsageLoads
      [] p = "audit" -> AuditLoads
      [] p = "settings" -> SettingsLoads
      [] OTHER -> {}]

Panels == [p \in Page |-> {BellPanel} \cup
    CASE p = "dashboard" -> DashboardPanels
      [] p = "users" -> UsersPanels
      [] p = "userDetail" -> {ProfilePanel, UserRolesPanel, CredentialsPanel}
      [] p = "roles" -> {RolesPanel, PermissionsPanel, GroupsPanel}
      [] p = "roleDetail" -> RoleDetailPanels
      [] p = "apiClients" -> {NewClientPanel, ClientsPanel}
      [] p = "iot" -> {RegisterDevicePanel, DevicesPanel, EventsPanel}
      [] p = "usage" -> UsagePanels
      [] p = "audit" -> {FilterPanel, EntriesPanel}
      [] p = "settings" -> SettingsPanels
      [] OTHER -> {AvatarPanel, TotpPanel, SecurityKeysPanel}]

Slot == UNION {Loads[p] : p \in Page}

Offers(p) == UNION {q.offers : q \in Panels[p]}

Operation == (UNION {Offers(p) : p \in Page}) \cup {"registerFinish"}

-----------------------------------------------------------------------------
(* What the server asks of the caller, per call (router.go), and which     *)
(* slots of the page that makes the call it changes the contents of.       *)

ReadRoute == [s \in Slot |->
    CASE s \in {"users", "user", "credentials", "actors"} -> {Need("users", "read")}
      [] s \in {"userRoles", "roles", "permissions", "groups", "role", "rolePermissions"}
            -> {Need("rbac", "manage")}
      [] s = "clients" -> {Need("api_clients", "manage")}
      [] s = "devices" -> {Need("iot", "manage")}
      \* both groups of /iot check a request for its events
      [] s = "events" -> {Need("iot", "manage"), Need("iot", "read")}
      [] s = "snapshots" -> {Need("metrics", "read")}
      [] s = "entries" -> {Need("audit", "read")}
      [] s = "settings" -> {Need("settings", "read")}
      \* Promise.all: one refusal refuses the four
      [] s = "counts" -> {Need("users", "read"), Need("rbac", "manage"),
                          Need("api_clients", "manage"), Need("iot", "manage")}]

Route == [op \in Operation |->
    CASE op \in {"createUser", "updateUser", "resetPassword", "offboardUser", "removeUser",
                 "addCredential", "removeCredential"} -> Need("users", "manage")
      [] op \in {"assignRoleToUser", "removeRoleFromUser", "createRole", "deleteRole",
                 "createPermission", "createGroup", "grantPermission", "revokePermission"}
            -> Need("rbac", "manage")
      [] op \in {"createClient", "removeClient"} -> Need("api_clients", "manage")
      [] op = "createDevice" -> Need("iot", "manage")
      [] op = "announce" -> Need("announcements", "manage")
      [] OTHER -> Anyone]

Touches == [op \in Operation |->
    CASE op = "createUser" -> {"users"}
      [] op \in {"updateUser", "resetPassword", "offboardUser"} -> {"user"}
      [] op = "removeUser" -> {"user", "userRoles", "credentials"}
      [] op \in {"assignRoleToUser", "removeRoleFromUser"} -> {"userRoles"}
      [] op \in {"addCredential", "removeCredential"} -> {"credentials"}
      [] op \in {"createRole", "deleteRole"} -> {"roles"}
      [] op = "createPermission" -> {"permissions"}
      [] op = "createGroup" -> {"groups"}
      [] op \in {"grantPermission", "revokePermission"} -> {"rolePermissions"}
      [] op \in {"createClient", "removeClient"} -> {"clients"}
      [] op = "createDevice" -> {"devices"}
      [] OTHER -> {}]

\* Slots whose GET names the id of the address, the offset, the range or the
\* filter the page is at; and those among them that are about one id.
PerId == {"user", "userRoles", "credentials", "role", "rolePermissions"}
PerArg == PerId \cup {"users", "events", "snapshots", "entries"}
=============================================================================
