------------------------------ MODULE RbacCache ------------------------------
(***************************************************************************)
(* internal/rbac: the tables behind a permission check, the admin writes   *)
(* on them, and Resolve's read-through cache of effective permissions.     *)
(*                                                                         *)
(* A resolution is a chain of separate queries, outside any transaction,   *)
(* that ends in a cache.Set; an admin write is one statement followed by   *)
(* an invalidation.  Both run on their own request goroutine, so each      *)
(* query, statement and cache call is a step of its own here.              *)
(*                                                                         *)
(* Users share the role, group and permission tables, never a cache entry. *)
(***************************************************************************)
EXTENDS GroupHierarchy, FiniteSets

CONSTANTS
    User, Role, Permission,   \* ids of rows
    Request,                  \* goroutines inside Resolve
    AdminRequest,             \* goroutines inside an Admin method
    CacheMayFail              \* can a call to the cache return an error

ASSUME FlagAssumption == CacheMayFail \in BOOLEAN

VARIABLES
    ForeignKeys,   \* does the database enforce its foreign keys
    users, roles, permissions, groups,   \* rows present, by id
    minted,        \* role ids ever inserted: uuid.NewString never repeats one
    parent,        \* groups.parent_group_id
    userGroups,    \* user_groups
    userRoles,     \* user_roles
    groupRoles,    \* group_roles
    rolePerms,     \* role_permissions
    cache,         \* "rbac:user:"+id -> {} or {the entry}
    pc,            \* next query of each request
    job,           \* what each request has read so far
    todo,          \* keys an admin request has yet to delete
    \* History, read by the properties only:
    doubt,         \* requests overlapped by a write that concerns their user
    suspect        \* users whose entry came from such a request, or outlived
                   \* a failed invalidation

tables == <<ForeignKeys, users, roles, permissions, groups, minted, parent,
            userGroups, userRoles, groupRoles, rolePerms>>
vars == <<tables, cache, pc, job, todo, doubt, suspect>>

Resolved == [names : SUBSET Role, perms : SUBSET Permission]
NoJob    == [user |-> {}, groups |-> {}, roles |-> {}, names |-> {}, perms |-> {}]

Step == {"idle", "userGroups", "parents", "userRoles", "groupRoles",
         "names", "perms", "set", "done"}

-----------------------------------------------------------------------------
(* What the tables say, in one consistent read.                            *)

RolesOf(u) ==
    userRoles[u] \cup UNION {groupRoles[g] : g \in Ancestors(parent, userGroups[u])}

NamesOf(rs) == rs \cap roles

PermsOf(rs) == {p \in permissions : \E r \in rs : p \in rolePerms[r]}

Effective(u) == [names |-> NamesOf(RolesOf(u)), perms |-> PermsOf(RolesOf(u))]

-----------------------------------------------------------------------------
(* Resolve.                                                                *)

Answered(q) == [names |-> job[q].names, perms |-> job[q].perms]

Pending(u) == \E a \in AdminRequest : u \in todo[a]

\* A request for u finds an entry and returns it.
Hit(q, u) ==
    /\ pc[q] = "idle"
    /\ \E e \in cache[u] :
          job' = [job EXCEPT ![q] = [NoJob EXCEPT !.user = {u}, !.names = e.names,
                                                  !.perms = e.perms]]
    /\ pc' = [pc EXCEPT ![q] = "done"]
    /\ doubt' = IF u \in suspect \/ Pending(u) THEN doubt \cup {q} ELSE doubt \ {q}
    /\ UNCHANGED <<tables, cache, todo, suspect>>

\* It finds none, or the cache answers with an error, which counts as a miss.
Lookup(q, u) ==
    /\ pc[q] = "idle"
    /\ cache[u] = {} \/ CacheMayFail
    /\ job' = [job EXCEPT ![q] = [NoJob EXCEPT !.user = {u}]]
    /\ pc' = [pc EXCEPT ![q] = "userGroups"]
    /\ doubt' = doubt \ {q}
    /\ UNCHANGED <<tables, cache, todo, suspect>>

ReadUserGroups(q) ==
    /\ pc[q] = "userGroups"
    /\ \E u \in job[q].user :
          /\ job' = [job EXCEPT ![q].groups = userGroups[u]]
          /\ pc' = [pc EXCEPT ![q] = IF userGroups[u] = {} THEN "userRoles"
                                                           ELSE "parents"]
    /\ UNCHANGED <<tables, cache, todo, doubt, suspect>>

ExpandAncestorGroups(q) ==
    /\ pc[q] = "parents"
    /\ \E rows \in SetToSeqs(job[q].groups) :
          job' = [job EXCEPT ![q].groups = expandAncestorGroups(parent, rows)]
    /\ pc' = [pc EXCEPT ![q] = "userRoles"]
    /\ UNCHANGED <<tables, cache, todo, doubt, suspect>>

\* With no role left to look up, the last two queries are skipped.
AfterRoles(rs) == IF rs = {} THEN "set" ELSE "names"

ReadUserRoles(q) ==
    /\ pc[q] = "userRoles"
    /\ \E u \in job[q].user :
          /\ job' = [job EXCEPT ![q].roles = userRoles[u]]
          /\ pc' = [pc EXCEPT ![q] = IF job[q].groups = {} THEN AfterRoles(userRoles[u])
                                                           ELSE "groupRoles"]
    /\ UNCHANGED <<tables, cache, todo, doubt, suspect>>

\* Seeded fault: the query selects group_id where it should select role_id.
WrongColumnGroupRoles(q) ==
    /\ pc[q] = "groupRoles"
    /\ job' = [job EXCEPT ![q].roles = @ \cup job[q].groups]
    /\ pc' = [pc EXCEPT ![q] = "names"]
    /\ UNCHANGED <<tables, cache, todo, doubt, suspect>>

ReadGroupRoles(q) ==
    LET rs == job[q].roles \cup UNION {groupRoles[g] : g \in job[q].groups} IN
    /\ pc[q] = "groupRoles"
    /\ job' = [job EXCEPT ![q].roles = rs]
    /\ pc' = [pc EXCEPT ![q] = AfterRoles(rs)]
    /\ UNCHANGED <<tables, cache, todo, doubt, suspect>>

ReadRoleNames(q) ==
    /\ pc[q] = "names"
    /\ job' = [job EXCEPT ![q].names = NamesOf(job[q].roles)]
    /\ pc' = [pc EXCEPT ![q] = "perms"]
    /\ UNCHANGED <<tables, cache, todo, doubt, suspect>>

ReadPermissions(q) ==
    /\ pc[q] = "perms"
    /\ job' = [job EXCEPT ![q].perms = PermsOf(job[q].roles)]
    /\ pc' = [pc EXCEPT ![q] = "set"]
    /\ UNCHANGED <<tables, cache, todo, doubt, suspect>>

\* cache.Set, its error ignored; then the answer is returned.
Fill(q) ==
    /\ pc[q] = "set"
    /\ pc' = [pc EXCEPT ![q] = "done"]
    /\ \E u \in job[q].user :
          \/ /\ cache' = [cache EXCEPT ![u] = {Answered(q)}]
             /\ suspect' = IF q \in doubt THEN suspect \cup {u} ELSE suspect \ {u}
          \/ CacheMayFail /\ UNCHANGED <<cache, suspect>>
    /\ UNCHANGED <<tables, job, todo, doubt>>

\* The caller has used the answer.
Return(q) ==
    /\ pc[q] = "done"
    /\ pc' = [pc EXCEPT ![q] = "idle"]
    /\ job' = [job EXCEPT ![q] = NoJob]
    /\ doubt' = doubt \ {q}
    /\ UNCHANGED <<tables, cache, todo, suspect>>

\* A query fails: Resolve returns the error and caches nothing.
QueryFails(q) ==
    /\ pc[q] \in Step \ {"idle", "set", "done"}
    /\ pc' = [pc EXCEPT ![q] = "idle"]
    /\ job' = [job EXCEPT ![q] = NoJob]
    /\ doubt' = doubt \ {q}
    /\ UNCHANGED <<tables, cache, todo, suspect>>

\* Seeded fault: entries are stored without a TTL.
NeverExpire(u) == FALSE /\ UNCHANGED vars

\* The entry of u reaches its TTL.
Expire(u) ==
    /\ cache[u] # {}
    /\ cache' = [cache EXCEPT ![u] = {}]
    /\ suspect' = suspect \ {u}
    /\ UNCHANGED <<tables, pc, job, todo, doubt>>

-----------------------------------------------------------------------------
(* Admin writes.  A statement that fails changes nothing and is not        *)
(* followed by an invalidation: it is a stuttering step.                   *)

\* Request a has committed its statement and goes on to delete the keys of scope.
Invalidates(a, scope) ==
    /\ todo[a] = {}
    /\ todo' = [todo EXCEPT ![a] = scope]
    /\ doubt' = doubt \cup {q \in Request : job[q].user \cap scope # {}}
    /\ UNCHANGED <<cache, pc, job, suspect>>

InvalidateUser(a, u) == Invalidates(a, {u})
InvalidateAll(a)     == Invalidates(a, User)

NoInvalidation(a) == todo[a] = {} /\ UNCHANGED <<cache, pc, job, todo, doubt, suspect>>

CreateRole(a, r) ==
    /\ r \notin minted
    /\ roles' = roles \cup {r}
    /\ minted' = minted \cup {r}
    /\ UNCHANGED <<ForeignKeys, users, permissions, groups, parent, userGroups, userRoles,
                   groupRoles, rolePerms>>
    /\ NoInvalidation(a)

CreatePermission(a, p) ==
    /\ p \notin permissions
    /\ permissions' = permissions \cup {p}
    /\ UNCHANGED <<ForeignKeys, users, roles, minted, groups, parent, userGroups, userRoles,
                   groupRoles, rolePerms>>
    /\ NoInvalidation(a)

CreateGroup(a, g, up) ==
    /\ g \notin groups
    /\ up \in groups \cup {NoGroup}
    /\ groups' = groups \cup {g}
    /\ parent' = [parent EXCEPT ![g] = up]
    /\ UNCHANGED <<ForeignKeys, users, roles, minted, permissions, userGroups, userRoles,
                   groupRoles, rolePerms>>
    /\ NoInvalidation(a)

\* ON DELETE CASCADE removes the rows that mention r, where it is executed.
DeleteRole(a, r) ==
    /\ r \in roles
    /\ roles' = roles \ {r}
    /\ IF ForeignKeys
       THEN /\ userRoles' = [u \in User |-> userRoles[u] \ {r}]
            /\ groupRoles' = [g \in Group |-> groupRoles[g] \ {r}]
            /\ rolePerms' = [rolePerms EXCEPT ![r] = {}]
       ELSE UNCHANGED <<userRoles, groupRoles, rolePerms>>
    /\ UNCHANGED <<ForeignKeys, users, minted, permissions, groups, parent, userGroups>>
    /\ InvalidateAll(a)

\* users.Delete, then Resolver.Invalidate, in handleDeleteUser.
DeleteUser(a, u) ==
    /\ u \in users
    /\ users' = users \ {u}
    /\ IF ForeignKeys
       THEN /\ userRoles' = [userRoles EXCEPT ![u] = {}]
            /\ userGroups' = [userGroups EXCEPT ![u] = {}]
       ELSE UNCHANGED <<userRoles, userGroups>>
    /\ UNCHANGED <<ForeignKeys, roles, minted, permissions, groups, parent, groupRoles, rolePerms>>
    /\ InvalidateUser(a, u)

\* The ids a caller can send: rows a foreign key accepts, or any id seen before.
RoleIds == IF ForeignKeys THEN roles ELSE minted
UserIds == IF ForeignKeys THEN users ELSE User

GrantPermissionToRole(a, r, p) ==
    /\ r \in RoleIds /\ p \in permissions /\ p \notin rolePerms[r]
    /\ rolePerms' = [rolePerms EXCEPT ![r] = @ \cup {p}]
    /\ UNCHANGED <<ForeignKeys, users, roles, minted, permissions, groups, parent, userGroups,
                   userRoles, groupRoles>>
    /\ InvalidateAll(a)

RevokePermissionFromRole(a, r, p) ==
    /\ rolePerms' = [rolePerms EXCEPT ![r] = @ \ {p}]
    /\ UNCHANGED <<ForeignKeys, users, roles, minted, permissions, groups, parent, userGroups,
                   userRoles, groupRoles>>
    /\ InvalidateAll(a)

AssignRoleToUser(a, u, r) ==
    /\ u \in UserIds /\ r \in RoleIds /\ r \notin userRoles[u]
    /\ userRoles' = [userRoles EXCEPT ![u] = @ \cup {r}]
    /\ UNCHANGED <<ForeignKeys, users, roles, minted, permissions, groups, parent, userGroups,
                   groupRoles, rolePerms>>
    /\ InvalidateUser(a, u)

RemoveRoleFromUser(a, u, r) ==
    /\ userRoles' = [userRoles EXCEPT ![u] = @ \ {r}]
    /\ UNCHANGED <<ForeignKeys, users, roles, minted, permissions, groups, parent, userGroups,
                   groupRoles, rolePerms>>
    /\ InvalidateUser(a, u)

AssignRoleToGroup(a, g, r) ==
    /\ g \in groups /\ r \in RoleIds /\ r \notin groupRoles[g]
    /\ groupRoles' = [groupRoles EXCEPT ![g] = @ \cup {r}]
    /\ UNCHANGED <<ForeignKeys, users, roles, minted, permissions, groups, parent, userGroups,
                   userRoles, rolePerms>>
    /\ InvalidateAll(a)

\* Seeded fault: only the users directly in the group are invalidated, not
\* those of its descendants.
FaultyRemoveRoleFromGroup(a, g, r) ==
    /\ groupRoles' = [groupRoles EXCEPT ![g] = @ \ {r}]
    /\ UNCHANGED <<ForeignKeys, users, roles, minted, permissions, groups, parent, userGroups,
                   userRoles, rolePerms>>
    /\ Invalidates(a, {u \in User : g \in userGroups[u]})

RemoveRoleFromGroup(a, g, r) ==
    /\ groupRoles' = [groupRoles EXCEPT ![g] = @ \ {r}]
    /\ UNCHANGED <<ForeignKeys, users, roles, minted, permissions, groups, parent, userGroups,
                   userRoles, rolePerms>>
    /\ InvalidateAll(a)

AddUserToGroup(a, u, g) ==
    /\ u \in UserIds /\ g \in groups /\ g \notin userGroups[u]
    /\ userGroups' = [userGroups EXCEPT ![u] = @ \cup {g}]
    /\ UNCHANGED <<ForeignKeys, users, roles, minted, permissions, groups, parent, userRoles,
                   groupRoles, rolePerms>>
    /\ InvalidateUser(a, u)

RemoveUserFromGroup(a, u, g) ==
    /\ userGroups' = [userGroups EXCEPT ![u] = @ \ {g}]
    /\ UNCHANGED <<ForeignKeys, users, roles, minted, permissions, groups, parent, userRoles,
                   groupRoles, rolePerms>>
    /\ InvalidateUser(a, u)

\* cache.Delete of one key, or the next keys of a DeletePrefix: the memory cache
\* drops all of them under one lock, Redis each at some point of its SCAN.
DeleteKeys(a, keys) ==
    /\ keys # {} /\ keys \subseteq todo[a]
    /\ cache' = [u \in User |-> IF u \in keys THEN {} ELSE cache[u]]
    /\ todo' = [todo EXCEPT ![a] = @ \ keys]
    /\ suspect' = suspect \ keys
    /\ UNCHANGED <<tables, pc, job, doubt>>

\* The cache returns an error: the admin call fails, its write stays.
InvalidationFails(a) ==
    /\ CacheMayFail /\ todo[a] # {}
    /\ todo' = [todo EXCEPT ![a] = {}]
    /\ suspect' = suspect \cup todo[a]
    /\ UNCHANGED <<tables, cache, pc, job, doubt>>

-----------------------------------------------------------------------------
\* A migrated database with accounts and nothing granted yet.
Init ==
    /\ ForeignKeys \in BOOLEAN
    /\ users = User /\ roles = {} /\ permissions = {} /\ groups = {} /\ minted = {}
    /\ parent = [g \in Group |-> NoGroup]
    /\ userGroups = [u \in User |-> {}]
    /\ userRoles = [u \in User |-> {}]
    /\ groupRoles = [g \in Group |-> {}]
    /\ rolePerms = [r \in Role |-> {}]
    /\ cache = [u \in User |-> {}]
    /\ pc = [q \in Request |-> "idle"]
    /\ job = [q \in Request |-> NoJob]
    /\ todo = [a \in AdminRequest |-> {}]
    /\ doubt = {}
    /\ suspect = {}

\* What a request does once it is under way, on its own.
Proceed(q) ==
    \/ ReadUserGroups(q) \/ ExpandAncestorGroups(q) \/ ReadUserRoles(q)
    \/ ReadGroupRoles(q) \/ ReadRoleNames(q) \/ ReadPermissions(q)
    \/ Fill(q) \/ Return(q)

Resolve(q) ==
    \/ \E u \in User : Hit(q, u) \/ Lookup(q, u)
    \/ Proceed(q)
    \/ QueryFails(q)

AdminCall(a) ==
    \/ \E r \in Role : CreateRole(a, r) \/ DeleteRole(a, r)
    \/ \E p \in Permission : CreatePermission(a, p)
    \/ \E g \in Group, up \in Group \cup {NoGroup} : CreateGroup(a, g, up)
    \/ \E u \in User : DeleteUser(a, u)
    \/ \E r \in Role, p \in Permission :
          GrantPermissionToRole(a, r, p) \/ RevokePermissionFromRole(a, r, p)
    \/ \E u \in User, r \in Role : AssignRoleToUser(a, u, r) \/ RemoveRoleFromUser(a, u, r)
    \/ \E g \in Group, r \in Role : AssignRoleToGroup(a, g, r) \/ RemoveRoleFromGroup(a, g, r)
    \/ \E u \in User, g \in Group : AddUserToGroup(a, u, g) \/ RemoveUserFromGroup(a, u, g)

Invalidate(a) == \E keys \in SUBSET User : DeleteKeys(a, keys)

Next ==
    \/ \E q \in Request : Resolve(q)
    \/ \E a \in AdminRequest : AdminCall(a) \/ Invalidate(a) \/ InvalidationFails(a)
    \/ \E u \in User : Expire(u)

Spec == Init /\ [][Next]_vars

\* An entry left alone reaches its TTL. No request or invalidation need make
\* progress for what is claimed below.
Fairness == \A u \in User : WF_vars(Expire(u))

FairSpec == Spec /\ Fairness

-----------------------------------------------------------------------------
\* The tables hold rows of the right kinds, an entry is one resolution, and
\* todo names users.
TypeOK ==
    /\ users \subseteq User /\ roles \subseteq minted /\ minted \subseteq Role
    /\ permissions \subseteq Permission /\ groups \subseteq Group
    /\ ForeignKeys \in BOOLEAN
    /\ parent \in ParentMap
    /\ userGroups \in [User -> SUBSET Group]
    /\ userRoles \in [User -> SUBSET Role]
    /\ groupRoles \in [Group -> SUBSET Role]
    /\ rolePerms \in [Role -> SUBSET Permission]
    /\ cache \in [User -> SUBSET Resolved]
    /\ pc \in [Request -> Step]
    /\ job \in [Request -> [user : SUBSET User, groups : SUBSET Group,
                            roles : SUBSET Role, names : SUBSET Role,
                            perms : SUBSET Permission]]
    /\ todo \in [AdminRequest -> SUBSET User]
    /\ doubt \subseteq Request
    /\ suspect \subseteq User

EntryFresh ==
    \A u \in User : ~Pending(u) /\ u \notin suspect =>
        \A e \in cache[u] : e = Effective(u)

AnswerFresh ==
    \A q \in Request : pc[q] = "done" /\ q \notin doubt =>
        \A u \in job[q].user : Answered(q) = Effective(u)

\* An entry differs from the tables only while an admin request is about to
\* delete it, or because a resolution that overlapped a write (or a failed
\* invalidation) left it: every write invalidates every user it concerns, those
\* of descendant groups too, and the writes that invalidate nobody concern
\* nobody. An answer given without any overlapping write is what one consistent
\* read of the tables gives, though it was put together from up to six queries
\* (admin.go; Resolver.Resolve and resolveFromDB in resolve.go).
Fresh == EntryFresh /\ AnswerFresh

\* With admin requests gone, stale entries do not outlive their TTL: from some
\* point on the cache agrees with the tables.
CacheConverges ==
    <>[](\A a \in AdminRequest : todo[a] = {})
        => <>[](\A u \in User : \A e \in cache[u] : e = Effective(u))
=============================================================================
