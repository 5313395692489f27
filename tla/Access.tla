------------------------------- MODULE Access -------------------------------
(***************************************************************************)
(* Access control: role templates, access assignments, permission          *)
(* overrides (modules/access-control), the identity part of provisioning   *)
(* (modules/users/org-user-lifecycle.service.ts), organisations and their  *)
(* administrators (modules/platform/platform-orgs.service.ts), buildings,  *)
(* and the guards of common/guards that decide who may call which route.   *)
(*                                                                         *)
(* A handler checks in one step, with the guard of its route, and writes   *)
(* in later ones.  Replacing a set of rows is a DELETE and an INSERT in    *)
(* one READ COMMITTED transaction: the DELETE sees the rows that are       *)
(* committed when it runs ("doomed"), and rows that another transaction    *)
(* inserts before this one commits are not among them.                     *)
(*                                                                         *)
(* Left out: names, descriptions, passwords, invitations (Accounts) and    *)
(* occupancies (Tenancy), which the guards see through a context record.   *)
(***************************************************************************)
EXTENDS Endpoints, Naturals, FiniteSets

CONSTANTS
    Handlers,                    \* concurrent API requests
    Orgs, Users, Buildings,      \* Users: people, by normalised email
    Root,                        \* the seeded platform superadmin
    Customs,                     \* ids of role templates created by customers
    CustomNames,                 \* their keys
    KeySets, OverrideSets,       \* permission keys and overrides that callers send
    RoleScopes,                  \* scopes of the templates that callers create
    Handed,                      \* role templates that callers hand out
    PlatformKey,                 \* whether the environment sets PLATFORM_API_KEY
    MaxAssignments,              \* bound on the assignment rows
    NoId                         \* SQL NULL

ASSUME AccessAssumption ==
    /\ Root \in Users
    /\ PlatformKey \in BOOLEAN
    /\ NoId \notin Orgs \cup Users \cup Buildings \cup Customs \cup {"absent", "gone"}
    /\ Orgs \cap {"absent", "gone"} = {}
    /\ Customs \cap ((Orgs \X SystemTemplates) \cup {<<NoId, PlatformTemplate>>}) = {}
    /\ \A rows \in OverrideSets : \A r \in rows :
          r = <<r[1], r[2]>> /\ r[2] \in {"ALLOW", "DENY"}
    /\ RoleScopes \subseteq {"ORG", "BUILDING"}
    /\ Handed \subseteq (Orgs \X SystemTemplates) \cup Customs
    /\ CustomNames \cap (SystemTemplates \cup {PlatformTemplate}) = {}

VARIABLES
    orgs,         \* organisations that exist
    user,         \* user[u]: organisation of u, NoId for none, "absent" before the account exists
    building,     \* building[b]: organisation of b, NoId before the row exists, "gone" after
    custom,       \* custom[t]: row of a customer's role template
    assignment,   \* UserAccessAssignment rows
    override,     \* override[u]: UserPermission rows of u
    baseline,     \* history: u was provisioned as a resident and nobody replaced the overrides since
    job           \* job[h]: progress of API request h

vars == <<orgs, user, building, custom, assignment, override, baseline, job>>

Nullable(S) == S \cup {NoId}

\* A system template is named by its organisation and key: (orgId, key) is unique.
Systems == (Orgs \X SystemTemplates) \cup {<<NoId, PlatformTemplate>>}
Templates == Systems \cup Customs
Rows == Catalogue \X {"ALLOW", "DENY"}

CustomRow == [state: {"none", "live", "gone"}, org: Nullable(Orgs), name: Nullable(CustomNames),
              scope: {"ORG", "BUILDING"}, keys: SUBSET Catalogue]
Assignment == [user: Users, template: Templates, scope: {"ORG", "BUILDING"},
               building: Nullable(Buildings)]
Job == [pc: {"idle", "createRole", "permissions", "replaceRole", "deleteRole", "assign",
             "unassign", "setOverrides", "replaceOverrides", "orgAdmin"},
        user: Nullable(Users), template: Templates \cup {NoId}, org: Nullable(Orgs),
        building: Nullable(Buildings), name: Nullable(CustomNames), scope: {"ORG", "BUILDING"},
        keys: SUBSET Catalogue, rows: SUBSET Rows,
        doomed: SUBSET (Catalogue \cup Rows)]

\* Rows and request records have their types.
TypeOK ==
    /\ orgs \subseteq Orgs
    /\ user \in [Users -> Nullable(Orgs) \cup {"absent"}]
    /\ building \in [Buildings -> Nullable(Orgs) \cup {"gone"}]
    /\ custom \in [Customs -> CustomRow]
    /\ assignment \subseteq Assignment
    /\ override \in [Users -> SUBSET Rows]
    /\ baseline \in [Users -> BOOLEAN]
    /\ job \in [Handlers -> Job]

Idle == [pc |-> "idle", user |-> NoId, template |-> NoId, org |-> NoId, building |-> NoId,
         name |-> NoId, scope |-> "ORG", keys |-> {}, rows |-> {}, doomed |-> {}]

------------------------------------------------------------------------------
(* Role templates and effective permissions.                               *)

TemplateOrg(t) == IF t \in Customs THEN custom[t].org ELSE t[1]
TemplateScope(t) == IF t \in Customs THEN custom[t].scope ELSE SystemScope(t[2])
TemplateKeys(t) == IF t \in Customs THEN custom[t].keys ELSE SystemKeys(t[2])

\* The row exists: an organisation's system templates are created with it.
Live(t) == IF t \in Customs THEN custom[t].state = "live"
           ELSE t[1] = NoId \/ t[1] \in orgs

\* isVisibleRoleTemplate: customers' templates and the five system ones
Visible(t) == t \notin Customs => t[2] \in SystemTemplates

\* The WHERE clause of getUserScopedAccess; without a building only ORG rows count.
InScope(a, u, org, b) ==
    /\ a.user = u
    /\ TemplateOrg(a.template) = org
    /\ TemplateScope(a.template) = a.scope
    /\ \/ a.scope = "ORG" /\ a.building = NoId
       \/ a.scope = "BUILDING" /\ b # NoId /\ a.building = b

\* Overrides on top of the keys of the given assignments.
Overridden(keys, u) ==
    (keys \cup {k \in Catalogue : <<k, "ALLOW">> \in override[u]})
        \ {k \in Catalogue : <<k, "DENY">> \in override[u]}

\* getUserEffectivePermissions
Effective(u, org, b, hidden) ==
    Overridden(UNION {TemplateKeys(a.template) :
                        a \in {x \in assignment : InScope(x, u, org, b) /\ (hidden \/ Visible(x.template))}}, u)

\* getUserEffectivePermissionsAcrossAnyScope
EffectiveAnywhere(u, org) ==
    Overridden(UNION {TemplateKeys(a.template) :
                        a \in {x \in assignment : /\ x.user = u
                                                  /\ TemplateOrg(x.template) = org
                                                  /\ Visible(x.template)}}, u)

------------------------------------------------------------------------------
(* Guards.  A context tells which building the path names, which one the   *)
(* query, the body or the row behind the path gives, whether the caller    *)
(* lives there, and whether the request has the API key of the platform.   *)

\* BuildingScopeResolverService.resolveForRequest
ResolveBuilding(route, ctx) ==
    CASE route.scope = "path"                          -> ctx.path
      [] route.scope # "path" /\ ctx.hint # NoId       -> ctx.hint
      [] route.scope = "row" /\ ctx.hint = NoId        -> ctx.row
      [] OTHER                                         -> NoId

OrgScopeGuard(u) == user[u] \in Orgs

PermissionsGuard(u, route, ctx) ==
    \/ route.key = NoKey
    \/ HasPermissionMatch(Effective(u, user[u], ResolveBuilding(route, ctx), FALSE), route.key)
    \/ "any" \in route.guards /\ HasPermissionMatch(EffectiveAnywhere(u, user[u]), route.key)

\* BuildingAccessGuard and BuildingAccessService: the building must be the caller's
\* organisation's, and a route without a key is closed.
BuildingAccessGuard(u, route, ctx) ==
    /\ ctx.path # NoId /\ building[ctx.path] = user[u]
    /\ \/ route.key # NoKey /\ HasPermissionMatch(Effective(u, user[u], ctx.path, FALSE), route.key)
       \/ "resident" \in route.guards /\ ctx.occupied

\* The API key stands in for any user and permission.
PlatformAuthGuard(u, route, ctx) ==
    \/ PlatformKey /\ ctx.keyed
    \/ user[u] = NoId /\ route.key \in Effective(u, NoId, NoId, TRUE)

\* Whether the guards of the route let u through.
Allowed(u, route, ctx) ==
    /\ route.guards \ {"platform"} # {} => user[u] # "absent"
    /\ "org" \in route.guards => OrgScopeGuard(u)
    /\ "perm" \in route.guards => PermissionsGuard(u, route, ctx)
    /\ route.guards \cap {"read", "write"} # {} => BuildingAccessGuard(u, route, ctx)
    /\ "platform" \in route.guards => PlatformAuthGuard(u, route, ctx)
    /\ "owner" \in route.guards => ctx.owner

NoContext == [path |-> NoId, hint |-> NoId, row |-> NoId, occupied |-> FALSE, owner |-> FALSE,
              keyed |-> FALSE]
InBuilding(b) == [NoContext EXCEPT !.path = b, !.row = b]

MayManageRoles(u) == \A r \in RolesController : r.handler = "create" => Allowed(u, r, NoContext)
MayManageUsers(u) == \A r \in UserAccessController : Allowed(u, r, NoContext)
MayManageOrgs(u, keyed) ==
    \A r \in PlatformOrgsController : Allowed(u, r, [NoContext EXCEPT !.keyed = keyed])

\* assertOrgAdmin
IsOrgAdmin(u) ==
    \E a \in assignment : /\ a.user = u /\ a.scope = "ORG" /\ a.building = NoId
                          /\ a.template = <<user[u], "org_admin">>

Init ==
    /\ orgs = {}
    /\ user = [u \in Users |-> IF u = Root THEN NoId ELSE "absent"]
    /\ building = [b \in Buildings |-> NoId]
    /\ custom = [t \in Customs |-> [state |-> "none", org |-> NoId, name |-> NoId,
                                    scope |-> "ORG", keys |-> {}]]
    /\ assignment = {[user |-> Root, template |-> <<NoId, PlatformTemplate>>,
                      scope |-> "ORG", building |-> NoId]}
    /\ override = [u \in Users |-> {}]
    /\ baseline = [u \in Users |-> FALSE]
    /\ job = [h \in Handlers |-> Idle]

Begin(h, new) == job[h].pc = "idle" /\ job' = [job EXCEPT ![h] = new]
Finish(h) == job' = [job EXCEPT ![h] = Idle]

------------------------------------------------------------------------------
(* Role templates (roles.service.ts).                                      *)

\* mutant: the keys of the platform are not refused
ResolvePermissionIdsAny(keys) == keys \subseteq Catalogue

\* resolvePermissionIds: no key of the platform, and every key is known
ResolvePermissionIds(keys) ==
    keys \subseteq Catalogue /\ \A k \in keys : ~IsPlatformPermissionKey(k)

CreateRoleCheck(h, actor, name, scope, keys) ==
    /\ Begin(h, [Idle EXCEPT !.pc = "createRole", !.org = user[actor], !.name = name,
                             !.scope = scope, !.keys = keys])
    /\ MayManageRoles(actor) /\ IsOrgAdmin(actor)
    /\ ResolvePermissionIds(keys)
    /\ UNCHANGED <<orgs, user, building, custom, assignment, override, baseline>>

\* The insert; its keys are written by a transaction of their own.
CreateRole(h, t) ==
    /\ job[h].pc = "createRole"
    /\ custom[t].state = "none"
    /\ \A x \in Customs : ~(/\ custom[x].state = "live" /\ custom[x].org = job[h].org
                            /\ custom[x].name = job[h].name)
    /\ custom' = [custom EXCEPT ![t] = [state |-> "live", org |-> job[h].org,
                                        name |-> job[h].name, scope |-> job[h].scope, keys |-> {}]]
    /\ job' = [job EXCEPT ![h] = [Idle EXCEPT !.pc = "permissions", !.template = t,
                                              !.keys = job[h].keys]]
    /\ UNCHANGED <<orgs, user, building, assignment, override, baseline>>

UpdateRoleCheck(h, actor, t, keys) ==
    /\ Begin(h, [Idle EXCEPT !.pc = "permissions", !.template = t, !.keys = keys])
    /\ MayManageRoles(actor) /\ IsOrgAdmin(actor)
    /\ custom[t].state = "live" /\ custom[t].org = user[actor]
    /\ ResolvePermissionIds(keys)
    /\ UNCHANGED <<orgs, user, building, custom, assignment, override, baseline>>

\* replaceRoleTemplatePermissions, its DELETE ...
DeleteRolePermissions(h) ==
    /\ job[h].pc = "permissions"
    /\ job' = [job EXCEPT ![h].pc = "replaceRole", ![h].doomed = custom[job[h].template].keys]
    /\ UNCHANGED <<orgs, user, building, custom, assignment, override, baseline>>

\* ... and its INSERT, which the foreign key refuses once the template is gone.
ReplaceRolePermissions(h) ==
    LET t == job[h].template IN
    /\ job[h].pc = "replaceRole"
    /\ custom[t].state = "live"
    /\ custom' = [custom EXCEPT ![t].keys = (custom[t].keys \ job[h].doomed) \cup job[h].keys]
    /\ job' = [g \in Handlers |->
                 IF g = h THEN Idle
                 ELSE IF job[g].pc = "replaceRole" /\ job[g].template = t
                      THEN [job[g] EXCEPT !.doomed = @ \ job[h].keys] ELSE job[g]]
    /\ UNCHANGED <<orgs, user, building, assignment, override, baseline>>

DeleteRoleCheck(h, actor, t) ==
    /\ Begin(h, [Idle EXCEPT !.pc = "deleteRole", !.template = t])
    /\ MayManageRoles(actor) /\ IsOrgAdmin(actor)
    /\ custom[t].state = "live" /\ custom[t].org = user[actor]
    /\ \A a \in assignment : a.template # t
    /\ UNCHANGED <<orgs, user, building, custom, assignment, override, baseline>>

\* The delete; an assignment made since the check goes with the template (ON DELETE CASCADE).
DeleteRole(h) ==
    LET t == job[h].template IN
    /\ job[h].pc = "deleteRole"
    /\ custom[t].state = "live"
    /\ custom' = [custom EXCEPT ![t].state = "gone"]
    /\ assignment' = {a \in assignment : a.template # t}
    /\ Finish(h)
    /\ UNCHANGED <<orgs, user, building, override, baseline>>

------------------------------------------------------------------------------
(* Access assignments (user-access.service.ts).                            *)

\* What an assignment of template t in building b must satisfy in organisation org.
Assignable(t, b, org) ==
    /\ Live(t) /\ Visible(t) /\ TemplateOrg(t) = org
    /\ IF TemplateScope(t) = "BUILDING" THEN b # NoId /\ building[b] = org ELSE b = NoId

CreateAccessAssignmentCheck(h, actor, u, t, b) ==
    /\ Begin(h, [Idle EXCEPT !.pc = "assign", !.user = u, !.template = t, !.building = b,
                             !.scope = TemplateScope(t)])
    /\ MayManageUsers(actor)
    /\ user[u] = user[actor]
    /\ Assignable(t, b, user[actor])
    /\ ~\E a \in assignment : a.user = u /\ a.template = t /\ a.building = b
    /\ Cardinality(assignment) < MaxAssignments
    /\ UNCHANGED <<orgs, user, building, custom, assignment, override, baseline>>

\* mutant: the foreign key to the template is missing
CreateAccessAssignmentNoKey(h) ==
    LET j == job[h] IN
    /\ j.pc = "assign"
    /\ j.building # NoId => building[j.building] # "gone"
    /\ assignment' = assignment \cup {[user |-> j.user, template |-> j.template,
                                      scope |-> j.scope, building |-> j.building]}
    /\ Finish(h)
    /\ UNCHANGED <<orgs, user, building, custom, override, baseline>>

\* The upsert on the deterministic id; the foreign keys check that the rows still exist.
CreateAccessAssignment(h) ==
    LET j == job[h] IN
    /\ j.pc = "assign"
    /\ Live(j.template)
    /\ j.building # NoId => building[j.building] # "gone"
    /\ assignment' = assignment \cup {[user |-> j.user, template |-> j.template,
                                      scope |-> j.scope, building |-> j.building]}
    /\ Finish(h)
    /\ UNCHANGED <<orgs, user, building, custom, override, baseline>>

DeleteAccessAssignmentCheck(h, actor, a) ==
    /\ Begin(h, [Idle EXCEPT !.pc = "unassign", !.user = a.user, !.template = a.template,
                             !.building = a.building, !.scope = a.scope])
    /\ MayManageUsers(actor)
    /\ user[a.user] = user[actor] /\ TemplateOrg(a.template) = user[actor]
    /\ UNCHANGED <<orgs, user, building, custom, assignment, override, baseline>>

\* The delete by id; it throws when the row is gone.
DeleteAccessAssignment(h) ==
    LET a == [user |-> job[h].user, template |-> job[h].template,
              scope |-> job[h].scope, building |-> job[h].building] IN
    /\ job[h].pc = "unassign"
    /\ a \in assignment
    /\ assignment' = assignment \ {a}
    /\ Finish(h)
    /\ UNCHANGED <<orgs, user, building, custom, override, baseline>>

------------------------------------------------------------------------------
(* Permission overrides (user-access.service.ts).                          *)

SetPermissionOverridesCheck(h, actor, u, rows) ==
    /\ Begin(h, [Idle EXCEPT !.pc = "setOverrides", !.user = u, !.rows = rows])
    /\ MayManageUsers(actor)
    /\ user[u] = user[actor]
    /\ ResolvePermissionIds({r[1] : r \in rows})
    /\ UNCHANGED <<orgs, user, building, custom, assignment, override, baseline>>

\* replaceUserPermissions, its DELETE ...
DeleteUserPermissions(h) ==
    /\ job[h].pc = "setOverrides"
    /\ job' = [job EXCEPT ![h].pc = "replaceOverrides", ![h].doomed = override[job[h].user]]
    /\ UNCHANGED <<orgs, user, building, custom, assignment, override, baseline>>

\* ... and its INSERT, which skips keys that another transaction inserted meanwhile.
ReplaceUserPermissions(h) ==
    LET u == job[h].user
        kept == override[u] \ job[h].doomed
        new == {r \in job[h].rows : \A k \in kept : k[1] # r[1]} IN
    /\ job[h].pc = "replaceOverrides"
    /\ override' = [override EXCEPT ![u] = kept \cup new]
    /\ baseline' = [baseline EXCEPT ![u] = FALSE]
    /\ job' = [g \in Handlers |->
                 IF g = h THEN Idle
                 ELSE IF job[g].pc = "replaceOverrides" /\ job[g].user = u
                      THEN [job[g] EXCEPT !.doomed = @ \ new] ELSE job[g]]
    /\ UNCHANGED <<orgs, user, building, custom, assignment>>

------------------------------------------------------------------------------
(* Provisioning, organisations and buildings.                              *)

\* ensureResidentPermissions: keys that have a row already keep it (skipDuplicates).
ResidentRows(u) ==
    override[u] \cup {<<k, "ALLOW">> : k \in {x \in ResidentBaseline :
                                               \A r \in override[u] : r[1] # x}}

\* provisionOrgUser, one transaction: the account is created in the organisation, or an
\* existing one is linked, an account without an organisation only when the caller says
\* so.  The insert of the resident rows waits for a transaction that deletes some of them.
ProvisionOrgUser(actor, u, resident, sameOrg, grants) ==
    LET org == user[actor] IN
    /\ \A r \in OrgUsersProvisionController : Allowed(actor, r, NoContext)
    /\ user[u] \in {"absent", org} \/ (user[u] = NoId /\ ~sameOrg)
    /\ \A g \in grants : Assignable(g.template, g.building, org)
    /\ grants # {} => Cardinality(assignment) < MaxAssignments
    /\ user' = [user EXCEPT ![u] = org]
    /\ assignment' = assignment \cup
         {[user |-> u, template |-> g.template, scope |-> TemplateScope(g.template),
           building |-> g.building] : g \in grants}
    /\ IF resident
       THEN /\ \A h \in Handlers : ~(/\ job[h].pc = "replaceOverrides" /\ job[h].user = u
                                      /\ \E r \in job[h].doomed : r[1] \in ResidentBaseline)
            /\ override' = [override EXCEPT ![u] = ResidentRows(u)]
            /\ baseline' = [baseline EXCEPT ![u] = TRUE]
       ELSE UNCHANGED <<override, baseline>>
    /\ UNCHANGED <<orgs, building, custom, job>>

\* PlatformOrgsService.create, with provisionOrgRoles in the same transaction.
CreateOrg(actor, keyed, o) ==
    /\ MayManageOrgs(actor, keyed)
    /\ o \notin orgs
    /\ orgs' = orgs \cup {o}
    /\ UNCHANGED <<user, building, custom, assignment, override, baseline, job>>

\* createOrgAdmin: the account ...
CreateOrgAdmin(h, actor, keyed, o, u) ==
    /\ Begin(h, [Idle EXCEPT !.pc = "orgAdmin", !.user = u, !.org = o])
    /\ MayManageOrgs(actor, keyed)
    /\ o \in orgs
    /\ user[u] = "absent"
    /\ user' = [user EXCEPT ![u] = o]
    /\ UNCHANGED <<orgs, building, custom, assignment, override, baseline>>

\* mutant: the template is looked up without the organisation
GrantOrgAdminNoOrg(h) ==
    /\ job[h].pc = "orgAdmin"
    /\ assignment' = assignment \cup {[user |-> job[h].user, template |-> <<NoId, "org_admin">>,
                                       scope |-> "ORG", building |-> NoId]}
    /\ Finish(h)
    /\ UNCHANGED <<orgs, user, building, custom, override, baseline>>

\* ... and, in a statement of its own, its role.
GrantOrgAdmin(h) ==
    /\ job[h].pc = "orgAdmin"
    /\ assignment' = assignment \cup {[user |-> job[h].user, template |-> <<job[h].org, "org_admin">>,
                                       scope |-> "ORG", building |-> NoId]}
    /\ Finish(h)
    /\ UNCHANGED <<orgs, user, building, custom, override, baseline>>

\* AuthService.register: an account without an organisation.
Register(u) ==
    /\ user[u] = "absent"
    /\ user' = [user EXCEPT ![u] = NoId]
    /\ UNCHANGED <<orgs, building, custom, assignment, override, baseline, job>>

CreateBuilding(actor, b) ==
    /\ \A r \in BuildingsController : r.handler = "create" => Allowed(actor, r, NoContext)
    /\ building[b] = NoId
    /\ building' = [building EXCEPT ![b] = user[actor]]
    /\ UNCHANGED <<orgs, user, custom, assignment, override, baseline, job>>

\* deleteByIdForOrg; the assignments of the building go with it (ON DELETE CASCADE).
DeleteBuilding(actor, b) ==
    /\ \A r \in BuildingsController : r.handler = "delete" => Allowed(actor, r, InBuilding(b))
    /\ building[b] = user[actor]
    /\ building' = [building EXCEPT ![b] = "gone"]
    /\ assignment' = {a \in assignment : a.building # b}
    /\ UNCHANGED <<orgs, user, custom, override, baseline, job>>

\* A request fails or its process stops: its open transaction rolls back.
Abandon(h) ==
    /\ job[h].pc # "idle"
    /\ Finish(h)
    /\ UNCHANGED <<orgs, user, building, custom, assignment, override, baseline>>

------------------------------------------------------------------------------
RoleStep(h) ==
    \/ \E actor \in Users, name \in CustomNames, scope \in RoleScopes, keys \in KeySets :
          CreateRoleCheck(h, actor, name, scope, keys)
    \/ \E t \in Customs : CreateRole(h, t)
    \/ \E actor \in Users, t \in Customs, keys \in KeySets : UpdateRoleCheck(h, actor, t, keys)
    \/ DeleteRolePermissions(h)
    \/ ReplaceRolePermissions(h)
    \/ \E actor \in Users, t \in Customs : DeleteRoleCheck(h, actor, t)
    \/ DeleteRole(h)

UserAccessStep(h) ==
    \/ \E actor, u \in Users, t \in Handed, b \in Nullable(Buildings) :
          CreateAccessAssignmentCheck(h, actor, u, t, b)
    \/ CreateAccessAssignment(h)
    \/ \E actor \in Users, a \in assignment : DeleteAccessAssignmentCheck(h, actor, a)
    \/ DeleteAccessAssignment(h)
    \/ \E actor, u \in Users, rows \in OverrideSets : SetPermissionOverridesCheck(h, actor, u, rows)
    \/ DeleteUserPermissions(h)
    \/ ReplaceUserPermissions(h)

AccountStep ==
    \/ \E actor, u \in Users, resident, sameOrg \in BOOLEAN,
          grants \in {{}} \cup {{[template |-> t, building |-> b]} :
                                 t \in Handed, b \in Nullable(Buildings)} :
          ProvisionOrgUser(actor, u, resident, sameOrg, grants)
    \/ \E actor \in Users, keyed \in BOOLEAN, o \in Orgs : CreateOrg(actor, keyed, o)
    \/ \E u \in Users : Register(u)
    \/ \E actor \in Users, b \in Buildings : CreateBuilding(actor, b)
    \/ \E actor \in Users, b \in Buildings : DeleteBuilding(actor, b)

HandlerStep(h) ==
    \/ RoleStep(h)
    \/ UserAccessStep(h)
    \/ \E actor, u \in Users, keyed \in BOOLEAN, o \in Orgs :
         CreateOrgAdmin(h, actor, keyed, o, u)
    \/ GrantOrgAdmin(h)
    \/ Abandon(h)

Next == AccountStep \/ \E h \in Handlers : HandlerStep(h)

Spec == Init /\ [][Next]_vars

------------------------------------------------------------------------------
(* Properties.                                                             *)

\* Handlers behind the same guards and key are one case for the properties.
Doors(routes) == {[guards |-> r.guards, key |-> r.key, scope |-> r.scope] : r \in routes}

PlatformDoors == Doors({r \in Routes : "platform" \in r.guards})
ResidentDoors == Doors(ResidentRoutes)
StaffDoors == Doors(StaffRoutes)

\* No sequence of role edits, overrides, assignments, registrations and links opens a
\* route of the platform, to a request without the platform's API key, for anyone but the
\* seeded superadmin, and none puts a platform key among the effective permissions of a
\* member of an organisation, in any building
\* (resolvePermissionIds, getUserScopedAccess, PlatformAuthGuard).
PlatformStaysClosed ==
    /\ \A u \in Users, r \in PlatformDoors : Allowed(u, r, NoContext) => u = Root /\ user[u] = NoId
    /\ \A u \in Users : user[u] \in Orgs =>
         /\ \A k \in EffectiveAnywhere(u, user[u]) : ~IsPlatformPermissionKey(k)
         /\ \A b \in Nullable(Buildings) : \A k \in Effective(u, user[u], b, TRUE) : ~IsPlatformPermissionKey(k)

\* Every assignment row points at a template that exists, belongs to the organisation of
\* its user and has the scope of the row, and a building row at a building of that
\* organisation that exists, however the checks of createAccessAssignment interleave
\* with the deletion of a role or a building.  The superadmin's own row is the exception.
AssignmentsWellScoped ==
    \A a \in assignment :
        /\ Live(a.template)
        /\ TemplateScope(a.template) = a.scope
        /\ (a.scope = "ORG") <=> (a.building = NoId)
        /\ a.template # <<NoId, PlatformTemplate>> => TemplateOrg(a.template) = user[a.user]
        /\ a.building # NoId => building[a.building] = user[a.user]

\* The tables agree with the guards of the controllers: a resident whose overrides nobody
\* replaced reaches every resident route except those an administrator had denied before
\* (resident-baseline-permissions.ts:1), and an administrator of an organisation without
\* a denied key reaches every staff route, in every building of the organisation.
GrantsOpenRoutes ==
    /\ \A u \in Users, r \in ResidentDoors :
         (baseline[u] /\ <<r.key, "DENY">> \notin override[u]) => Allowed(u, r, NoContext)
    /\ \A u \in Users, r \in StaffDoors, b \in Nullable(Buildings) :
         (/\ user[u] \in Orgs /\ IsOrgAdmin(u)
          /\ \A x \in override[u] : x[2] = "ALLOW"
          /\ (b = NoId <=> r.scope = "none") /\ (b # NoId => building[b] = user[u]))
         => Allowed(u, r, IF b = NoId THEN NoContext ELSE InBuilding(b))
=============================================================================
