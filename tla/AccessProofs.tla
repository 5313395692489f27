---------------------------- MODULE AccessProofs ----------------------------
(***************************************************************************)
(* Proofs about Access for any number of organisations, users, buildings,  *)
(* role templates and concurrent requests, and any keys and overrides that *)
(* callers send.                                                           *)
(***************************************************************************)
EXTENDS Access, TLAPS

------------------------------------------------------------------------------
(* The inductive invariant.                                                *)

\* Keys that a customer may hand out.
Clean(keys) == keys \subseteq Catalogue /\ \A k \in keys : ~IsPlatformPermissionKey(k)

\* A customer's template belongs to an organisation and holds no key of the platform;
\* neither does an override.
CustomsOK == \A t \in Customs : /\ custom[t].state # "none" => custom[t].org \in Orgs
                                /\ Clean(custom[t].keys)
OverridesOK == \A u \in Users : Clean({r[1] : r \in override[u]})

\* Only the seeded superadmin holds the template of the platform.
PlatformOnlyRoot == \A a \in assignment : a.template = <<NoId, PlatformTemplate>> => a.user = Root

\* A resident whose overrides nobody replaced is a member of an organisation and has a
\* row, ALLOW or DENY, for each key of the baseline.
BaselineOK == \A u \in Users : baseline[u] =>
    /\ user[u] \in Orgs
    /\ \A k \in ResidentBaseline : <<k, "ALLOW">> \in override[u] \/ <<k, "DENY">> \in override[u]

\* What the steps of a handler after its check may rely on.
AssignOK(j) ==
    /\ j.user \in Users /\ j.template \in Templates
    /\ user[j.user] \in Orgs /\ TemplateOrg(j.template) = user[j.user]
    /\ j.template \in Customs => custom[j.template].state # "none"
    /\ j.scope = TemplateScope(j.template)
    /\ (j.scope = "ORG") <=> (j.building = NoId)
    /\ j.building # NoId => building[j.building] \in {user[j.user], "gone"}
JobOK(j) ==
    /\ j.pc = "createRole" => j.org \in Orgs /\ j.name \in CustomNames /\ Clean(j.keys)
    /\ j.pc \in {"permissions", "replaceRole"} => j.template \in Customs /\ Clean(j.keys)
    /\ j.pc = "deleteRole" => j.template \in Customs
    /\ j.pc = "assign" => AssignOK(j)
    /\ j.pc \in {"setOverrides", "replaceOverrides"} =>
           j.user \in Users /\ Clean({r[1] : r \in j.rows})
    /\ j.pc = "orgAdmin" => j.user \in Users /\ j.org \in orgs /\ user[j.user] = j.org
JobsOK == \A h \in Handlers : JobOK(job[h])

IInv ==
    /\ TypeOK
    /\ JobsOK /\ CustomsOK /\ OverridesOK /\ PlatformOnlyRoot /\ BaselineOK
    /\ AssignmentsWellScoped

\* What an assignment row has to satisfy.
RowOK(a) ==
    /\ Live(a.template)
    /\ TemplateScope(a.template) = a.scope
    /\ (a.scope = "ORG") <=> (a.building = NoId)
    /\ a.template # <<NoId, PlatformTemplate>> => TemplateOrg(a.template) = user[a.user]
    /\ a.building # NoId => building[a.building] = user[a.user]

\* What no step takes back: organisations stay, members stay members of their
\* organisation, templates keep organisation and scope, buildings stay or go.
Settled ==
    /\ orgs \subseteq orgs'
    /\ \A u \in Users : user[u] \in Orgs => user'[u] = user[u]
    /\ \A t \in Customs : custom[t].state # "none" =>
           /\ custom'[t].state # "none"
           /\ custom'[t].org = custom[t].org /\ custom'[t].scope = custom[t].scope
    /\ \A b \in Buildings : building[b] \in Orgs \cup {"gone"} =>
           building'[b] \in {building[b], "gone"}

------------------------------------------------------------------------------
(* The tables and the guards.                                              *)

\* Whoever passes the guards of the routes that manage users or buildings or that
\* provision accounts is a member of an organisation.
LEMMA ManagersAreMembers ==
    ASSUME NEW u \in Users
    PROVE  /\ MayManageUsers(u) => user[u] \in Orgs
           /\ MayManageRoles(u) => user[u] \in Orgs
           /\ (\A r \in OrgUsersProvisionController : Allowed(u, r, NoContext)) => user[u] \in Orgs
           /\ (\A r \in BuildingsController : r.handler = "create" => Allowed(u, r, NoContext))
                  => user[u] \in Orgs
<1> DEFINE route(h, k) == [handler |-> h, guards |-> Perm, key |-> k, scope |-> "none"]
<1>1. /\ route("listAccessAssignments", <<"users", "read">>) \in UserAccessController
      /\ route("create", <<"roles", "write">>) \in RolesController
      /\ route("provision", <<"users", "write">>) \in OrgUsersProvisionController
      /\ route("create", <<"buildings", "write">>) \in BuildingsController
  BY DEF UserAccessController, RolesController, OrgUsersProvisionController,
     BuildingsController, Route
<1>2. \A h, k : Allowed(u, route(h, k), NoContext) => user[u] \in Orgs
  BY DEF Allowed, OrgScopeGuard, Perm
<1>3. \A h, k : route(h, k).handler = h
  OBVIOUS
<1> HIDE DEF route
<1>4. QED
  BY <1>1, <1>2, <1>3 DEF MayManageUsers, MayManageRoles

\* The keys of the resident baseline are keys of the catalogue, and none is the
\* platform's.
LEMMA BaselineClean == Clean(ResidentBaseline)
BY DEF Clean, ResidentBaseline, Catalogue, StaffKeys, LeaseKeys, ServiceKeys, ResidentKeys,
   PlatformAndParkingKeys, IsPlatformPermissionKey, PlatformAreas

\* Nor is a key of an organisation's system templates one of the platform's.
LEMMA SystemKeysClean ==
    ASSUME NEW t \in SystemTemplates, NEW k \in SystemKeys(t)
    PROVE  ~IsPlatformPermissionKey(k)
<1> USE DEF IsPlatformPermissionKey, PlatformAreas
<1>1. k \in OrgAdminKeys => k[1] \notin PlatformAreas
  BY DEF OrgAdminKeys
<1>2. k \in ViewerKeys => k[1] \notin PlatformAreas
  BY DEF ViewerKeys
<1>3. k \in BuildingAdminKeys => k[1] \notin PlatformAreas
  BY DEF BuildingAdminKeys
<1>4. k \in BuildingManagerKeys => k[1] \notin PlatformAreas
  BY DEF BuildingManagerKeys
<1>5. k \in BuildingStaffKeys => k[1] \notin PlatformAreas
  BY DEF BuildingStaffKeys
<1>6. \/ k \in OrgAdminKeys \/ k \in ViewerKeys \/ k \in BuildingAdminKeys
      \/ k \in BuildingManagerKeys \/ k \in BuildingStaffKeys
  BY DEF SystemKeys, SystemTemplates, PlatformTemplate
<1>7. QED
  BY <1>1, <1>2, <1>3, <1>4, <1>5, <1>6

------------------------------------------------------------------------------
(* Preservation.                                                           *)

\* What the remaining steps of a handler rely on stays true.
LEMMA JobStable ==
    ASSUME TypeOK, Settled, NEW j \in Job, JobOK(j)
    PROVE  JobOK(j)'
<1>1. j.pc = "assign" => AssignOK(j)'
  <2> SUFFICES ASSUME AssignOK(j) PROVE AssignOK(j)'
    BY DEF JobOK
  <2>1. user'[j.user] = user[j.user]
    BY DEF AssignOK, Settled
  <2>2. TemplateOrg(j.template)' = TemplateOrg(j.template)
        /\ TemplateScope(j.template)' = TemplateScope(j.template)
    BY DEF AssignOK, Settled, TemplateOrg, TemplateScope
  <2>3. j.template \in Customs => custom'[j.template].state # "none"
    BY DEF AssignOK, Settled
  <2>4. j.building # NoId => building'[j.building] \in {user[j.user], "gone"}
    <3> SUFFICES ASSUME j.building # NoId
                 PROVE  building'[j.building] \in {user[j.user], "gone"}
      OBVIOUS
    <3>1. j.building \in Buildings
      BY DEF Job, Nullable
    <3>2. building[j.building] \in {user[j.user], "gone"} /\ user[j.user] \in Orgs
      BY DEF AssignOK
    <3>3. QED
      BY <3>1, <3>2 DEF Settled
  <2>5. QED
    BY <2>1, <2>2, <2>3, <2>4 DEF AssignOK
<1>2. j.pc = "orgAdmin" => j.user \in Users /\ j.org \in orgs' /\ user'[j.user] = j.org
  BY DEF JobOK, Settled, TypeOK
<1>3. QED
  BY <1>1, <1>2 DEF JobOK

\* A handler that is over relies on nothing.
LEMMA IdleJob == Idle \in Job /\ JobOK(Idle) /\ JobOK(Idle)'
<1>1. Idle \in Job
  BY DEF Idle, Job, Nullable
<1>2. Idle.pc = "idle"
  BY DEF Idle
<1>3. QED
  BY <1>1, <1>2 DEF JobOK

\* A handler goes on with a record it may rely on, and the others as they were.
LEMMA JobStep ==
    ASSUME IInv, Settled, NEW h \in Handlers, NEW j \in Job, JobOK(j)',
           job' = [job EXCEPT ![h] = j]
    PROVE  job' \in [Handlers -> Job] /\ JobsOK'
<1>1. job' \in [Handlers -> Job]
  BY DEF IInv, TypeOK
<1>2. SUFFICES ASSUME NEW g \in Handlers PROVE JobOK(job[g])'
  BY <1>1 DEF JobsOK
<1>3. CASE g = h
  <2>1. job'[g] = j
    BY <1>3 DEF IInv, TypeOK
  <2>2. QED
    BY <2>1 DEF JobOK, AssignOK
<1>4. CASE g # h
  <2>1. PICK x \in Job : x = job[g] /\ x = job'[g]
    BY <1>4 DEF IInv, TypeOK
  <2>2. JobOK(x)'
    BY <2>1, JobStable DEF IInv, JobsOK
  <2>3. QED
    BY <2>1, <2>2 DEF JobOK, AssignOK
<1>5. QED
  BY <1>3, <1>4

\* Nothing of what the step writes is in a handler's record.
LEMMA SameJobs ==
    ASSUME IInv, Settled, job' = job
    PROVE  job' \in [Handlers -> Job] /\ JobsOK'
<1>1. SUFFICES ASSUME NEW g \in Handlers PROVE JobOK(job[g])'
  BY DEF IInv, TypeOK, JobsOK
<1>2. PICK x \in Job : x = job[g] /\ x = job'[g]
  BY DEF IInv, TypeOK
<1>3. JobOK(x)'
  BY <1>2, JobStable DEF IInv, JobsOK
<1>4. QED
  BY <1>2, <1>3 DEF JobOK, AssignOK

\* Rows stay as they should be if a row goes when its template or building goes, and a
\* new row is one of an organisation.
RowsChange ==
    \A a \in assignment' :
        /\ a \in Assignment
        /\ \/ /\ a \in assignment /\ Live(a.template)'
              /\ a.building # NoId => building'[a.building] # "gone"
           \/ RowOK(a)' /\ a.template # <<NoId, PlatformTemplate>>

\* Then every row is still as it should be.
LEMMA RowsKept ==
    ASSUME IInv, Settled, RowsChange
    PROVE  assignment' \subseteq Assignment /\ AssignmentsWellScoped' /\ PlatformOnlyRoot'
<1>1. ASSUME NEW a \in assignment', a \in assignment, Live(a.template)',
             a.building # NoId => building'[a.building] # "gone"
      PROVE  RowOK(a)'
  <2>1. a \in Assignment /\ RowOK(a)
    BY <1>1 DEF IInv, TypeOK, AssignmentsWellScoped, RowOK
  <2>2. a.user \in Users /\ a.template \in Templates
        /\ a.building \in Nullable(Buildings)
    BY <2>1 DEF Assignment
  <2>3. /\ TemplateOrg(a.template)' = TemplateOrg(a.template)
        /\ TemplateScope(a.template)' = TemplateScope(a.template)
    BY <2>1, <2>2 DEF RowOK, Live, Settled, TemplateOrg, TemplateScope
  <2>4. CASE a.template = <<NoId, PlatformTemplate>>
    <3>1. a.building = NoId
      <4>1. a.template \notin Customs
        BY <2>4, AccessAssumption
      <4>2. TemplateScope(a.template) = "ORG"
        BY <2>4, <4>1 DEF TemplateScope, SystemScope
      <4>3. QED
        BY <2>1, <4>2 DEF RowOK
    <3>2. QED
      BY <1>1, <2>1, <2>3, <2>4, <3>1 DEF RowOK
  <2>5. CASE a.template # <<NoId, PlatformTemplate>>
    <3>1. TemplateOrg(a.template) \in Orgs
      BY <2>1, <2>2, <2>5 DEF RowOK, Live, TemplateOrg, Templates, Systems, IInv, CustomsOK
    <3>2. user'[a.user] = user[a.user] /\ user[a.user] \in Orgs
      BY <2>1, <2>2, <2>5, <3>1 DEF RowOK, Settled
    <3>3. a.building # NoId => building'[a.building] = building[a.building]
      BY <1>1, <2>1, <2>2, <3>2 DEF RowOK, Settled, Nullable
    <3>4. QED
      BY <1>1, <2>1, <2>3, <3>2, <3>3 DEF RowOK
  <2>6. QED
    BY <2>4, <2>5
<1>2. \A a \in assignment' : RowOK(a)'
  BY <1>1 DEF RowsChange
<1>3. AssignmentsWellScoped'
  BY <1>2 DEF AssignmentsWellScoped, RowOK
<1>4. QED
  BY <1>3 DEF RowsChange, IInv, PlatformOnlyRoot

\* A step that only moves a handler on.
LEMMA OnlyJob ==
    ASSUME IInv, NEW h \in Handlers, NEW j \in Job, JobOK(j), job' = [job EXCEPT ![h] = j],
           UNCHANGED <<orgs, user, building, custom, assignment, override, baseline>>
    PROVE  IInv'
<1>1. Settled
  BY DEF Settled, IInv, TypeOK
<1>2. JobOK(j)'
  BY <1>1, JobStable DEF IInv
<1>3. job' \in [Handlers -> Job] /\ JobsOK'
  BY <1>1, <1>2, JobStep
<1>4. AssignmentsWellScoped'
  BY DEF IInv, AssignmentsWellScoped, Live, TemplateScope, TemplateOrg
<1>5. CustomsOK' /\ OverridesOK' /\ PlatformOnlyRoot' /\ BaselineOK'
  BY DEF IInv, CustomsOK, OverridesOK, PlatformOnlyRoot, BaselineOK
<1>6. TypeOK'
  BY <1>3 DEF IInv, TypeOK
<1>7. QED
  BY <1>3, <1>4, <1>5, <1>6 DEF IInv

\* The checks of the handlers of role templates, and the DELETE of their keys.
LEMMA RoleChecks ==
    ASSUME IInv, NEW h \in Handlers,
           \/ \E actor \in Users, name \in CustomNames, scope \in RoleScopes, keys \in KeySets :
                  CreateRoleCheck(h, actor, name, scope, keys)
           \/ \E actor \in Users, t \in Customs, keys \in KeySets :
                  UpdateRoleCheck(h, actor, t, keys)
           \/ DeleteRolePermissions(h)
           \/ \E actor \in Users, t \in Customs : DeleteRoleCheck(h, actor, t)
    PROVE  IInv'
<1> USE DEF Begin
<1>1. ASSUME NEW actor \in Users, NEW name \in CustomNames, NEW scope \in RoleScopes,
             NEW keys \in KeySets, CreateRoleCheck(h, actor, name, scope, keys)
      PROVE  IInv'
  <2>1. PICK o \in Orgs : o = user[actor]
    BY <1>1, ManagersAreMembers DEF CreateRoleCheck
  <2> DEFINE j == [Idle EXCEPT !.pc = "createRole", !.org = o, !.name = name,
                               !.scope = scope, !.keys = keys]
  <2>2. Clean(keys)
    BY <1>1 DEF CreateRoleCheck, ResolvePermissionIds, Clean
  <2>3. j \in Job
    BY <2>2, AccessAssumption DEF Idle, Job, Nullable, Clean
  <2>4. j.pc = "createRole" /\ j.org = o /\ j.name = name /\ j.keys = keys
    BY DEF Idle
  <2>5. job' = [job EXCEPT ![h] = j]
    BY <1>1, <2>1 DEF CreateRoleCheck
  <2> HIDE DEF j
  <2>6. JobOK(j)
    BY <2>2, <2>4 DEF JobOK
  <2>7. QED
    BY <1>1, <2>3, <2>5, <2>6, OnlyJob DEF CreateRoleCheck
<1>2. ASSUME NEW actor \in Users, NEW t \in Customs, NEW keys \in KeySets,
             UpdateRoleCheck(h, actor, t, keys)
      PROVE  IInv'
  <2> DEFINE j == [Idle EXCEPT !.pc = "permissions", !.template = t, !.keys = keys]
  <2>1. Clean(keys)
    BY <1>2 DEF UpdateRoleCheck, ResolvePermissionIds, Clean
  <2>2. j \in Job
    BY <2>1 DEF Idle, Job, Nullable, Clean, Templates
  <2>3. j.pc = "permissions" /\ j.template = t /\ j.keys = keys
    BY DEF Idle
  <2>4. job' = [job EXCEPT ![h] = j]
    BY <1>2 DEF UpdateRoleCheck
  <2> HIDE DEF j
  <2>5. JobOK(j)
    BY <2>1, <2>3 DEF JobOK
  <2>6. QED
    BY <1>2, <2>2, <2>4, <2>5, OnlyJob DEF UpdateRoleCheck
<1>3. CASE DeleteRolePermissions(h)
  <2>1. PICK x \in Job : x = job[h]
    BY DEF IInv, TypeOK
  <2>2. PICK d \in SUBSET Catalogue : d = custom[x.template].keys
    BY <1>3, <2>1 DEF DeleteRolePermissions, IInv, JobsOK, JobOK, CustomsOK, Clean
  <2> DEFINE j == [x EXCEPT !.pc = "replaceRole", !.doomed = d]
  <2>3. j \in Job
    BY DEF Job
  <2>4. j.pc = "replaceRole" /\ j.template = x.template /\ j.keys = x.keys
    BY DEF Job
  <2>5. job' = [job EXCEPT ![h] = j]
    BY <1>3, <2>1, <2>2 DEF DeleteRolePermissions, IInv, TypeOK
  <2> HIDE DEF j
  <2>6. JobOK(j)
    BY <1>3, <2>1, <2>4 DEF DeleteRolePermissions, IInv, JobsOK, JobOK
  <2>7. QED
    BY <1>3, <2>3, <2>5, <2>6, OnlyJob DEF DeleteRolePermissions
<1>4. ASSUME NEW actor \in Users, NEW t \in Customs, DeleteRoleCheck(h, actor, t)
      PROVE  IInv'
  <2> DEFINE j == [Idle EXCEPT !.pc = "deleteRole", !.template = t]
  <2>1. j \in Job
    BY DEF Idle, Job, Nullable, Templates
  <2>2. j.pc = "deleteRole" /\ j.template = t
    BY DEF Idle
  <2>3. job' = [job EXCEPT ![h] = j]
    BY <1>4 DEF DeleteRoleCheck
  <2> HIDE DEF j
  <2>4. JobOK(j)
    BY <2>2 DEF JobOK
  <2>5. QED
    BY <1>4, <2>1, <2>3, <2>4, OnlyJob DEF DeleteRoleCheck
<1>5. QED
  BY <1>1, <1>2, <1>3, <1>4

\* What createAccessAssignment and provisionOrgUser check of a template.
LEMMA AssignableRow ==
    ASSUME IInv, NEW o \in Orgs, NEW t \in Handed, NEW b \in Nullable(Buildings),
           Assignable(t, b, o)
    PROVE  /\ t \in Templates /\ t # <<NoId, PlatformTemplate>>
           /\ TemplateOrg(t) = o /\ Live(t)
           /\ TemplateScope(t) \in {"ORG", "BUILDING"}
           /\ (TemplateScope(t) = "ORG") <=> (b = NoId)
           /\ b # NoId => building[b] = o
<1>1. t \in Templates /\ TemplateOrg(t) = o /\ Live(t)
  BY AccessAssumption DEF Assignable, Templates, Systems
<1>2. t # <<NoId, PlatformTemplate>>
  <2> SUFFICES ASSUME t = <<NoId, PlatformTemplate>> PROVE FALSE
    OBVIOUS
  <2>1. t \notin Customs
    BY AccessAssumption
  <2>2. QED
    BY <1>1, <2>1, AccessAssumption DEF TemplateOrg
<1>3. TemplateScope(t) \in {"ORG", "BUILDING"}
  BY DEF TemplateScope, SystemScope, IInv, TypeOK, CustomRow
<1>4. QED
  BY <1>1, <1>2, <1>3 DEF Assignable

\* The checks of the handlers of assignments and overrides, and the DELETE of overrides.
LEMMA UserChecks ==
    ASSUME IInv, NEW h \in Handlers,
           \/ \E actor, u \in Users, t \in Handed, b \in Nullable(Buildings) :
                  CreateAccessAssignmentCheck(h, actor, u, t, b)
           \/ \E actor \in Users, a \in assignment : DeleteAccessAssignmentCheck(h, actor, a)
           \/ \E actor, u \in Users, rows \in OverrideSets :
                  SetPermissionOverridesCheck(h, actor, u, rows)
           \/ DeleteUserPermissions(h)
           \/ Abandon(h)
    PROVE  IInv'
<1> USE DEF Begin
<1>1. ASSUME NEW actor \in Users, NEW u \in Users, NEW t \in Handed,
             NEW b \in Nullable(Buildings), CreateAccessAssignmentCheck(h, actor, u, t, b)
      PROVE  IInv'
  <2>1. PICK o \in Orgs : o = user[actor] /\ o = user[u]
    BY <1>1, ManagersAreMembers DEF CreateAccessAssignmentCheck
  <2>2. /\ t \in Templates /\ TemplateOrg(t) = o /\ Live(t)
        /\ TemplateScope(t) \in {"ORG", "BUILDING"}
        /\ (TemplateScope(t) = "ORG") <=> (b = NoId)
        /\ b # NoId => building[b] = o
    BY <1>1, <2>1, AssignableRow DEF CreateAccessAssignmentCheck
  <2>3. PICK s \in {"ORG", "BUILDING"} : s = TemplateScope(t)
    BY <2>2
  <2> DEFINE j == [Idle EXCEPT !.pc = "assign", !.user = u, !.template = t, !.building = b,
                               !.scope = s]
  <2>4. j \in Job
    BY <2>2 DEF Idle, Job, Nullable
  <2>5. j.pc = "assign" /\ j.user = u /\ j.template = t /\ j.building = b /\ j.scope = s
    BY DEF Idle
  <2>6. job' = [job EXCEPT ![h] = j]
    BY <1>1, <2>3 DEF CreateAccessAssignmentCheck
  <2> HIDE DEF j
  <2>7. t \in Customs => custom[t].state # "none"
    BY <2>2 DEF Live
  <2>8. AssignOK(j)
    BY <2>1, <2>2, <2>3, <2>5, <2>7 DEF AssignOK
  <2>9. JobOK(j)
    BY <2>5, <2>8 DEF JobOK
  <2>10. QED
    BY <1>1, <2>4, <2>6, <2>9, OnlyJob DEF CreateAccessAssignmentCheck
<1>2. ASSUME NEW actor \in Users, NEW a \in assignment,
             DeleteAccessAssignmentCheck(h, actor, a)
      PROVE  IInv'
  <2>1. a \in Assignment
    BY DEF IInv, TypeOK
  <2> DEFINE j == [Idle EXCEPT !.pc = "unassign", !.user = a.user, !.template = a.template,
                               !.building = a.building, !.scope = a.scope]
  <2>2. j \in Job
    BY <2>1 DEF Idle, Job, Nullable, Assignment
  <2>3. j.pc = "unassign"
    BY DEF Idle
  <2>4. job' = [job EXCEPT ![h] = j]
    BY <1>2 DEF DeleteAccessAssignmentCheck
  <2> HIDE DEF j
  <2>5. JobOK(j)
    BY <2>3 DEF JobOK
  <2>6. QED
    BY <1>2, <2>2, <2>4, <2>5, OnlyJob DEF DeleteAccessAssignmentCheck
<1>3. ASSUME NEW actor \in Users, NEW u \in Users, NEW rows \in OverrideSets,
             SetPermissionOverridesCheck(h, actor, u, rows)
      PROVE  IInv'
  <2> DEFINE j == [Idle EXCEPT !.pc = "setOverrides", !.user = u, !.rows = rows]
  <2>1. Clean({r[1] : r \in rows})
    BY <1>3 DEF SetPermissionOverridesCheck, ResolvePermissionIds, Clean
  <2>2. rows \in SUBSET Rows
    BY <2>1, AccessAssumption DEF Clean, Rows
  <2>3. j \in Job
    BY <2>2 DEF Idle, Job, Nullable
  <2>4. j.pc = "setOverrides" /\ j.user = u /\ j.rows = rows
    BY DEF Idle
  <2>5. job' = [job EXCEPT ![h] = j]
    BY <1>3 DEF SetPermissionOverridesCheck
  <2> HIDE DEF j
  <2>6. JobOK(j)
    BY <2>1, <2>4 DEF JobOK
  <2>7. QED
    BY <1>3, <2>3, <2>5, <2>6, OnlyJob DEF SetPermissionOverridesCheck
<1>4. CASE DeleteUserPermissions(h)
  <2>1. PICK x \in Job : x = job[h]
    BY DEF IInv, TypeOK
  <2>2. x.pc = "setOverrides" /\ x.user \in Users /\ Clean({r[1] : r \in x.rows})
    BY <1>4, <2>1 DEF DeleteUserPermissions, IInv, JobsOK, JobOK
  <2>3. PICK d \in SUBSET Rows : d = override[x.user]
    BY <2>2 DEF IInv, TypeOK
  <2> DEFINE j == [x EXCEPT !.pc = "replaceOverrides", !.doomed = d]
  <2>4. j \in Job
    BY DEF Job
  <2>5. j.pc = "replaceOverrides" /\ j.user = x.user /\ j.rows = x.rows
    BY DEF Job
  <2>6. job' = [job EXCEPT ![h] = j]
    BY <1>4, <2>1, <2>3 DEF DeleteUserPermissions, IInv, TypeOK
  <2> HIDE DEF j
  <2>7. JobOK(j)
    BY <2>2, <2>5 DEF JobOK
  <2>8. QED
    BY <1>4, <2>4, <2>6, <2>7, OnlyJob DEF DeleteUserPermissions
<1>5. CASE Abandon(h)
  BY <1>5, IdleJob, OnlyJob DEF Abandon, Finish
<1>6. QED
  BY <1>1, <1>2, <1>3, <1>4, <1>5

\* The handler is over; handlers in G no longer delete what it inserted.
LEMMA JobShift ==
    ASSUME IInv, Settled, NEW h \in Handlers, NEW G, NEW D,
           job' = [g \in Handlers |-> IF g = h THEN Idle
                                      ELSE IF g \in G THEN [job[g] EXCEPT !.doomed = @ \ D]
                                      ELSE job[g]]
    PROVE  job' \in [Handlers -> Job] /\ JobsOK'
<1>1. ASSUME NEW g \in Handlers PROVE job'[g] \in Job /\ JobOK(job[g])'
  <2>1. PICK x \in Job : x = job[g]
    BY DEF IInv, TypeOK
  <2>2. JobOK(x)'
    BY <2>1, JobStable DEF IInv, JobsOK
  <2>3. CASE g = h
    <3>1. job'[g] = Idle
      BY <2>3
    <3>2. QED
      BY <3>1, IdleJob DEF JobOK, AssignOK
  <2>4. CASE g # h /\ g \notin G
    <3>1. job'[g] = x
      BY <2>1, <2>4
    <3>2. QED
      BY <2>2, <3>1 DEF JobOK, AssignOK
  <2>5. CASE g # h /\ g \in G
    <3>1. job'[g] = [x EXCEPT !.doomed = x.doomed \ D]
      BY <2>1, <2>5
    <3>2. PICK y : y = job'[g]
      OBVIOUS
    <3>3. y \in Job
      BY <3>1, <3>2 DEF Job
    <3>4. /\ y.pc = x.pc /\ y.user = x.user /\ y.template = x.template /\ y.org = x.org
          /\ y.building = x.building /\ y.name = x.name /\ y.scope = x.scope
          /\ y.keys = x.keys /\ y.rows = x.rows
      BY <3>1, <3>2 DEF Job
    <3>5. JobOK(y)'
      BY <2>2, <3>4 DEF JobOK, AssignOK
    <3>6. QED
      BY <3>2, <3>3, <3>5 DEF JobOK, AssignOK
  <2>6. QED
    BY <2>3, <2>4, <2>5
<1>2. QED
  BY <1>1 DEF JobsOK

\* What the invariant says of a row.
LEMMA RowFacts ==
    ASSUME IInv, NEW a \in assignment
    PROVE  /\ a \in Assignment /\ RowOK(a)
           /\ a.building # NoId => building[a.building] # "gone"
<1>1. a \in Assignment /\ RowOK(a)
  BY DEF IInv, TypeOK, AssignmentsWellScoped, RowOK
<1>2. ASSUME a.building # NoId PROVE building[a.building] # "gone"
  <2>1. building[a.building] = user[a.user] /\ a.user \in Users
    BY <1>1, <1>2 DEF RowOK, Assignment
  <2>2. QED
    BY <2>1, AccessAssumption DEF IInv, TypeOK, Nullable
<1>3. QED
  BY <1>1, <1>2

\* A new template belongs to the organisation of its author and has no keys yet.
LEMMA CreateRoleKeeps ==
    ASSUME IInv, NEW h \in Handlers, NEW t \in Customs, CreateRole(h, t)
    PROVE  IInv'
<1> TypeOK
  BY DEF IInv
<1>1. PICK x \in Job : x = job[h]
  BY DEF TypeOK
<1>2. x.pc = "createRole" /\ x.org \in Orgs /\ x.name \in CustomNames /\ Clean(x.keys)
  BY <1>1 DEF CreateRole, IInv, JobsOK, JobOK
<1> DEFINE row == [state |-> "live", org |-> x.org, name |-> x.name, scope |-> x.scope,
                   keys |-> {}]
           j == [Idle EXCEPT !.pc = "permissions", !.template = t, !.keys = x.keys]
<1>3. /\ custom[t].state = "none" /\ custom' = [custom EXCEPT ![t] = row]
      /\ job' = [job EXCEPT ![h] = j]
      /\ UNCHANGED <<orgs, user, building, assignment, override, baseline>>
  BY <1>1 DEF CreateRole
<1>4. row \in CustomRow /\ row.org \in Orgs /\ row.state = "live" /\ row.keys = {}
  BY <1>2 DEF CustomRow, Nullable, Job
<1>5. j \in Job /\ j.pc = "permissions" /\ j.template = t /\ j.keys = x.keys
  BY <1>2 DEF Idle, Job, Nullable, Clean, Templates
<1> HIDE DEF row, j
<1>6. Settled
  BY <1>3, <1>4 DEF Settled, TypeOK
<1>7. JobOK(j)'
  BY <1>2, <1>5 DEF JobOK
<1>8. job' \in [Handlers -> Job] /\ JobsOK'
  BY <1>3, <1>5, <1>6, <1>7, JobStep
<1>9. CustomsOK'
  BY <1>3, <1>4 DEF IInv, CustomsOK, Clean, TypeOK
<1>10. RowsChange
  <2>1. \A a \in assignment : Live(a.template)'
    BY <1>3, <1>4, RowFacts DEF RowOK, Live, TypeOK
  <2>2. QED
    BY <1>3, <2>1, RowFacts DEF RowsChange
<1>11. assignment' \subseteq Assignment /\ AssignmentsWellScoped' /\ PlatformOnlyRoot'
  BY <1>6, <1>10, RowsKept
<1>12. OverridesOK' /\ BaselineOK'
  BY <1>3 DEF IInv, OverridesOK, BaselineOK
<1>13. TypeOK'
  BY <1>3, <1>4, <1>8, <1>11 DEF TypeOK
<1>14. QED
  BY <1>8, <1>9, <1>11, <1>12, <1>13 DEF IInv

\* Keys that replace the keys of a template are clean, and so are those that another
\* transaction inserted meanwhile.
LEMMA ReplaceRoleKeeps ==
    ASSUME IInv, NEW h \in Handlers, ReplaceRolePermissions(h)
    PROVE  IInv'
<1> TypeOK
  BY DEF IInv
<1>1. PICK x \in Job : x = job[h]
  BY DEF TypeOK
<1>2. x.pc = "replaceRole" /\ x.template \in Customs /\ Clean(x.keys)
  BY <1>1 DEF ReplaceRolePermissions, IInv, JobsOK, JobOK
<1>3. PICK t \in Customs : t = x.template
  BY <1>2
<1>4. PICK keys \in SUBSET Catalogue :
        keys = (custom[t].keys \ x.doomed) \cup x.keys
  BY <1>2 DEF IInv, CustomsOK, Clean
<1> DEFINE G == {g \in Handlers : job[g].pc = "replaceRole" /\ job[g].template = t}
<1>5. /\ custom[t].state = "live" /\ custom' = [custom EXCEPT ![t].keys = keys]
      /\ job' = [g \in Handlers |-> IF g = h THEN Idle
                                    ELSE IF g \in G THEN [job[g] EXCEPT !.doomed = @ \ x.keys]
                                    ELSE job[g]]
      /\ UNCHANGED <<orgs, user, building, assignment, override, baseline>>
  BY <1>1, <1>3, <1>4 DEF ReplaceRolePermissions
<1>6. /\ \A y \in Customs : /\ custom'[y] \in CustomRow
                            /\ custom'[y].state = custom[y].state
                            /\ custom'[y].org = custom[y].org
                            /\ custom'[y].scope = custom[y].scope
                            /\ custom'[y].keys = IF y = t THEN keys ELSE custom[y].keys
      /\ custom' \in [Customs -> CustomRow]
  BY <1>5 DEF TypeOK, CustomRow
<1>7. Settled
  BY <1>5, <1>6 DEF Settled, TypeOK
<1> HIDE DEF G
<1>8. job' \in [Handlers -> Job] /\ JobsOK'
  BY <1>5, <1>7, JobShift
<1>9. CustomsOK'
  <2>1. Clean(keys)
    BY <1>2, <1>4 DEF IInv, CustomsOK, Clean
  <2>2. QED
    BY <1>6, <2>1 DEF IInv, CustomsOK, Clean
<1>10. RowsChange
  <2>1. \A a \in assignment : Live(a.template)'
    BY <1>5, <1>6, RowFacts DEF RowOK, Live
  <2>2. QED
    BY <1>5, <2>1, RowFacts DEF RowsChange
<1>11. assignment' \subseteq Assignment /\ AssignmentsWellScoped' /\ PlatformOnlyRoot'
  BY <1>7, <1>10, RowsKept
<1>12. OverridesOK' /\ BaselineOK'
  BY <1>5 DEF IInv, OverridesOK, BaselineOK
<1>13. TypeOK'
  BY <1>5, <1>6, <1>8, <1>11 DEF TypeOK
<1>14. QED
  BY <1>8, <1>9, <1>11, <1>12, <1>13 DEF IInv

\* A template takes its assignments with it.
LEMMA DeleteRoleKeeps ==
    ASSUME IInv, NEW h \in Handlers, DeleteRole(h)
    PROVE  IInv'
<1> TypeOK
  BY DEF IInv
<1>1. PICK t \in Customs : t = job[h].template
  BY DEF DeleteRole, IInv, JobsOK, JobOK
<1>2. /\ custom[t].state = "live" /\ custom' = [custom EXCEPT ![t].state = "gone"]
      /\ assignment' = {a \in assignment : a.template # t}
      /\ job' = [job EXCEPT ![h] = Idle]
      /\ UNCHANGED <<orgs, user, building, override, baseline>>
  BY <1>1 DEF DeleteRole, Finish
<1>3. /\ \A y \in Customs : /\ custom'[y].state = IF y = t THEN "gone" ELSE custom[y].state
                            /\ custom'[y].org = custom[y].org
                            /\ custom'[y].scope = custom[y].scope
                            /\ custom'[y].keys = custom[y].keys
      /\ custom' \in [Customs -> CustomRow]
  BY <1>2 DEF TypeOK, CustomRow
<1>4. Settled
  BY <1>2, <1>3 DEF Settled, TypeOK
<1>5. job' \in [Handlers -> Job] /\ JobsOK'
  BY <1>2, <1>4, IdleJob, JobStep
<1>6. CustomsOK'
  BY <1>2, <1>3 DEF IInv, CustomsOK, Clean
<1>7. RowsChange
  <2>1. \A a \in assignment' : a \in assignment /\ Live(a.template)'
    BY <1>2, <1>3, RowFacts DEF RowOK, Live
  <2>2. QED
    BY <1>2, <2>1, RowFacts DEF RowsChange
<1>8. assignment' \subseteq Assignment /\ AssignmentsWellScoped' /\ PlatformOnlyRoot'
  BY <1>4, <1>7, RowsKept
<1>9. OverridesOK' /\ BaselineOK'
  BY <1>2 DEF IInv, OverridesOK, BaselineOK
<1>10. TypeOK'
  BY <1>2, <1>3, <1>5, <1>8 DEF TypeOK
<1>11. QED
  BY <1>5, <1>6, <1>8, <1>9, <1>10 DEF IInv

\* A step that writes assignment rows and nothing else keeps the invariant if the rows it
\* adds are rows of an organisation.
LEMMA AssignmentsOnly ==
    ASSUME IInv, NEW h \in Handlers, job' = [job EXCEPT ![h] = Idle], RowsChange,
           UNCHANGED <<orgs, user, building, custom, override, baseline>>
    PROVE  IInv'
<1>1. Settled
  BY DEF Settled, IInv, TypeOK
<1>2. job' \in [Handlers -> Job] /\ JobsOK'
  BY <1>1, IdleJob, JobStep
<1>3. assignment' \subseteq Assignment /\ AssignmentsWellScoped' /\ PlatformOnlyRoot'
  BY <1>1, RowsKept
<1>4. CustomsOK' /\ OverridesOK' /\ BaselineOK'
  BY DEF IInv, CustomsOK, OverridesOK, BaselineOK
<1>5. TypeOK'
  BY <1>2, <1>3 DEF IInv, TypeOK
<1>6. QED
  BY <1>2, <1>3, <1>4, <1>5 DEF IInv

\* The writes to assignments keep the invariant.
LEMMA AssignmentsKeep ==
    ASSUME IInv, NEW h \in Handlers,
           CreateAccessAssignment(h) \/ DeleteAccessAssignment(h) \/ GrantOrgAdmin(h)
    PROVE  IInv'
<1> TypeOK
  BY DEF IInv
<1>1. PICK x \in Job : x = job[h]
  BY DEF TypeOK
<1>2. JobOK(x)
  BY <1>1 DEF IInv, JobsOK
<1>3. ASSUME UNCHANGED <<orgs, user, building, custom>>
      PROVE  /\ \A a \in assignment : Live(a.template)'
             /\ \A a : RowOK(a) => RowOK(a)'
  BY <1>3, RowFacts DEF RowOK, Live, TemplateScope, TemplateOrg
<1>4. CASE CreateAccessAssignment(h)
  <2> DEFINE new == [user |-> x.user, template |-> x.template, scope |-> x.scope,
                     building |-> x.building]
  <2>1. /\ x.pc = "assign" /\ Live(x.template)
        /\ x.building # NoId => building[x.building] # "gone"
        /\ assignment' = assignment \cup {new}
        /\ UNCHANGED <<orgs, user, building, custom, override, baseline>>
        /\ job' = [job EXCEPT ![h] = Idle]
    BY <1>1, <1>4 DEF CreateAccessAssignment, Finish
  <2>2. AssignOK(x)
    BY <1>2, <2>1 DEF JobOK
  <2>3. new \in Assignment
    BY <2>2 DEF Assignment, AssignOK, Job
  <2>4. /\ new.user = x.user /\ new.template = x.template /\ new.scope = x.scope
        /\ new.building = x.building
    OBVIOUS
  <2> HIDE DEF new
  <2>5. RowOK(new)
    BY <2>1, <2>2, <2>4 DEF RowOK, AssignOK
  <2>6. new.template # <<NoId, PlatformTemplate>>
    <3> SUFFICES ASSUME x.template = <<NoId, PlatformTemplate>> PROVE FALSE
      BY <2>4
    <3>1. x.template \notin Customs
      BY AccessAssumption
    <3>2. QED
      BY <2>2, <3>1, AccessAssumption DEF AssignOK, TemplateOrg
  <2>7. RowOK(new)'
    BY <1>3, <2>1, <2>5
  <2>8. RowsChange
    BY <1>3, <2>1, <2>3, <2>6, <2>7, RowFacts DEF RowsChange
  <2>9. QED
    BY <2>1, <2>8, AssignmentsOnly
<1>5. CASE DeleteAccessAssignment(h)
  <2>1. /\ assignment' \subseteq assignment
        /\ UNCHANGED <<orgs, user, building, custom, override, baseline>>
        /\ job' = [job EXCEPT ![h] = Idle]
    BY <1>5 DEF DeleteAccessAssignment, Finish
  <2>2. RowsChange
    BY <1>3, <2>1, RowFacts DEF RowsChange
  <2>3. QED
    BY <2>1, <2>2, AssignmentsOnly
<1>6. CASE GrantOrgAdmin(h)
  <2> DEFINE new == [user |-> x.user, template |-> <<x.org, "org_admin">>, scope |-> "ORG",
                     building |-> NoId]
  <2>1. /\ x.pc = "orgAdmin"
        /\ assignment' = assignment \cup {new}
        /\ UNCHANGED <<orgs, user, building, custom, override, baseline>>
        /\ job' = [job EXCEPT ![h] = Idle]
    BY <1>1, <1>6 DEF GrantOrgAdmin, Finish
  <2>2. x.user \in Users /\ x.org \in orgs /\ x.org \in Orgs /\ user[x.user] = x.org
    BY <1>2, <2>1 DEF JobOK, TypeOK
  <2>3. PICK t : t = <<x.org, "org_admin">>
    OBVIOUS
  <2>4. t \in Templates /\ t \notin Customs /\ t[1] = x.org /\ t[2] = "org_admin"
    BY <2>2, <2>3, AccessAssumption DEF Templates, Systems, SystemTemplates
  <2>5. new \in Assignment
    BY <2>2, <2>3, <2>4 DEF Assignment, Nullable
  <2>6. /\ new.user = x.user /\ new.template = t /\ new.scope = "ORG"
        /\ new.building = NoId
    BY <2>3
  <2> HIDE DEF new
  <2>7. RowOK(new)
    BY <2>2, <2>4, <2>6 DEF RowOK, Live, TemplateScope, TemplateOrg, SystemScope
  <2>8. new.template # <<NoId, PlatformTemplate>>
    BY <2>4, <2>6 DEF PlatformTemplate
  <2>9. RowOK(new)'
    BY <1>3, <2>1, <2>7
  <2>10. RowsChange
    BY <1>3, <2>1, <2>5, <2>8, <2>9, RowFacts DEF RowsChange
  <2>11. QED
    BY <2>1, <2>10, AssignmentsOnly
<1>7. QED
  BY <1>4, <1>5, <1>6

\* Replacing overrides keeps the invariant: what another transaction inserted meanwhile
\* is as clean as what this one inserts.
LEMMA ReplaceOverridesKeeps ==
    ASSUME IInv, NEW h \in Handlers, ReplaceUserPermissions(h)
    PROVE  IInv'
<1> TypeOK
  BY DEF IInv
<1>1. PICK x \in Job : x = job[h]
  BY DEF TypeOK
<1>2. PICK u \in Users : u = x.user
  BY <1>1 DEF ReplaceUserPermissions, IInv, JobsOK, JobOK
<1>3. Clean({r[1] : r \in x.rows})
  BY <1>1 DEF ReplaceUserPermissions, IInv, JobsOK, JobOK
<1>4. PICK kept \in SUBSET Rows : kept = override[u] \ x.doomed
  BY DEF TypeOK
<1>5. PICK new \in SUBSET x.rows : new = {r \in x.rows : \A k \in kept : k[1] # r[1]}
  OBVIOUS
<1> DEFINE G == {g \in Handlers : job[g].pc = "replaceOverrides" /\ job[g].user = u}
<1>6. /\ override' = [override EXCEPT ![u] = kept \cup new]
      /\ baseline' = [baseline EXCEPT ![u] = FALSE]
      /\ job' = [g \in Handlers |-> IF g = h THEN Idle
                                    ELSE IF g \in G THEN [job[g] EXCEPT !.doomed = @ \ new]
                                    ELSE job[g]]
      /\ UNCHANGED <<orgs, user, building, custom, assignment>>
  BY <1>1, <1>2, <1>4, <1>5 DEF ReplaceUserPermissions
<1>7. Settled
  BY <1>6 DEF Settled, TypeOK
<1> HIDE DEF G
<1>8. job' \in [Handlers -> Job] /\ JobsOK'
  BY <1>6, <1>7, JobShift
<1>9. override' \in [Users -> SUBSET Rows] /\ baseline' \in [Users -> BOOLEAN]
  BY <1>6 DEF TypeOK, Job
<1>10. OverridesOK'
  <2> SUFFICES ASSUME NEW v \in Users PROVE Clean({r[1] : r \in override'[v]})
    BY DEF OverridesOK, Clean
  <2>1. Clean({r[1] : r \in override[v]})
    BY DEF IInv, OverridesOK
  <2>2. CASE v = u
    <3>1. override'[v] = kept \cup new
      BY <1>6, <2>2 DEF TypeOK
    <3>2. QED
      BY <1>3, <1>4, <2>1, <2>2, <3>1 DEF Clean
  <2>3. CASE v # u
    BY <1>6, <2>1, <2>3 DEF TypeOK
  <2>4. QED
    BY <2>2, <2>3
<1>11. BaselineOK'
  BY <1>6 DEF IInv, BaselineOK, TypeOK
<1>12. AssignmentsWellScoped' /\ CustomsOK' /\ PlatformOnlyRoot'
  BY <1>6 DEF IInv, AssignmentsWellScoped, Live, TemplateScope, TemplateOrg, CustomsOK,
     PlatformOnlyRoot
<1>13. TypeOK'
  BY <1>6, <1>8, <1>9 DEF TypeOK
<1>14. QED
  BY <1>8, <1>10, <1>11, <1>12, <1>13 DEF IInv

\* The rows of a resident: a row for each key of the baseline, and none of the platform's.
LEMMA ResidentRowsFacts ==
    ASSUME IInv, NEW u \in Users
    PROVE  /\ ResidentRows(u) \subseteq Rows
           /\ \A r \in ResidentRows(u) : r[1] \in Catalogue /\ ~IsPlatformPermissionKey(r[1])
           /\ \A k \in ResidentBaseline : \/ <<k, "ALLOW">> \in ResidentRows(u)
                                          \/ <<k, "DENY">> \in ResidentRows(u)
<1>1. override[u] \subseteq Rows /\ Clean({r[1] : r \in override[u]})
  BY DEF IInv, TypeOK, OverridesOK
<1>2. \A r \in ResidentRows(u) : \/ r \in override[u]
                                 \/ \E k \in ResidentBaseline : r = <<k, "ALLOW">>
  BY DEF ResidentRows
<1>3. \A k \in ResidentBaseline : k \in Catalogue /\ ~IsPlatformPermissionKey(k)
  BY BaselineClean DEF Clean
<1>4. ResidentRows(u) \subseteq Rows
  BY <1>1, <1>2, <1>3 DEF Rows
<1>5. \A r \in ResidentRows(u) : r[1] \in Catalogue /\ ~IsPlatformPermissionKey(r[1])
  <2> SUFFICES ASSUME NEW r \in ResidentRows(u)
               PROVE  r[1] \in Catalogue /\ ~IsPlatformPermissionKey(r[1])
    OBVIOUS
  <2>1. CASE r \in override[u]
    BY <1>1, <2>1 DEF Clean
  <2>2. ASSUME NEW k \in ResidentBaseline, r = <<k, "ALLOW">>
        PROVE  r[1] \in Catalogue /\ ~IsPlatformPermissionKey(r[1])
    <3>1. r[1] = k
      BY <2>2
    <3>2. QED
      BY <1>3, <3>1
  <2>3. QED
    BY <1>2, <2>1, <2>2
<1>6. ASSUME NEW k \in ResidentBaseline
      PROVE  <<k, "ALLOW">> \in ResidentRows(u) \/ <<k, "DENY">> \in ResidentRows(u)
  <2>1. CASE \A r \in override[u] : r[1] # k
    BY <2>1 DEF ResidentRows
  <2>2. CASE \E r \in override[u] : r[1] = k
    <3>1. PICK r \in override[u] : r[1] = k
      BY <2>2
    <3>2. r = <<k, "ALLOW">> \/ r = <<k, "DENY">>
      BY <1>1, <3>1 DEF Rows
    <3>3. QED
      BY <3>2 DEF ResidentRows
  <2>3. QED
    BY <2>1, <2>2
<1>7. QED
  BY <1>4, <1>5, <1>6

\* Provisioning keeps the invariant: whoever is linked to an organisation had no row in
\* another one.
LEMMA ProvisionKeeps ==
    ASSUME IInv, NEW actor \in Users, NEW u \in Users, NEW resident \in BOOLEAN,
           NEW sameOrg \in BOOLEAN,
           NEW grants \in {{}} \cup {{[template |-> t, building |-> b]} :
                                     t \in Handed, b \in Nullable(Buildings)},
           ProvisionOrgUser(actor, u, resident, sameOrg, grants)
    PROVE  IInv'
<1> TypeOK
  BY DEF IInv
<1>1. PICK o \in Orgs : o = user[actor]
  BY ManagersAreMembers DEF ProvisionOrgUser
<1>2. /\ user[u] \in {"absent", o} \/ user[u] = NoId
      /\ user' = [user EXCEPT ![u] = o]
      /\ UNCHANGED <<orgs, building, custom, job>>
  BY <1>1 DEF ProvisionOrgUser
<1>3. Settled
  BY <1>2, AccessAssumption DEF Settled, TypeOK
<1>4. job' \in [Handlers -> Job] /\ JobsOK'
  BY <1>2, <1>3, SameJobs
<1>5. /\ override' \in [Users -> SUBSET Rows] /\ baseline' \in [Users -> BOOLEAN]
      /\ OverridesOK' /\ BaselineOK'
  <2>1. CASE resident
    <3>1. PICK rows : rows = ResidentRows(u)
      OBVIOUS
    <3>2. /\ override' = [override EXCEPT ![u] = rows]
          /\ baseline' = [baseline EXCEPT ![u] = TRUE]
      BY <2>1, <3>1 DEF ProvisionOrgUser
    <3>3. /\ rows \subseteq Rows
          /\ \A r \in rows : r[1] \in Catalogue /\ ~IsPlatformPermissionKey(r[1])
          /\ \A k \in ResidentBaseline : <<k, "ALLOW">> \in rows \/ <<k, "DENY">> \in rows
      BY <3>1, ResidentRowsFacts
    <3>4. \A v \in Users : override'[v] = IF v = u THEN rows ELSE override[v]
      BY <3>2 DEF TypeOK
    <3>5. OverridesOK'
      BY <3>3, <3>4 DEF IInv, OverridesOK, Clean
    <3>6. BaselineOK'
      <4> SUFFICES ASSUME NEW v \in Users, baseline'[v]
                   PROVE  /\ user'[v] \in Orgs
                          /\ \A k \in ResidentBaseline : \/ <<k, "ALLOW">> \in override'[v]
                                                         \/ <<k, "DENY">> \in override'[v]
        BY DEF BaselineOK
      <4>1. CASE v = u
        BY <1>2, <3>3, <3>4, <4>1 DEF TypeOK
      <4>2. CASE v # u
        BY <1>2, <3>2, <3>4, <4>2 DEF TypeOK, IInv, BaselineOK
      <4>3. QED
        BY <4>1, <4>2
    <3>7. QED
      BY <3>2, <3>3, <3>5, <3>6 DEF TypeOK
  <2>2. CASE ~resident
    <3>1. UNCHANGED <<override, baseline>>
      BY <2>2 DEF ProvisionOrgUser
    <3>2. QED
      BY <1>2, <1>3, <3>1 DEF IInv, TypeOK, OverridesOK, BaselineOK, Settled, Clean
  <2>3. QED
    BY <2>1, <2>2
<1>6. RowsChange
  <2>1. \A t : /\ Live(t)' <=> Live(t)
               /\ TemplateScope(t)' = TemplateScope(t) /\ TemplateOrg(t)' = TemplateOrg(t)
    BY <1>2 DEF Live, TemplateScope, TemplateOrg
  <2>2. ASSUME NEW a \in assignment', a \notin assignment
        PROVE  a \in Assignment /\ RowOK(a)' /\ a.template # <<NoId, PlatformTemplate>>
    <3>1. PICK g \in grants : a = [user |-> u, template |-> g.template,
                                   scope |-> TemplateScope(g.template), building |-> g.building]
      BY <2>2 DEF ProvisionOrgUser
    <3>2. PICK t \in Handed, b \in Nullable(Buildings) :
             g = [template |-> t, building |-> b]
      OBVIOUS
    <3>3. g.template = t /\ g.building = b
      BY <3>2
    <3>4. Assignable(t, b, o)
      BY <1>1, <3>3 DEF ProvisionOrgUser
    <3>5. /\ t \in Templates /\ t # <<NoId, PlatformTemplate>>
          /\ TemplateOrg(t) = o /\ Live(t)
          /\ TemplateScope(t) \in {"ORG", "BUILDING"}
          /\ (TemplateScope(t) = "ORG") <=> (b = NoId)
          /\ b # NoId => building[b] = o
      BY <3>4, AssignableRow
    <3>6. PICK s \in {"ORG", "BUILDING"} : s = TemplateScope(t)
      BY <3>5
    <3>7. a = [user |-> u, template |-> t, scope |-> s, building |-> b]
      BY <3>1, <3>3, <3>6
    <3>8. a \in Assignment /\ a.user = u /\ a.template = t /\ a.scope = s /\ a.building = b
      BY <3>5, <3>7 DEF Assignment
    <3>9. user'[u] = o
      BY <1>2 DEF TypeOK
    <3>10. RowOK(a)'
      BY <1>2, <2>1, <3>5, <3>6, <3>8, <3>9 DEF RowOK
    <3>11. QED
      BY <3>5, <3>8, <3>10
  <2>3. ASSUME NEW a \in assignment
        PROVE  /\ a \in Assignment /\ Live(a.template)'
               /\ a.building # NoId => building'[a.building] # "gone"
    BY <1>2, <2>1, RowFacts DEF RowOK
  <2>4. QED
    BY <2>2, <2>3 DEF RowsChange
<1>7. assignment' \subseteq Assignment /\ AssignmentsWellScoped' /\ PlatformOnlyRoot'
  BY <1>3, <1>6, RowsKept
<1>8. CustomsOK'
  BY <1>2 DEF IInv, CustomsOK
<1>9. user' \in [Users -> Nullable(Orgs) \cup {"absent"}]
  BY <1>2 DEF TypeOK, Nullable
<1>10. TypeOK'
  BY <1>2, <1>4, <1>5, <1>7, <1>9 DEF TypeOK
<1>11. QED
  BY <1>4, <1>5, <1>7, <1>8, <1>10 DEF IInv

\* A step that leaves assignments, overrides and role templates alone keeps the invariant
\* if it keeps organisations and members and takes no building of a row.
LEMMA FrameKeeps ==
    ASSUME IInv, Settled, UNCHANGED <<custom, assignment, override, baseline>>,
           orgs' \subseteq Orgs, user' \in [Users -> Nullable(Orgs) \cup {"absent"}],
           building' \in [Buildings -> Nullable(Orgs) \cup {"gone"}],
           \A b \in Buildings : building'[b] = "gone" => building[b] = "gone",
           job' \in [Handlers -> Job], JobsOK'
    PROVE  IInv'
<1>1. RowsChange
  <2> SUFFICES ASSUME NEW a \in assignment
               PROVE  /\ a \in Assignment /\ Live(a.template)'
                      /\ a.building # NoId => building'[a.building] # "gone"
    BY DEF RowsChange
  <2>1. Live(a.template)'
    BY RowFacts DEF RowOK, Live, Settled
  <2>2. a.building # NoId => building'[a.building] # "gone"
    BY RowFacts DEF Assignment, Nullable
  <2>3. QED
    BY <2>1, <2>2, RowFacts
<1>2. assignment' \subseteq Assignment /\ AssignmentsWellScoped' /\ PlatformOnlyRoot'
  BY <1>1, RowsKept
<1>3. CustomsOK' /\ OverridesOK' /\ BaselineOK'
  BY DEF IInv, CustomsOK, OverridesOK, BaselineOK, Settled
<1>4. TypeOK'
  BY DEF IInv, TypeOK
<1>5. QED
  BY <1>2, <1>3, <1>4 DEF IInv

\* Organisations, their first administrators, registrations and buildings.
LEMMA PlatformKeeps ==
    ASSUME IInv,
           \/ \E actor \in Users, keyed \in BOOLEAN, o \in Orgs : CreateOrg(actor, keyed, o)
           \/ \E u \in Users : Register(u)
           \/ \E actor \in Users, b \in Buildings : CreateBuilding(actor, b)
           \/ \E h \in Handlers, actor \in Users, u \in Users, keyed \in BOOLEAN, o \in Orgs :
                  CreateOrgAdmin(h, actor, keyed, o, u)
    PROVE  IInv'
<1> TypeOK
  BY DEF IInv
<1>1. ASSUME NEW actor \in Users, NEW keyed \in BOOLEAN, NEW o \in Orgs, CreateOrg(actor, keyed, o)
      PROVE  IInv'
  <2>1. /\ orgs' = orgs \cup {o}
        /\ UNCHANGED <<user, building, custom, assignment, override, baseline, job>>
    BY <1>1 DEF CreateOrg
  <2>2. Settled
    BY <2>1 DEF Settled, TypeOK
  <2>3. job' \in [Handlers -> Job] /\ JobsOK'
    BY <2>1, <2>2, SameJobs
  <2>4. QED
    BY <2>1, <2>2, <2>3, FrameKeeps DEF TypeOK
<1>2. ASSUME NEW u \in Users, Register(u) PROVE IInv'
  <2>1. /\ user[u] = "absent" /\ user' = [user EXCEPT ![u] = NoId]
        /\ UNCHANGED <<orgs, building, custom, assignment, override, baseline, job>>
    BY <1>2 DEF Register
  <2>2. Settled
    BY <2>1, AccessAssumption DEF Settled, TypeOK
  <2>3. job' \in [Handlers -> Job] /\ JobsOK'
    BY <2>1, <2>2, SameJobs
  <2>4. user' \in [Users -> Nullable(Orgs) \cup {"absent"}]
    BY <2>1 DEF TypeOK, Nullable
  <2>5. QED
    BY <2>1, <2>2, <2>3, <2>4, FrameKeeps DEF TypeOK
<1>3. ASSUME NEW actor \in Users, NEW b \in Buildings, CreateBuilding(actor, b) PROVE IInv'
  <2>1. PICK o \in Orgs : o = user[actor]
    BY <1>3, ManagersAreMembers DEF CreateBuilding
  <2>2. /\ building[b] = NoId /\ building' = [building EXCEPT ![b] = o]
        /\ UNCHANGED <<orgs, user, custom, assignment, override, baseline, job>>
    BY <1>3, <2>1 DEF CreateBuilding
  <2>3. Settled
    BY <2>2, AccessAssumption DEF Settled, TypeOK
  <2>4. job' \in [Handlers -> Job] /\ JobsOK'
    BY <2>2, <2>3, SameJobs
  <2>5. /\ building' \in [Buildings -> Nullable(Orgs) \cup {"gone"}]
        /\ \A x \in Buildings : building'[x] = "gone" => building[x] = "gone"
    BY <2>2, AccessAssumption DEF TypeOK, Nullable
  <2>6. QED
    BY <2>2, <2>3, <2>4, <2>5, FrameKeeps DEF TypeOK
<1>4. ASSUME NEW h \in Handlers, NEW actor \in Users, NEW u \in Users, NEW keyed \in BOOLEAN, NEW o \in Orgs,
             CreateOrgAdmin(h, actor, keyed, o, u)
      PROVE  IInv'
  <2> DEFINE j == [Idle EXCEPT !.pc = "orgAdmin", !.user = u, !.org = o]
  <2>1. /\ o \in orgs /\ user[u] = "absent" /\ user' = [user EXCEPT ![u] = o]
        /\ job' = [job EXCEPT ![h] = j]
        /\ UNCHANGED <<orgs, building, custom, assignment, override, baseline>>
    BY <1>4 DEF CreateOrgAdmin, Begin
  <2>2. j \in Job /\ j.pc = "orgAdmin" /\ j.user = u /\ j.org = o
    BY DEF Idle, Job, Nullable
  <2> HIDE DEF j
  <2>3. Settled
    BY <2>1, AccessAssumption DEF Settled, TypeOK
  <2>4. JobOK(j)'
    BY <2>1, <2>2 DEF JobOK, TypeOK
  <2>5. job' \in [Handlers -> Job] /\ JobsOK'
    BY <2>1, <2>2, <2>3, <2>4, JobStep
  <2>6. user' \in [Users -> Nullable(Orgs) \cup {"absent"}]
    BY <2>1 DEF TypeOK, Nullable
  <2>7. QED
    BY <2>1, <2>3, <2>5, <2>6, FrameKeeps DEF TypeOK
<1>5. QED
  BY <1>1, <1>2, <1>3, <1>4

\* A building takes its assignments with it.
LEMMA DeleteBuildingKeeps ==
    ASSUME IInv, NEW actor \in Users, NEW b \in Buildings, DeleteBuilding(actor, b)
    PROVE  IInv'
<1> TypeOK
  BY DEF IInv
<1>1. /\ building' = [building EXCEPT ![b] = "gone"]
      /\ assignment' = {a \in assignment : a.building # b}
      /\ UNCHANGED <<orgs, user, custom, override, baseline, job>>
  BY DEF DeleteBuilding
<1>2. Settled
  BY <1>1 DEF Settled, TypeOK
<1>3. job' \in [Handlers -> Job] /\ JobsOK'
  BY <1>1, <1>2, SameJobs
<1>4. RowsChange
  <2> SUFFICES ASSUME NEW a \in assignment, a.building # b
               PROVE  /\ a \in Assignment /\ Live(a.template)'
                      /\ a.building # NoId => building'[a.building] # "gone"
    BY <1>1 DEF RowsChange
  <2>1. Live(a.template)'
    BY <1>1, RowFacts DEF RowOK, Live
  <2>2. a.building # NoId => building'[a.building] # "gone"
    BY <1>1, RowFacts DEF Assignment, Nullable, TypeOK
  <2>3. QED
    BY <2>1, <2>2, RowFacts
<1>5. assignment' \subseteq Assignment /\ AssignmentsWellScoped' /\ PlatformOnlyRoot'
  BY <1>2, <1>4, RowsKept
<1>6. CustomsOK' /\ OverridesOK' /\ BaselineOK'
  BY <1>1 DEF IInv, CustomsOK, OverridesOK, BaselineOK
<1>7. TypeOK'
  BY <1>1, <1>3, <1>5 DEF TypeOK
<1>8. QED
  BY <1>3, <1>5, <1>6, <1>7 DEF IInv

\* The seeded database satisfies the invariant.
LEMMA InitIInv == Init => IInv
<1> SUFFICES ASSUME Init PROVE IInv
  OBVIOUS
<1>1. PICK a : a = [user |-> Root, template |-> <<NoId, PlatformTemplate>>, scope |-> "ORG",
                    building |-> NoId] /\ assignment = {a}
  BY DEF Init
<1>2. PICK t : t = <<NoId, PlatformTemplate>>
  OBVIOUS
<1>3. t \in Templates /\ t \notin Customs /\ t[1] = NoId /\ t[2] = PlatformTemplate
  BY <1>2, AccessAssumption DEF Templates, Systems
<1>4. /\ a \in Assignment /\ a.user = Root /\ a.template = t /\ a.scope = "ORG"
      /\ a.building = NoId
  BY <1>1, <1>2, <1>3, AccessAssumption DEF Assignment, Nullable
<1>5. AssignmentsWellScoped /\ PlatformOnlyRoot
  BY <1>1, <1>2, <1>3, <1>4 DEF AssignmentsWellScoped, PlatformOnlyRoot, Live, TemplateScope,
     SystemScope
<1>6. JobsOK
  <2>1. \A h \in Handlers : job[h].pc = "idle"
    BY DEF Init, Idle
  <2>2. QED
    BY <2>1 DEF JobsOK, JobOK
<1>7. CustomsOK /\ OverridesOK /\ BaselineOK
  BY DEF Init, CustomsOK, OverridesOK, BaselineOK, Clean
<1>8. TypeOK
  <2>1. custom \in [Customs -> CustomRow]
    BY DEF Init, CustomRow, Nullable
  <2>2. job \in [Handlers -> Job]
    BY IdleJob DEF Init
  <2>3. QED
    BY <1>1, <1>4, <2>1, <2>2 DEF Init, TypeOK, Nullable
<1>9. QED
  BY <1>5, <1>6, <1>7, <1>8 DEF IInv

\* Every step preserves the invariant.
LEMMA NextIInv == IInv /\ [Next]_vars => IInv'
<1> SUFFICES ASSUME IInv, [Next]_vars PROVE IInv'
  OBVIOUS
<1>1. CASE UNCHANGED vars
  <2>1. Settled
    BY <1>1 DEF vars, Settled, IInv, TypeOK
  <2>2. job' \in [Handlers -> Job] /\ JobsOK'
    BY <1>1, <2>1, SameJobs DEF vars
  <2>3. QED
    BY <1>1, <2>1, <2>2, FrameKeeps DEF vars, IInv, TypeOK
<1>2. CASE AccountStep
  BY <1>2, ProvisionKeeps, PlatformKeeps, DeleteBuildingKeeps DEF AccountStep
<1>3. ASSUME NEW h \in Handlers, RoleStep(h) PROVE IInv'
  BY <1>3, RoleChecks, CreateRoleKeeps, ReplaceRoleKeeps, DeleteRoleKeeps DEF RoleStep
<1>4. ASSUME NEW h \in Handlers, UserAccessStep(h) PROVE IInv'
  BY <1>4, UserChecks, AssignmentsKeep, ReplaceOverridesKeeps DEF UserAccessStep
<1>5. ASSUME NEW h \in Handlers, GrantOrgAdmin(h) \/ Abandon(h) PROVE IInv'
  BY <1>5, AssignmentsKeep, UserChecks
<1>6. QED
  BY <1>1, <1>2, <1>3, <1>4, <1>5, PlatformKeeps DEF Next, HandlerStep

\* The invariant that the theorems below are read off.
LEMMA Inductive == Spec => []IInv
BY InitIInv, NextIInv, PTL DEF Spec

------------------------------------------------------------------------------
(* Types and assignments.                                                  *)

\* Rows, accounts and request records keep their types, whatever callers send.
THEOREM TypeCorrect == Spec => []TypeOK
<1>1. IInv => TypeOK
  BY DEF IInv
<1>2. QED
  BY <1>1, Inductive, PTL

\* However the checks of createAccessAssignment and provisionOrgUser interleave with the
\* deletion of roles and buildings, every assignment row points at a template that exists
\* in the organisation of its user, and at a building of that organisation.
THEOREM WellScoped == Spec => []AssignmentsWellScoped
<1>1. IInv => AssignmentsWellScoped
  BY DEF IInv
<1>2. QED
  BY <1>1, Inductive, PTL

------------------------------------------------------------------------------
(* The routes and the tables.                                              *)

\* A row of the route table.
LEMMA RouteRow ==
    ASSUME NEW H, NEW g, NEW k, NEW s, NEW r \in Route(H, g, k, s)
    PROVE  r.guards = g /\ r.key = k /\ r.scope = s
BY DEF Route

\* The keys in front of the platform's routes are the platform's; a staff route asks for
\* a key of the administrators of an organisation, and its building, if it needs one, is
\* found in the path or in the row.
StaffFits(r) ==
    /\ "platform" \in r.guards => IsPlatformPermissionKey(r.key)
    /\ "org" \in r.guards /\ r.key # NoKey =>
           /\ "platform" \notin r.guards /\ "owner" \notin r.guards
           /\ "read" \in r.guards \/ "write" \in r.guards => r.scope # "none"
           /\ r.key \in OrgAdminKeys

\* A resident route asks for membership of an organisation and for a key of the resident
\* baseline, or for no key.
ResidentFits(r) ==
    /\ r.guards \cap {"read", "write", "platform", "owner"} = {}
    /\ r.key = NoKey \/ r.key \in ResidentBaseline

\* Each staff controller fits the keys of the organisation's administrators.
LEMMA StaffRoutesFit ==
    ASSUME NEW r \in OtherRoutes
    PROVE  StaffFits(r)
<1>1. r \in PermissionsController => StaffFits(r)
  BY RouteRow DEF PermissionsController, Signed, NoKey, StaffFits, OrgAdminKeys,
     IsPlatformPermissionKey, PlatformAreas
<1>2. r \in RolesLegacyController => StaffFits(r)
  BY RouteRow DEF RolesLegacyController, Perm, NoKey, StaffFits, OrgAdminKeys,
     IsPlatformPermissionKey, PlatformAreas
<1>3. r \in RolesController => StaffFits(r)
  BY RouteRow DEF RolesController, Perm, NoKey, StaffFits, OrgAdminKeys,
     IsPlatformPermissionKey, PlatformAreas
<1>4. r \in UserAccessController => StaffFits(r)
  BY RouteRow DEF UserAccessController, Perm, NoKey, StaffFits, OrgAdminKeys,
     IsPlatformPermissionKey, PlatformAreas
<1>5. r \in AuthController => StaffFits(r)
  BY RouteRow DEF AuthController, Open, Refresh, Signed, NoKey, StaffFits, OrgAdminKeys,
     IsPlatformPermissionKey, PlatformAreas
<1>6. r \in BroadcastsController => StaffFits(r)
  BY RouteRow DEF BroadcastsController, AnyScope, NoKey, StaffFits, OrgAdminKeys,
     IsPlatformPermissionKey, PlatformAreas
<1>7. r \in BuildingAmenitiesController => StaffFits(r)
  BY RouteRow DEF BuildingAmenitiesController, Read, Write, NoKey, StaffFits,
     OrgAdminKeys, IsPlatformPermissionKey, PlatformAreas
<1>8. r \in BuildingAssignmentsController => StaffFits(r)
  BY RouteRow DEF BuildingAssignmentsController, Read, NoKey, StaffFits, OrgAdminKeys,
     IsPlatformPermissionKey, PlatformAreas
<1>9. r \in BuildingsController => StaffFits(r)
  BY RouteRow DEF BuildingsController, Org, Perm, Read, NoKey, StaffFits, OrgAdminKeys,
     IsPlatformPermissionKey, PlatformAreas
<1>10. r \in DashboardController => StaffFits(r)
  BY RouteRow DEF DashboardController, Perm, NoKey, StaffFits, OrgAdminKeys,
     IsPlatformPermissionKey, PlatformAreas
<1>11. r \in HealthController => StaffFits(r)
  BY RouteRow DEF HealthController, Open, NoKey, StaffFits, OrgAdminKeys,
     IsPlatformPermissionKey, PlatformAreas
<1>12. r \in ContractsController => StaffFits(r)
  BY RouteRow DEF ContractsController, Perm, Write, NoKey, StaffFits, OrgAdminKeys,
     IsPlatformPermissionKey, PlatformAreas
<1>13. r \in ContractsMoveRequests => StaffFits(r)
  BY RouteRow DEF ContractsMoveRequests, Org, Perm, Read, NoKey, StaffFits,
     OrgAdminKeys, IsPlatformPermissionKey, PlatformAreas
<1>14. r \in LeaseAccessCardsController => StaffFits(r)
  BY RouteRow DEF LeaseAccessCardsController, Perm, NoKey, StaffFits, OrgAdminKeys,
     IsPlatformPermissionKey, PlatformAreas
<1>15. r \in LeaseDocumentsController => StaffFits(r)
  BY RouteRow DEF LeaseDocumentsController, Perm, NoKey, StaffFits, OrgAdminKeys,
     IsPlatformPermissionKey, PlatformAreas
<1>16. r \in LeaseLifecycleController => StaffFits(r)
  BY RouteRow DEF LeaseLifecycleController, PermWrite, NoKey, StaffFits, OrgAdminKeys,
     IsPlatformPermissionKey, PlatformAreas
<1>17. r \in LeaseOccupantsController => StaffFits(r)
  BY RouteRow DEF LeaseOccupantsController, Perm, NoKey, StaffFits, OrgAdminKeys,
     IsPlatformPermissionKey, PlatformAreas
<1>18. r \in LeaseParkingStickersController => StaffFits(r)
  BY RouteRow DEF LeaseParkingStickersController, Perm, NoKey, StaffFits, OrgAdminKeys,
     IsPlatformPermissionKey, PlatformAreas
<1>19. r \in LeasesController => StaffFits(r)
  BY RouteRow DEF LeasesController, Perm, PermRead, NoKey, StaffFits, OrgAdminKeys,
     IsPlatformPermissionKey, PlatformAreas
<1>20. r \in BuildingRequestsController => StaffFits(r)
  BY RouteRow DEF BuildingRequestsController, Read, Write, NoKey, StaffFits,
     OrgAdminKeys, IsPlatformPermissionKey, PlatformAreas
<1>21. r \in BuildingRequestsComments => StaffFits(r)
  BY RouteRow DEF BuildingRequestsComments, Read, NoKey, StaffFits, OrgAdminKeys,
     IsPlatformPermissionKey, PlatformAreas
<1>22. r \in BuildingRequestsApprovals => StaffFits(r)
  BY RouteRow DEF BuildingRequestsApprovals, Write, NoKey, StaffFits, OrgAdminKeys,
     IsPlatformPermissionKey, PlatformAreas
<1>23. r \in ProviderRequestsController => StaffFits(r)
  BY RouteRow DEF ProviderRequestsController, Signed, NoKey, StaffFits, OrgAdminKeys,
     IsPlatformPermissionKey, PlatformAreas
<1>24. r \in MessagingController => StaffFits(r)
  BY RouteRow DEF MessagingController, AnyScope, NoKey, StaffFits, OrgAdminKeys,
     IsPlatformPermissionKey, PlatformAreas
<1>25. r \in OwnerMessagingController => StaffFits(r)
  BY RouteRow DEF OwnerMessagingController, Owner, NoKey, StaffFits, OrgAdminKeys,
     IsPlatformPermissionKey, PlatformAreas
<1>26. r \in DevNotificationsController => StaffFits(r)
  BY RouteRow DEF DevNotificationsController, Org, NoKey, StaffFits, OrgAdminKeys,
     IsPlatformPermissionKey, PlatformAreas
<1>27. r \in NotificationsController => StaffFits(r)
  BY RouteRow DEF NotificationsController, Perm, NoKey, StaffFits, OrgAdminKeys,
     IsPlatformPermissionKey, PlatformAreas
<1>28. r \in OwnerNotificationsController => StaffFits(r)
  BY RouteRow DEF OwnerNotificationsController, Owner, NoKey, StaffFits, OrgAdminKeys,
     IsPlatformPermissionKey, PlatformAreas
<1>29. r \in OccupanciesController => StaffFits(r)
  BY RouteRow DEF OccupanciesController, Read, Write, NoKey, StaffFits, OrgAdminKeys,
     IsPlatformPermissionKey, PlatformAreas
<1>30. r \in OrgProfileController => StaffFits(r)
  BY RouteRow DEF OrgProfileController, Org, Perm, NoKey, StaffFits, OrgAdminKeys,
     IsPlatformPermissionKey, PlatformAreas
<1>31. r \in OwnerPortfolioController => StaffFits(r)
  BY RouteRow DEF OwnerPortfolioController, Owner, NoKey, StaffFits, OrgAdminKeys,
     IsPlatformPermissionKey, PlatformAreas
<1>32. r \in OwnerProfileController => StaffFits(r)
  BY RouteRow DEF OwnerProfileController, Owner, NoKey, StaffFits, OrgAdminKeys,
     IsPlatformPermissionKey, PlatformAreas
<1>33. r \in OwnerAccessGrantsController => StaffFits(r)
  BY RouteRow DEF OwnerAccessGrantsController, Perm, NoKey, StaffFits, OrgAdminKeys,
     IsPlatformPermissionKey, PlatformAreas
<1>34. r \in OwnerPartyResolutionController => StaffFits(r)
  BY RouteRow DEF OwnerPartyResolutionController, Perm, NoKey, StaffFits, OrgAdminKeys,
     IsPlatformPermissionKey, PlatformAreas
<1>35. r \in OwnersController => StaffFits(r)
  BY RouteRow DEF OwnersController, Perm, NoKey, StaffFits, OrgAdminKeys,
     IsPlatformPermissionKey, PlatformAreas
<1>36. r \in ParkingController => StaffFits(r)
  BY RouteRow DEF ParkingController, Perm, NoKey, StaffFits, OrgAdminKeys,
     IsPlatformPermissionKey, PlatformAreas
<1>37. r \in ParkingVehicles => StaffFits(r)
  BY RouteRow DEF ParkingVehicles, Perm, NoKey, StaffFits, OrgAdminKeys,
     IsPlatformPermissionKey, PlatformAreas
<1>38. r \in PlatformDeliveryTasksController => StaffFits(r)
  BY RouteRow DEF PlatformDeliveryTasksController, Platform, NoKey, StaffFits,
     OrgAdminKeys, IsPlatformPermissionKey, PlatformAreas
<1>39. r \in PlatformOrgAdminsController => StaffFits(r)
  BY RouteRow DEF PlatformOrgAdminsController, Platform, NoKey, StaffFits, OrgAdminKeys,
     IsPlatformPermissionKey, PlatformAreas
<1>40. r \in PlatformOrgsController => StaffFits(r)
  BY RouteRow DEF PlatformOrgsController, Platform, NoKey, StaffFits, OrgAdminKeys,
     IsPlatformPermissionKey, PlatformAreas
<1>41. r \in OrgResidentsController => StaffFits(r)
  BY RouteRow DEF OrgResidentsController, Perm, NoKey, StaffFits, OrgAdminKeys,
     IsPlatformPermissionKey, PlatformAreas
<1>42. r \in ResidentDirectoryController => StaffFits(r)
  BY RouteRow DEF ResidentDirectoryController, PermRead, NoKey, StaffFits, OrgAdminKeys,
     IsPlatformPermissionKey, PlatformAreas
<1>43. r \in ResidentProfilesController => StaffFits(r)
  BY RouteRow DEF ResidentProfilesController, Perm, NoKey, StaffFits, OrgAdminKeys,
     IsPlatformPermissionKey, PlatformAreas
<1>44. r \in ResidentsController => StaffFits(r)
  BY RouteRow DEF ResidentsController, Read, Write, NoKey, StaffFits, OrgAdminKeys,
     IsPlatformPermissionKey, PlatformAreas
<1>45. r \in ProviderAccessGrantsController => StaffFits(r)
  BY RouteRow DEF ProviderAccessGrantsController, Perm, NoKey, StaffFits, OrgAdminKeys,
     IsPlatformPermissionKey, PlatformAreas
<1>46. r \in ProviderPortalController => StaffFits(r)
  BY RouteRow DEF ProviderPortalController, Signed, NoKey, StaffFits, OrgAdminKeys,
     IsPlatformPermissionKey, PlatformAreas
<1>47. r \in ServiceProvidersController => StaffFits(r)
  BY RouteRow DEF ServiceProvidersController, Perm, NoKey, StaffFits, OrgAdminKeys,
     IsPlatformPermissionKey, PlatformAreas
<1>48. r \in UnitTypesController => StaffFits(r)
  BY RouteRow DEF UnitTypesController, Perm, NoKey, StaffFits, OrgAdminKeys,
     IsPlatformPermissionKey, PlatformAreas
<1>49. r \in UnitsController => StaffFits(r)
  BY RouteRow DEF UnitsController, Read, ReadOrResident, Write, NoKey, StaffFits,
     OrgAdminKeys, IsPlatformPermissionKey, PlatformAreas
<1>50. r \in OrgUsersProvisionController => StaffFits(r)
  BY RouteRow DEF OrgUsersProvisionController, Perm, NoKey, StaffFits, OrgAdminKeys,
     IsPlatformPermissionKey, PlatformAreas
<1>51. r \in OrgUsersController => StaffFits(r)
  BY RouteRow DEF OrgUsersController, Perm, NoKey, StaffFits, OrgAdminKeys,
     IsPlatformPermissionKey, PlatformAreas
<1>52. r \in UsersController => StaffFits(r)
  BY RouteRow DEF UsersController, Perm, SignedPerm, NoKey, StaffFits, OrgAdminKeys,
     IsPlatformPermissionKey, PlatformAreas
<1>53. r \in VisitorsController => StaffFits(r)
  BY RouteRow DEF VisitorsController, Read, Write, NoKey, StaffFits, OrgAdminKeys,
     IsPlatformPermissionKey, PlatformAreas
<1>54. QED
  BY <1>1, <1>2, <1>3, <1>4, <1>5, <1>6, <1>7, <1>8, <1>9, <1>10, <1>11, <1>12, <1>13,
     <1>14, <1>15, <1>16, <1>17, <1>18, <1>19, <1>20, <1>21, <1>22, <1>23, <1>24, <1>25,
     <1>26, <1>27, <1>28, <1>29, <1>30, <1>31, <1>32, <1>33, <1>34, <1>35, <1>36, <1>37,
     <1>38, <1>39, <1>40, <1>41, <1>42, <1>43, <1>44, <1>45, <1>46, <1>47, <1>48, <1>49,
     <1>50, <1>51, <1>52, <1>53 DEF OtherRoutes

\* Each controller of the resident application fits the resident baseline.
LEMMA ResidentRoutesFit ==
    ASSUME NEW r \in ResidentRoutes
    PROVE  ResidentFits(r)
<1>1. r \in ResidentContractController => ResidentFits(r)
  BY RouteRow DEF ResidentContractController, Perm, NoKey, ResidentFits,
     ResidentBaseline
<1>2. r \in ResidentLeaseController => ResidentFits(r)
  BY RouteRow DEF ResidentLeaseController, Perm, NoKey, ResidentFits, ResidentBaseline
<1>3. r \in ResidentRequestsController => ResidentFits(r)
  BY RouteRow DEF ResidentRequestsController, Perm, NoKey, ResidentFits,
     ResidentBaseline
<1>4. r \in ResidentMessagingController => ResidentFits(r)
  BY RouteRow DEF ResidentMessagingController, Perm, NoKey, ResidentFits,
     ResidentBaseline
<1>5. r \in ResidentParkingController => ResidentFits(r)
  BY RouteRow DEF ResidentParkingController, Org, NoKey, ResidentFits, ResidentBaseline
<1>6. r \in ResidentProfileController => ResidentFits(r)
  BY RouteRow DEF ResidentProfileController, Perm, NoKey, ResidentFits, ResidentBaseline
<1>7. r \in ResidentVisitorsController => ResidentFits(r)
  BY RouteRow DEF ResidentVisitorsController, Perm, NoKey, ResidentFits,
     ResidentBaseline
<1>8. QED
  BY <1>1, <1>2, <1>3, <1>4, <1>5, <1>6, <1>7 DEF ResidentRoutes

\* Which keys a user is given, and by what.
LEMMA GivenKeys ==
    ASSUME NEW K, NEW u, NEW k \in Overridden(K, u)
    PROVE  \/ k \in K
           \/ k \in Catalogue /\ <<k, "ALLOW">> \in override[u]
BY DEF Overridden

\* No override is a key of the platform, and no template of an organisation holds one.
LEMMA KeysClean ==
    ASSUME IInv
    PROVE  /\ \A u \in Users, k \in Catalogue :
                 <<k, "ALLOW">> \in override[u] => ~IsPlatformPermissionKey(k)
           /\ \A a \in assignment : TemplateOrg(a.template) \in Orgs =>
                 \A k \in TemplateKeys(a.template) : ~IsPlatformPermissionKey(k)
           /\ \A a \in assignment : TemplateOrg(a.template) = NoId => a.user = Root
<1>1. ASSUME NEW u \in Users, NEW k \in Catalogue, <<k, "ALLOW">> \in override[u]
      PROVE  ~IsPlatformPermissionKey(k)
  <2>1. PICK r \in override[u] : r = <<k, "ALLOW">>
    BY <1>1
  <2>2. r[1] = k
    BY <2>1
  <2>3. QED
    BY <2>2 DEF IInv, OverridesOK, Clean
<1>2. ASSUME NEW a \in assignment, TemplateOrg(a.template) \in Orgs,
             NEW k \in TemplateKeys(a.template)
      PROVE  ~IsPlatformPermissionKey(k)
  <2>1. a.template \in Templates
    BY DEF IInv, TypeOK, Assignment
  <2>2. CASE a.template \in Customs
    BY <1>2, <2>2 DEF TemplateKeys, IInv, CustomsOK, Clean
  <2>3. CASE a.template \notin Customs
    <3>1. a.template[1] \in Orgs
      BY <1>2, <2>3 DEF TemplateOrg
    <3>2. a.template[2] \in SystemTemplates
      BY <2>1, <2>3, <3>1, AccessAssumption DEF Templates, Systems
    <3>3. k \in SystemKeys(a.template[2])
      BY <1>2, <2>3 DEF TemplateKeys
    <3>4. QED
      BY <3>2, <3>3, SystemKeysClean
  <2>4. QED
    BY <2>2, <2>3
<1>3. ASSUME NEW a \in assignment, TemplateOrg(a.template) = NoId PROVE a.user = Root
  <2>1. a.template \in Templates /\ RowOK(a)
    BY RowFacts DEF Assignment
  <2>2. a.template \notin Customs
    BY <1>3, <2>1, AccessAssumption DEF RowOK, Live, TemplateOrg, IInv, CustomsOK
  <2>3. a.template = <<NoId, PlatformTemplate>>
    BY <1>3, <2>1, <2>2, AccessAssumption DEF Templates, Systems, TemplateOrg
  <2>4. QED
    BY <2>3 DEF IInv, PlatformOnlyRoot
<1>4. QED
  BY <1>1, <1>2, <1>3

\* No sequence of role edits, overrides, assignments, registrations and links, however
\* requests interleave, opens a route of the platform to anyone but the seeded
\* superadmin, unless the request has the platform's API key, and none gives a member of
\* an organisation a key of the platform
\* (resolvePermissionIds, getUserScopedAccess, PlatformAuthGuard).
THEOREM PlatformClosed == Spec => []PlatformStaysClosed
<1>1. ASSUME IInv PROVE PlatformStaysClosed
  <2>1. ASSUME NEW u \in Users, NEW r \in PlatformDoors, Allowed(u, r, NoContext)
        PROVE  u = Root /\ user[u] = NoId
    <3>1. PICK x \in Routes : "platform" \in x.guards /\ r.guards = x.guards /\ r.key = x.key
      BY DEF PlatformDoors, Doors
    <3>2. x \in OtherRoutes
      BY <3>1, ResidentRoutesFit DEF Routes, ResidentFits
    <3>3. IsPlatformPermissionKey(r.key)
      BY <3>1, <3>2, StaffRoutesFit DEF StaffFits
    <3>4. user[u] = NoId /\ r.key \in Effective(u, NoId, NoId, TRUE)
      BY <2>1, <3>1 DEF Allowed, PlatformAuthGuard, NoContext
    <3>5. \/ r.key \in UNION {TemplateKeys(a.template) :
                   a \in {y \in assignment : InScope(y, u, NoId, NoId)
                                             /\ (TRUE \/ Visible(y.template))}}
          \/ r.key \in Catalogue /\ <<r.key, "ALLOW">> \in override[u]
      BY <3>4, GivenKeys DEF Effective
    <3>6. PICK a \in assignment : InScope(a, u, NoId, NoId)
      BY <1>1, <3>3, <3>5, KeysClean
    <3>7. a.user = u /\ TemplateOrg(a.template) = NoId
      BY <3>6 DEF InScope
    <3>8. QED
      BY <1>1, <3>4, <3>7, KeysClean
  <2>2. ASSUME NEW u \in Users, user[u] \in Orgs, NEW k \in EffectiveAnywhere(u, user[u])
        PROVE  ~IsPlatformPermissionKey(k)
    <3>1. \/ k \in UNION {TemplateKeys(a.template) :
                   a \in {x \in assignment : /\ x.user = u
                                             /\ TemplateOrg(x.template) = user[u]
                                             /\ Visible(x.template)}}
          \/ k \in Catalogue /\ <<k, "ALLOW">> \in override[u]
      BY GivenKeys DEF EffectiveAnywhere
    <3>2. \/ \E a \in assignment : TemplateOrg(a.template) \in Orgs /\ k \in TemplateKeys(a.template)
          \/ k \in Catalogue /\ <<k, "ALLOW">> \in override[u]
      BY <2>2, <3>1
    <3>3. QED
      BY <1>1, <3>2, KeysClean
  <2>3. ASSUME NEW u \in Users, user[u] \in Orgs, NEW b \in Nullable(Buildings),
               NEW k \in Effective(u, user[u], b, TRUE)
        PROVE  ~IsPlatformPermissionKey(k)
    <3>1. \/ k \in UNION {TemplateKeys(a.template) :
                   a \in {x \in assignment : InScope(x, u, user[u], b)
                                             /\ (TRUE \/ Visible(x.template))}}
          \/ k \in Catalogue /\ <<k, "ALLOW">> \in override[u]
      BY GivenKeys DEF Effective
    <3>2. \/ \E a \in assignment : TemplateOrg(a.template) \in Orgs /\ k \in TemplateKeys(a.template)
          \/ k \in Catalogue /\ <<k, "ALLOW">> \in override[u]
      BY <2>3, <3>1 DEF InScope
    <3>3. QED
      BY <1>1, <3>2, KeysClean
  <2>4. QED
    BY <2>1, <2>2, <2>3 DEF PlatformStaysClosed
<1>2. QED
  BY <1>1, Inductive, PTL

\* The permission tables and the guards agree: a resident whose overrides nobody replaced
\* reaches every resident route that was not denied, and an administrator of an
\* organisation without a denied key reaches every staff route in every building of it
\* (resident-baseline-permissions.ts, role-defaults.ts and the @RequirePermissions of the
\* controllers).
THEOREM RoutesOpen == Spec => []GrantsOpenRoutes
<1>1. ASSUME IInv PROVE GrantsOpenRoutes
  <2>1. ASSUME NEW u \in Users, NEW r \in ResidentDoors, baseline[u],
               <<r.key, "DENY">> \notin override[u]
        PROVE  Allowed(u, r, NoContext)
    <3>1. PICK x \in ResidentRoutes : r.guards = x.guards /\ r.key = x.key
      BY DEF ResidentDoors, Doors
    <3>2. /\ r.guards \cap {"read", "write", "platform", "owner"} = {}
          /\ r.key = NoKey \/ r.key \in ResidentBaseline
      BY <3>1, ResidentRoutesFit DEF ResidentFits
    <3>3. user[u] \in Orgs /\ user[u] # "absent"
      BY <1>1, <2>1, AccessAssumption DEF IInv, BaselineOK
    <3>4. PermissionsGuard(u, r, NoContext)
      <4>1. CASE r.key = NoKey
        BY <4>1 DEF PermissionsGuard
      <4>2. CASE r.key \in ResidentBaseline
        <5>1. <<r.key, "ALLOW">> \in override[u] /\ r.key \in Catalogue
          BY <1>1, <2>1, <4>2, BaselineClean DEF IInv, BaselineOK, Clean
        <5>2. \A K : r.key \in Overridden(K, u)
          BY <2>1, <5>1 DEF Overridden
        <5>3. QED
          BY <5>2 DEF PermissionsGuard, HasPermissionMatch, Effective
      <4>3. QED
        BY <3>2, <4>1, <4>2
    <3>5. QED
      BY <3>2, <3>3, <3>4 DEF Allowed, OrgScopeGuard
  <2>2. ASSUME NEW u \in Users, NEW r \in StaffDoors, NEW b \in Nullable(Buildings),
               user[u] \in Orgs, IsOrgAdmin(u), \A x \in override[u] : x[2] = "ALLOW",
               b = NoId <=> r.scope = "none", b # NoId => building[b] = user[u]
        PROVE  Allowed(u, r, IF b = NoId THEN NoContext ELSE InBuilding(b))
    <3>1. PICK x \in OtherRoutes : /\ "org" \in x.guards /\ x.key # NoKey
                                   /\ r.guards = x.guards /\ r.key = x.key
                                   /\ r.scope = x.scope
      BY DEF StaffDoors, Doors, StaffRoutes
    <3>2. /\ "platform" \notin r.guards /\ "owner" \notin r.guards /\ r.key # NoKey
          /\ "read" \in r.guards \/ "write" \in r.guards => r.scope # "none"
          /\ r.key \in OrgAdminKeys
      BY <3>1, StaffRoutesFit DEF StaffFits
    <3>3. PICK ctx : ctx = IF b = NoId THEN NoContext ELSE InBuilding(b)
      OBVIOUS
    <3>4. ctx.path = b
      BY <3>3 DEF NoContext, InBuilding
    <3>5. PICK a \in assignment : /\ a.user = u /\ a.scope = "ORG" /\ a.building = NoId
                                  /\ a.template = <<user[u], "org_admin">>
      BY <2>2 DEF IsOrgAdmin
    <3>6. /\ a.template \notin Customs
          /\ a.template[1] = user[u] /\ a.template[2] = "org_admin"
      BY <2>2, <3>5, AccessAssumption DEF SystemTemplates
    <3>7. \A c : InScope(a, u, user[u], c) /\ Visible(a.template)
      BY <3>5, <3>6 DEF InScope, Visible, TemplateOrg, TemplateScope, SystemScope,
         SystemTemplates
    <3>8. TemplateKeys(a.template) = OrgAdminKeys
      BY <3>6 DEF TemplateKeys, SystemKeys, PlatformTemplate
    <3>9. <<r.key, "DENY">> \notin override[u]
      <4>1. \A z : z = <<r.key, "DENY">> => z[2] # "ALLOW"
        OBVIOUS
      <4>2. QED
        BY <2>2, <4>1
    <3>10. ASSUME NEW c PROVE r.key \in Effective(u, user[u], c, FALSE)
      <4>1. r.key \in UNION {TemplateKeys(y.template) :
                 y \in {z \in assignment : InScope(z, u, user[u], c)
                                           /\ (FALSE \/ Visible(z.template))}}
        BY <3>2, <3>7, <3>8
      <4>2. QED
        BY <3>9, <4>1 DEF Effective, Overridden
    <3>11. ASSUME NEW c
           PROVE  HasPermissionMatch(Effective(u, user[u], c, FALSE), r.key)
      BY <3>10 DEF HasPermissionMatch
    <3>12. PermissionsGuard(u, r, ctx)
      BY <3>11 DEF PermissionsGuard
    <3>13. "read" \in r.guards \/ "write" \in r.guards => BuildingAccessGuard(u, r, ctx)
      BY <2>2, <3>2, <3>4, <3>11 DEF BuildingAccessGuard
    <3>14. Allowed(u, r, ctx)
      BY <2>2, <3>2, <3>12, <3>13, AccessAssumption DEF Allowed, OrgScopeGuard
    <3>15. QED
      BY <3>3, <3>14
  <2>3. QED
    BY <2>1, <2>2 DEF GrantsOpenRoutes
<1>2. QED
  BY <1>1, Inductive, PTL
=============================================================================
