----------------------------- MODULE Endpoints -----------------------------
(***************************************************************************)
(* The routes of the HTTP API, one definition per controller (the longest  *)
(* are split), with the guards in front of each handler, the key it        *)
(* requires and where the building of the request is found: "path" when    *)
(* the path has a buildingId, "row" when the resolver looks it up from the *)
(* row the path names, "none" otherwise.  Parsing, validation and response *)
(* shapes are left out; what the handlers do is in the other modules.      *)
(***************************************************************************)
EXTENDS Permissions

NoKey == <<"none", "none">>

\* The chains of guards that occur.  "any" is @AllowAnyScopePermissions, "resident"
\* the argument of @BuildingReadAccess.
Open           == {}
Refresh        == {"refresh"}
Signed         == {"jwt"}
SignedPerm     == {"jwt", "perm"}
Org            == {"jwt", "org"}
Perm           == {"jwt", "org", "perm"}
AnyScope       == {"jwt", "org", "perm", "any"}
Read           == {"jwt", "org", "read"}
ReadOrResident == {"jwt", "org", "read", "resident"}
Write          == {"jwt", "org", "write"}
PermRead       == {"jwt", "org", "perm", "read"}
PermWrite      == {"jwt", "org", "perm", "write"}
Owner          == {"jwt", "owner"}
Platform       == {"platform"}

Route(handlers, guards, key, scope) ==
    {[handler |-> h, guards |-> guards, key |-> key, scope |-> scope] : h \in handlers}

PermissionsController ==
         Route({"list"}, Signed, NoKey, "none")

RolesLegacyController ==
         Route({"list", "getById"}, Perm, <<"roles", "read">>, "none")
    \cup Route({"create", "update", "remove"}, Perm, <<"roles", "write">>, "none")

RolesController ==
         Route({"list", "getById"}, Perm, <<"roles", "read">>, "none")
    \cup Route({"create", "update", "remove"}, Perm, <<"roles", "write">>, "none")

UserAccessController ==
         Route({"listAccessAssignments"}, Perm, <<"users", "read">>, "none")
    \cup Route({"createAccessAssignment", "deleteAccessAssignment", "setPermissions",
             "getPermissions", "getEffectivePermissions"},
             Perm, <<"users", "write">>, "none")

AuthController ==
         Route({"register", "login", "forgotPassword", "resetPassword"}, Open, NoKey, "none")
    \cup Route({"refresh"}, Refresh, NoKey, "none")
    \cup Route({"logout", "changePassword"}, Signed, NoKey, "none")

BroadcastsController ==
         Route({"create"}, AnyScope, <<"broadcasts", "write">>, "none")
    \cup Route({"list", "getById"}, AnyScope, <<"broadcasts", "read">>, "none")

BuildingAmenitiesController ==
         Route({"list"}, Read, <<"buildings", "read">>, "path")
    \cup Route({"create", "update"}, Write, <<"buildings", "write">>, "path")

BuildingAssignmentsController ==
         Route({"list"}, Read, <<"building.assignments", "read">>, "path")

BuildingsController ==
         Route({"create"}, Perm, <<"buildings", "write">>, "none")
    \cup Route({"list"}, Perm, <<"buildings", "read">>, "none")
    \cup Route({"listAssigned"}, Org, NoKey, "none")
    \cup Route({"getById"}, Read, <<"buildings", "read">>, "path")
    \cup Route({"delete"}, Perm, <<"buildings", "delete">>, "path")

DashboardController ==
         Route({"overview", "activity"}, Perm, <<"dashboard", "read">>, "none")

HealthController ==
         Route({"getHealth"}, Open, NoKey, "none")

ContractsController ==
         Route({"createDraft"}, Write, <<"contracts", "write">>, "path")
    \cup Route({"listContracts", "getLatestForResident"},
             Perm, <<"contracts", "read">>, "none")
    \cup Route({"getById"}, Perm, <<"contracts", "read">>, "row")
    \cup Route({"update", "activate", "cancel", "replaceAdditionalTerms"},
             Perm, <<"contracts", "write">>, "row")

ContractsMoveRequests ==
         Route({"listMoveInRequests", "listMoveOutRequests"},
             Read, <<"contracts.move_requests", "review">>, "path")
    \cup Route({"getMoveRequestInboxCount"}, Org, NoKey, "none")
    \cup Route({"approveMoveInRequest", "rejectMoveInRequest", "approveMoveOutRequest",
             "rejectMoveOutRequest"},
             Perm, <<"contracts.move_requests", "review">>, "row")
    \cup Route({"executeMoveIn"}, Perm, <<"contracts.move_in", "execute">>, "row")
    \cup Route({"executeMoveOut"}, Perm, <<"contracts.move_out", "execute">>, "row")

LeaseAccessCardsController ==
         Route({"list"}, Perm, <<"leases.access_items", "read">>, "row")
    \cup Route({"create", "updateStatus", "delete"},
             Perm, <<"leases.access_items", "write">>, "row")

LeaseDocumentsController ==
         Route({"list"}, Perm, <<"leases.documents", "read">>, "row")
    \cup Route({"create", "delete"}, Perm, <<"leases.documents", "write">>, "row")

LeaseLifecycleController ==
         Route({"moveIn"}, PermWrite, <<"leases", "move_in">>, "path")
    \cup Route({"moveOut"}, PermWrite, <<"leases", "move_out">>, "path")

LeaseOccupantsController ==
         Route({"list"}, Perm, <<"leases.occupants", "read">>, "row")
    \cup Route({"replace"}, Perm, <<"leases.occupants", "write">>, "row")

LeaseParkingStickersController ==
         Route({"list"}, Perm, <<"leases.access_items", "read">>, "row")
    \cup Route({"create", "updateStatus", "delete"},
             Perm, <<"leases.access_items", "write">>, "row")

LeasesController ==
         Route({"listOrgLeases", "listResidentLeases", "listResidentLeaseTimeline"},
             Perm, <<"leases", "read">>, "none")
    \cup Route({"getActiveLeaseForUnit"}, PermRead, <<"leases", "read">>, "path")
    \cup Route({"getLeaseById", "getLeaseHistory", "getLeaseTimeline"},
             Perm, <<"leases", "read">>, "row")
    \cup Route({"updateLease"}, Perm, <<"leases", "write">>, "row")

ResidentContractController ==
         Route({"listContracts", "getLatest"},
             Perm, <<"resident.contracts", "read">>, "none")
    \cup Route({"getById"}, Perm, <<"resident.contracts", "read">>, "row")
    \cup Route({"createMoveInRequest", "createMoveOutRequest"},
             Perm, <<"resident.moves", "create">>, "row")
    \cup Route({"listMoveInRequests", "listMoveOutRequests"},
             Perm, <<"resident.moves", "read">>, "row")
    \cup Route({"createUploadUrl", "createDocument"},
             Perm, <<"resident.contracts.documents", "create">>, "row")

ResidentLeaseController ==
         Route({"getActive"}, Perm, <<"resident.contracts", "read">>, "none")
    \cup Route({"listActiveDocuments"},
             Perm, <<"resident.contracts.documents", "read">>, "none")

BuildingRequestsController ==
         Route({"list", "getById"}, Read, <<"requests", "read">>, "path")
    \cup Route({"unreadCommentCount"}, Read, <<"requests", "comment">>, "path")
    \cup Route({"assign", "assignProvider", "requestEstimate", "assignProviderWorker",
             "unassignProvider"},
             Write, <<"requests", "assign">>, "path")

BuildingRequestsComments ==
         Route({"updateStatus", "cancel"}, Read, <<"requests", "update_status">>, "path")
    \cup Route({"addComment", "listComments", "addAttachments"},
             Read, <<"requests", "comment">>, "path")

BuildingRequestsApprovals ==
         Route({"requireOwnerApproval", "requestOwnerApproval", "requestOwnerApprovalNow",
             "updatePolicyTriage", "submitEstimate", "resendOwnerApproval"},
             Write, <<"requests", "assign">>, "path")
    \cup Route({"overrideOwnerApproval"},
             Write, <<"requests", "owner_approval_override">>, "path")

ProviderRequestsController ==
         Route({"list", "unreadCommentCount"}, Signed, NoKey, "none")
    \cup Route({"getById", "updateStatus", "addComment", "listComments", "addAttachments",
             "submitEstimate", "assignWorker"},
             Signed, NoKey, "row")

ResidentRequestsController ==
         Route({"create"}, Perm, <<"resident.requests", "create">>, "none")
    \cup Route({"list"}, Perm, <<"resident.requests", "read">>, "none")
    \cup Route({"getById"}, Perm, <<"resident.requests", "read">>, "row")
    \cup Route({"update"}, Perm, <<"resident.requests", "update">>, "row")
    \cup Route({"cancel"}, Perm, <<"resident.requests", "cancel">>, "row")
    \cup Route({"addComment", "listComments"},
             Perm, <<"resident.requests", "comment">>, "row")

MessagingController ==
         Route({"create"}, AnyScope, <<"messaging", "write">>, "none")
    \cup Route({"list", "unreadCount"}, AnyScope, <<"messaging", "read">>, "none")
    \cup Route({"getById", "markAsRead"}, AnyScope, <<"messaging", "read">>, "row")
    \cup Route({"sendMessage"}, AnyScope, <<"messaging", "write">>, "row")

OwnerMessagingController ==
         Route({"createManagementConversation", "createTenantConversation", "list",
             "unreadCount", "getById", "sendMessage", "markAsRead"},
             Owner, NoKey, "none")

ResidentMessagingController ==
         Route({"listManagementContacts", "createManagementConversation",
             "createOwnerConversation"},
             Perm, <<"messaging", "write">>, "none")

DevNotificationsController ==
         Route({"create"}, Org, NoKey, "none")

NotificationsController ==
         Route({"list", "unreadCount"}, Perm, <<"notifications", "read">>, "none")
    \cup Route({"markRead", "markAllRead", "registerPushDevice", "unregisterPushDevice",
             "dismiss", "undismiss"},
             Perm, <<"notifications", "write">>, "none")

OwnerNotificationsController ==
         Route({"list", "unreadCount", "markRead", "markAllRead", "registerPushDevice",
             "updatePushDevice", "removePushDevice", "dismiss", "undismiss"},
             Owner, NoKey, "none")

OccupanciesController ==
         Route({"create"}, Write, <<"occupancy", "write">>, "path")
    \cup Route({"list", "count"}, Read, <<"occupancy", "read">>, "path")

OrgProfileController ==
         Route({"getProfile"}, Org, NoKey, "none")
    \cup Route({"updateProfile"}, Perm, <<"org.profile", "write">>, "none")

OwnerPortfolioController ==
         Route({"listUnits", "getSummary", "listRequests", "getUnreadCommentCount"},
             Owner, NoKey, "none")
    \cup Route({"getUnitTenant", "getRequestById", "approveRequest", "rejectRequest",
             "listRequestComments", "addRequestComment"},
             Owner, NoKey, "row")

OwnerProfileController ==
         Route({"getMe", "updateAccountProfile", "updateOwnerProfile"}, Owner, NoKey, "none")

OwnerAccessGrantsController ==
         Route({"list", "listHistory"}, Perm, <<"owner_access_grants", "read">>, "none")
    \cup Route({"createInvite", "linkExistingUser", "activate", "disable", "resendInvite"},
             Perm, <<"owner_access_grants", "write">>, "none")

OwnerPartyResolutionController ==
         Route({"resolveParty"}, Perm, <<"owner_registry", "resolve">>, "none")

OwnersController ==
         Route({"list"}, Perm, <<"owners", "read">>, "none")
    \cup Route({"create", "update"}, Perm, <<"owners", "write">>, "none")

ParkingController ==
         Route({"importSlotsCsv", "createSlot"}, Perm, <<"parkingSlots", "create">>, "path")
    \cup Route({"listSlots"}, Perm, <<"parkingSlots", "read">>, "path")
    \cup Route({"updateSlot"}, Perm, <<"parkingSlots", "update">>, "row")
    \cup Route({"allocate"}, Perm, <<"parkingAllocations", "create">>, "path")
    \cup Route({"endAllocation", "endAll", "endAllForUnit"},
             Perm, <<"parkingAllocations", "end">>, "row")

ParkingVehicles ==
         Route({"listAllocations", "listUnitAllocations"},
             Perm, <<"parkingAllocations", "read">>, "row")
    \cup Route({"createVehicle"}, Perm, <<"vehicles", "create">>, "row")
    \cup Route({"listVehicles"}, Perm, <<"vehicles", "read">>, "row")
    \cup Route({"updateVehicle"}, Perm, <<"vehicles", "update">>, "row")
    \cup Route({"deleteVehicle"}, Perm, <<"vehicles", "delete">>, "row")

ResidentParkingController ==
         Route({"getActiveAllocation"}, Org, NoKey, "none")

PlatformDeliveryTasksController ==
         Route({"list", "summary", "getById"},
             Platform, <<"platform.delivery_tasks", "read">>, "none")
    \cup Route({"retryFailed", "retry"},
             Platform, <<"platform.delivery_tasks", "retry">>, "none")
    \cup Route({"cleanup"}, Platform, <<"platform.delivery_tasks", "cleanup">>, "none")

PlatformOrgAdminsController ==
         Route({"listAll"}, Platform, <<"platform.org.admin", "read">>, "none")

PlatformOrgsController ==
         Route({"create"}, Platform, <<"platform.org", "create">>, "none")
    \cup Route({"list"}, Platform, <<"platform.org", "read">>, "none")
    \cup Route({"createAdmin"}, Platform, <<"platform.org.admin", "create">>, "none")
    \cup Route({"listAdmins"}, Platform, <<"platform.org.admin", "read">>, "none")

OrgResidentsController ==
         Route({"create", "sendInvite"}, Perm, <<"residents", "write">>, "none")
    \cup Route({"listInvites", "list"}, Perm, <<"residents", "read">>, "none")

ResidentDirectoryController ==
         Route({"list"}, PermRead, <<"residents", "read">>, "path")

ResidentProfileController ==
         Route({"getProfile"}, Perm, <<"resident.profile", "read">>, "none")
    \cup Route({"upsertMyProfile", "uploadMyAvatar"},
             Perm, <<"resident.profile", "write">>, "none")

ResidentProfilesController ==
         Route({"getByUserId", "getMyProfile"},
             Perm, <<"residents.profile", "read">>, "none")
    \cup Route({"upsertByUserId"}, Perm, <<"residents.profile", "write">>, "none")

ResidentsController ==
         Route({"create"}, Write, <<"residents", "write">>, "path")
    \cup Route({"list"}, Read, <<"residents", "read">>, "path")

ProviderAccessGrantsController ==
         Route({"list"}, Perm, <<"service_providers", "read">>, "none")
    \cup Route({"create", "resendInvite", "disable"},
             Perm, <<"service_providers", "write">>, "none")

ProviderPortalController ==
         Route({"getMe", "getProfile", "updateProfile", "listStaff", "createStaff",
             "updateStaff"},
             Signed, NoKey, "none")

ServiceProvidersController ==
         Route({"list", "getById"}, Perm, <<"service_providers", "read">>, "none")
    \cup Route({"create", "update", "linkBuilding"},
             Perm, <<"service_providers", "write">>, "none")
    \cup Route({"unlinkBuilding"}, Perm, <<"service_providers", "write">>, "path")

UnitTypesController ==
         Route({"list"}, Perm, <<"unitTypes", "read">>, "none")
    \cup Route({"create"}, Perm, <<"unitTypes", "write">>, "none")

UnitsController ==
         Route({"importCsv", "create", "update"}, Write, <<"units", "write">>, "path")
    \cup Route({"list", "count", "getById"}, Read, <<"units", "read">>, "path")
    \cup Route({"listBasic"}, ReadOrResident, <<"units", "read">>, "path")

OrgUsersProvisionController ==
         Route({"provision"}, Perm, <<"users", "write">>, "none")

OrgUsersController ==
         Route({"list"}, Perm, <<"users", "read">>, "none")

UsersController ==
         Route({"getMe", "updateProfile", "uploadMyAvatar"}, SignedPerm, NoKey, "none")
    \cup Route({"getById"}, Perm, <<"users", "read">>, "none")

ResidentVisitorsController ==
         Route({"create"}, Perm, <<"resident.visitors", "create">>, "none")
    \cup Route({"list", "getById"}, Perm, <<"resident.visitors", "read">>, "none")
    \cup Route({"update"}, Perm, <<"resident.visitors", "update">>, "none")
    \cup Route({"cancel"}, Perm, <<"resident.visitors", "cancel">>, "none")

VisitorsController ==
         Route({"create"}, Write, <<"visitors", "create">>, "path")
    \cup Route({"list"}, Read, <<"visitors", "read">>, "path")
    \cup Route({"update"}, Write, <<"visitors", "update">>, "path")

\* The routes of the resident application, under /resident.
ResidentRoutes ==
    ResidentContractController \cup ResidentLeaseController \cup ResidentRequestsController
    \cup ResidentMessagingController \cup ResidentParkingController \cup
    ResidentProfileController \cup ResidentVisitorsController

OtherRoutes ==
    PermissionsController \cup RolesLegacyController \cup RolesController \cup
    UserAccessController \cup AuthController \cup BroadcastsController \cup
    BuildingAmenitiesController \cup BuildingAssignmentsController \cup BuildingsController
    \cup DashboardController \cup HealthController \cup ContractsController \cup
    ContractsMoveRequests \cup LeaseAccessCardsController \cup LeaseDocumentsController \cup
    LeaseLifecycleController \cup LeaseOccupantsController \cup LeaseParkingStickersController
    \cup LeasesController \cup BuildingRequestsController \cup BuildingRequestsComments \cup
    BuildingRequestsApprovals \cup ProviderRequestsController \cup MessagingController \cup
    OwnerMessagingController \cup DevNotificationsController \cup NotificationsController \cup
    OwnerNotificationsController \cup OccupanciesController \cup OrgProfileController \cup
    OwnerPortfolioController \cup OwnerProfileController \cup OwnerAccessGrantsController \cup
    OwnerPartyResolutionController \cup OwnersController \cup ParkingController \cup
    ParkingVehicles \cup PlatformDeliveryTasksController \cup PlatformOrgAdminsController \cup
    PlatformOrgsController \cup OrgResidentsController \cup ResidentDirectoryController \cup
    ResidentProfilesController \cup ResidentsController \cup ProviderAccessGrantsController
    \cup ProviderPortalController \cup ServiceProvidersController \cup UnitTypesController
    \cup UnitsController \cup OrgUsersProvisionController \cup OrgUsersController \cup
    UsersController \cup VisitorsController

Routes == ResidentRoutes \cup OtherRoutes

\* The routes that ask for a permission in the organisation of the caller.
StaffRoutes == {r \in OtherRoutes : "org" \in r.guards /\ r.key # NoKey}
=============================================================================
