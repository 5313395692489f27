---------------------------- MODULE Permissions ----------------------------
(***************************************************************************)
(* The permission tables of the server: the catalogue of keys that         *)
(* prisma/seed.ts writes, the keys of the system role templates            *)
(* (role-defaults.ts), the keys every resident is given                    *)
(* (resident-baseline-permissions.ts) and the aliases of keys that were    *)
(* renamed (permission-aliases.ts).  A key "leases.documents.read" is the  *)
(* pair <<"leases.documents", "read">> of its area and its verb.           *)
(***************************************************************************)

\* The catalogue, in the order of prisma/seed.ts.
StaffKeys ==
         {"users", "roles", "units", "unitTypes", "owners", "owner_access_grants",
          "service_providers", "building.assignments", "occupancy"} \X {"read", "write"}
    \cup {"dashboard"} \X {"read"}
    \cup {"buildings"} \X {"read", "write", "delete"}
    \cup {"owner_registry"} \X {"resolve"}

LeaseKeys ==
         {"leases"} \X {"read", "write", "move_in", "move_out"}
    \cup {"leases.documents", "leases.access_items", "leases.occupants", "contracts",
          "contracts.documents", "contracts.occupants", "residents", "residents.profile"}
          \X {"read", "write"}
    \cup {"contracts.move_in_request", "contracts.move_out_request"} \X {"create"}
    \cup {"contracts.move_requests"} \X {"review"}
    \cup {"contracts.move_in", "contracts.move_out"} \X {"execute"}

ServiceKeys ==
         {"requests"}
          \X {"read", "write", "assign", "update_status", "comment", "owner_approval_override"}
    \cup {"visitors"} \X {"create", "read", "update"}
    \cup {"broadcasts", "messaging", "notifications"} \X {"read", "write"}

ResidentKeys ==
         {"resident.profile"} \X {"read", "write"}
    \cup {"resident.requests"} \X {"read", "create", "update", "cancel", "comment"}
    \cup {"resident.visitors"} \X {"read", "create", "update", "cancel"}
    \cup {"resident.contracts"} \X {"read"}
    \cup {"resident.contracts.documents", "resident.moves"} \X {"read", "create"}
    \cup {"org.profile"} \X {"write"}

PlatformAndParkingKeys ==
         {"platform.org", "platform.org.admin"} \X {"create", "read"}
    \cup {"platform.delivery_tasks"} \X {"read", "retry", "cleanup"}
    \cup {"parkingSlots"} \X {"create", "read", "update"}
    \cup {"parkingAllocations"} \X {"create", "read", "end"}
    \cup {"vehicles"} \X {"create", "read", "update", "delete"}

Catalogue ==
    StaffKeys \cup LeaseKeys \cup ServiceKeys \cup ResidentKeys \cup PlatformAndParkingKeys

\* permission-keys.ts: the keys that begin with "platform."
PlatformAreas == {"platform.org", "platform.org.admin", "platform.delivery_tasks"}

IsPlatformPermissionKey(key) == key[1] \in PlatformAreas

\* ROLE_TEMPLATE_PERMISSION_MAP and PLATFORM_ROLE_TEMPLATE_PERMISSION_MAP.
OrgAdminKeys ==
         {"users", "roles", "units", "unitTypes", "building.assignments", "occupancy",
          "leases.documents", "leases.access_items", "leases.occupants", "contracts",
          "contracts.documents", "contracts.occupants", "residents", "residents.profile",
          "owners", "owner_access_grants", "service_providers", "broadcasts",
          "notifications", "messaging"} \X {"read", "write"}
    \cup {"dashboard"} \X {"read"}
    \cup {"buildings"} \X {"read", "write", "delete"}
    \cup {"leases"} \X {"read", "write", "move_in", "move_out"}
    \cup {"contracts.move_in_request", "contracts.move_out_request"} \X {"create"}
    \cup {"contracts.move_requests"} \X {"review"}
    \cup {"contracts.move_in", "contracts.move_out"} \X {"execute"}
    \cup {"owner_registry"} \X {"resolve"}
    \cup {"requests"}
          \X {"read", "write", "assign", "update_status", "comment", "owner_approval_override"}
    \cup {"org.profile"} \X {"write"}
    \cup {"parkingSlots", "visitors"} \X {"create", "read", "update"}
    \cup {"parkingAllocations"} \X {"create", "read", "end"}
    \cup {"vehicles"} \X {"create", "read", "update", "delete"}

ViewerKeys ==
         {"users", "roles", "dashboard", "buildings", "units", "unitTypes", "owners",
          "owner_access_grants", "service_providers", "residents", "residents.profile",
          "occupancy", "leases", "leases.documents", "leases.access_items",
          "leases.occupants", "contracts", "contracts.documents", "contracts.occupants",
          "requests", "parkingSlots", "parkingAllocations", "vehicles", "visitors",
          "broadcasts", "messaging"} \X {"read"}
    \cup {"notifications"} \X {"read", "write"}

BuildingAdminKeys ==
         {"buildings", "units", "building.assignments", "occupancy", "leases.documents",
          "leases.access_items", "leases.occupants", "contracts", "contracts.documents",
          "contracts.occupants", "residents", "residents.profile", "broadcasts",
          "notifications", "messaging"} \X {"read", "write"}
    \cup {"leases"} \X {"read", "write", "move_in", "move_out"}
    \cup {"contracts.move_requests"} \X {"review"}
    \cup {"contracts.move_in", "contracts.move_out"} \X {"execute"}
    \cup {"requests"} \X {"read", "write", "assign", "update_status", "comment"}
    \cup {"parkingSlots", "visitors"} \X {"create", "read", "update"}
    \cup {"parkingAllocations"} \X {"create", "read", "end"}
    \cup {"vehicles"} \X {"create", "read", "update", "delete"}

BuildingManagerKeys ==
         {"buildings", "units", "residents", "residents.profile", "broadcasts",
          "notifications", "messaging"} \X {"read", "write"}
    \cup {"building.assignments", "leases.documents", "leases.access_items",
          "leases.occupants", "contracts", "contracts.documents", "contracts.occupants",
          "parkingSlots", "parkingAllocations", "vehicles"} \X {"read"}
    \cup {"leases"} \X {"read", "move_in", "move_out"}
    \cup {"contracts.move_requests"} \X {"review"}
    \cup {"contracts.move_in", "contracts.move_out"} \X {"execute"}
    \cup {"requests"}
          \X {"read", "write", "assign", "update_status", "comment", "owner_approval_override"}
    \cup {"visitors"} \X {"create", "read", "update"}

BuildingStaffKeys ==
         {"buildings", "units", "leases", "leases.documents", "leases.access_items",
          "leases.occupants", "contracts", "contracts.documents", "contracts.occupants",
          "residents", "residents.profile", "parkingSlots", "parkingAllocations",
          "vehicles", "broadcasts"} \X {"read"}
    \cup {"requests"} \X {"read", "update_status", "comment"}
    \cup {"visitors"} \X {"create", "read", "update"}
    \cup {"notifications", "messaging"} \X {"read", "write"}

PlatformSuperadminKeys ==
         {"platform.org", "platform.org.admin"} \X {"create", "read"}
    \cup {"platform.delivery_tasks"} \X {"read", "retry", "cleanup"}
    \cup {"visitors"} \X {"create", "read", "update"}

\* mutant: the moves are missing
ResidentBaselineNoMoves ==
         {"resident.profile", "notifications", "messaging"} \X {"read", "write"}
    \cup {"resident.requests"} \X {"read", "create", "update", "cancel", "comment"}
    \cup {"resident.visitors"} \X {"read", "create", "update", "cancel"}
    \cup {"resident.contracts"} \X {"read"}
    \cup {"resident.contracts.documents"} \X {"read", "create"}

\* What ensureResidentPermissions gives to a resident.
ResidentBaseline ==
         {"resident.profile", "notifications", "messaging"} \X {"read", "write"}
    \cup {"resident.requests"} \X {"read", "create", "update", "cancel", "comment"}
    \cup {"resident.visitors"} \X {"read", "create", "update", "cancel"}
    \cup {"resident.contracts"} \X {"read"}
    \cup {"resident.contracts.documents", "resident.moves"} \X {"read", "create"}

\* The system role templates an organisation starts with, and the platform's own.
SystemTemplates == {"org_admin", "viewer", "building_admin", "building_manager", "building_staff"}

PlatformTemplate == "platform_superadmin"

SystemScope(key) == IF key \in {"org_admin", "viewer", PlatformTemplate} THEN "ORG" ELSE "BUILDING"

SystemKeys(key) ==
    CASE key = "org_admin"        -> OrgAdminKeys
      [] key = "viewer"           -> ViewerKeys
      [] key = "building_admin"   -> BuildingAdminKeys
      [] key = "building_manager" -> BuildingManagerKeys
      [] key = "building_staff"   -> BuildingStaffKeys
      [] key = PlatformTemplate   -> PlatformSuperadminKeys

\* PERMISSION_ALIASES, one half of the table: the other half is its inverse.
RenamedAreas ==
    {<<"contracts", "leases">>, <<"contracts.documents", "leases.documents">>,
     <<"contracts.occupants", "leases.occupants">>, <<"service_providers", "serviceProviders">>}

Renamed ==
         {<<<<r[1], verb>>, <<r[2], verb>>>> : r \in RenamedAreas, verb \in {"read", "write"}}
    \cup {<<<<"contracts.move_in", "execute">>, <<"leases", "move_in">>>>,
          <<<<"contracts.move_in_request", "create">>, <<"leases", "move_in">>>>,
          <<<<"contracts.move_requests", "review">>, <<"leases", "move_in">>>>,
          <<<<"contracts.move_out", "execute">>, <<"leases", "move_out">>>>,
          <<<<"contracts.move_out_request", "create">>, <<"leases", "move_out">>>>,
          <<<<"contracts.move_requests", "review">>, <<"leases", "move_out">>>>}

Aliases(key) ==
    {r[2] : r \in {x \in Renamed : x[1] = key}} \cup {r[1] : r \in {x \in Renamed : x[2] = key}}

\* hasPermissionMatch: the key itself or any key that stands for it.
HasPermissionMatch(effective, key) == \E k \in {key} \cup Aliases(key) : k \in effective
=============================================================================
