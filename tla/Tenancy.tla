------------------------------- MODULE Tenancy -------------------------------
(***************************************************************************)
(* Contracts (leases), occupancies, move requests, parking allocations and *)
(* access items: modules/leases, modules/occupancies, modules/parking and  *)
(* the resident grants of modules/users.                                   *)
(*                                                                         *)
(* State is the database.  A handler is a sequence of steps: the reads its *)
(* checks are made on, then each transaction it commits.  PostgreSQL runs  *)
(* transactions at READ COMMITTED, so another request may commit between   *)
(* the checks of a handler and its writes, also when both are in one       *)
(* transaction; the checks of one transaction are read in one step.  What  *)
(* the database itself enforces at commit are the unique indexes (NoClash, *)
(* NoPending) and the row lock on Unit.  A write that an index refuses, a  *)
(* thrown error and a process that dies are all Abandon: the request ends  *)
(* and what it committed earlier stays.                                    *)
(*                                                                         *)
(* Left out: authorization, names, dates, amounts, history and activity    *)
(* rows.  An access item is an access card or a parking sticker; the two   *)
(* services are the same code.                                             *)
(***************************************************************************)
EXTENDS Integers, FiniteSets

CONSTANTS
    Requests,    \* concurrent API requests
    Units, Residents,
    Buildings, BuildingOf,          \* BuildingOf[u]: the building of unit u
    Leases, Occupancies, MoveRequests, Slots, Allocations, Items,  \* row ids
    NoId         \* SQL NULL

ASSUME TenancyAssumption ==
    /\ NoId \notin Units \cup Residents \cup Leases \cup Occupancies
                   \cup MoveRequests \cup Slots \cup Allocations \cup Items
    /\ BuildingOf \in [Units -> Buildings]

VARIABLES
    lease,      \* Lease rows
    occupancy,  \* Occupancy rows
    move,       \* MoveInRequest (kind "in") and MoveOutRequest (kind "out") rows
    alloc,      \* ParkingAllocation rows
    item,       \* LeaseAccessCard and LeaseParkingSticker rows
    req         \* req[c]: progress of API request c through its handler

vars == <<lease, occupancy, move, alloc, item, req>>

Nullable(S) == S \cup {NoId}
LeaseStatuses == {"DRAFT", "ACTIVE", "ENDED", "CANCELLED"}
MoveStatuses == {"PENDING", "APPROVED", "REJECTED", "CANCELLED", "COMPLETED"}
ItemStatuses == {"ISSUED", "RETURNED", "DEACTIVATED"}
PCs == {"idle", "draft", "activate", "cancel", "moveOutRead", "moveOutTx",
        "complete", "request", "review", "moveInTx", "direct", "occupy",
        "grant", "allocate", "itemStatus"}
\* what a handler remembers between its steps besides row ids
Args == {"", "cancel", "complete", "in", "out", "ADD", "MOVE"}
        \cup MoveStatuses \cup ItemStatuses

LeaseRow == [status: LeaseStatuses \cup {"NONE"}, unit: Nullable(Units),
             resident: Nullable(Residents), occ: Nullable(Occupancies)]
OccupancyRow == [status: {"NONE", "ACTIVE", "ENDED"}, unit: Nullable(Units),
                 resident: Nullable(Residents)]
MoveRow == [kind: {"in", "out"}, status: MoveStatuses \cup {"NONE"},
            lease: Nullable(Leases)]
AllocRow == [status: {"NONE", "OPEN", "ENDED"}, slot: Nullable(Slots),
             occ: Nullable(Occupancies), unit: Nullable(Units)]
ItemRow == [status: ItemStatuses \cup {"NONE", "DELETED"}, lease: Nullable(Leases)]
ReqState == [pc: PCs, arg: Args, lease: Nullable(Leases), occ: Nullable(Occupancies),
             move: Nullable(MoveRequests), unit: Nullable(Units),
             resident: Nullable(Residents), slot: Nullable(Slots),
             item: Nullable(Items)]

\* Every row and every request record has its type.
TypeOK ==
    /\ lease \in [Leases -> LeaseRow]
    /\ occupancy \in [Occupancies -> OccupancyRow]
    /\ move \in [MoveRequests -> MoveRow]
    /\ alloc \in [Allocations -> AllocRow]
    /\ item \in [Items -> ItemRow]
    /\ req \in [Requests -> ReqState]

Idle == [pc |-> "idle", arg |-> "", lease |-> NoId, occ |-> NoId, move |-> NoId,
         unit |-> NoId, resident |-> NoId, slot |-> NoId, item |-> NoId]

Init ==
    /\ lease = [l \in Leases |-> [status |-> "NONE", unit |-> NoId,
                                  resident |-> NoId, occ |-> NoId]]
    /\ occupancy = [o \in Occupancies |-> [status |-> "NONE", unit |-> NoId,
                                           resident |-> NoId]]
    /\ move = [q \in MoveRequests |-> [kind |-> "in", status |-> "NONE",
                                       lease |-> NoId]]
    /\ alloc = [a \in Allocations |-> [status |-> "NONE", slot |-> NoId,
                                       occ |-> NoId, unit |-> NoId]]
    /\ item = [k \in Items |-> [status |-> "NONE", lease |-> NoId]]
    /\ req = [c \in Requests |-> Idle]

------------------------------------------------------------------------------
(* Queries and constraints.                                                *)

Open == {"PENDING", "APPROVED"}

UnitOccupied(u) == \E o \in Occupancies :
    occupancy[o].status = "ACTIVE" /\ occupancy[o].unit = u

ResidentHoused(r) == \E o \in Occupancies :
    occupancy[o].status = "ACTIVE" /\ occupancy[o].resident = r

HasOpenRequest(l, k) == \E q \in MoveRequests :
    move[q].lease = l /\ move[q].kind = k /\ move[q].status \in Open

SlotTaken(s) == \E a \in Allocations :
    alloc[a].status = "OPEN" /\ alloc[a].slot = s

\* unit row lock: SELECT ... FOR UPDATE until the transaction ends
UnitLocked(u) == \E c \in Requests : req[c].pc \in {"direct", "grant"} /\ req[c].unit = u

\* mutant: the partial unique index on the unit is missing
NoClashResidentOnly(rows, u, r) == \A o \in Occupancies :
    rows[o].status = "ACTIVE" => rows[o].resident # r

\* uniq_active_occupancy_per_unit and uniq_active_occupancy_per_resident admit a
\* new ACTIVE row for u and r beside the given rows
NoClash(rows, u, r) == \A o \in Occupancies :
    rows[o].status = "ACTIVE" => rows[o].unit # u /\ rows[o].resident # r

\* uniq_pending_movein_per_lease and uniq_pending_moveout_per_lease
NoPending(l, k) == \A q \in MoveRequests :
    ~(move[q].lease = l /\ move[q].kind = k /\ move[q].status = "PENDING")

\* the occupancy is ACTIVE and some ACTIVE lease refers to it
LeaseContext(o) ==
    /\ occupancy[o].status = "ACTIVE"
    /\ \E l \in Leases : lease[l].status = "ACTIVE" /\ lease[l].occ = o

ActiveOccupancy(u, r) == [status |-> "ACTIVE", unit |-> u, resident |-> r]

\* occupancy rows after ending those that satisfy the WHERE clause o \in S
EndOccupancies(S) ==
    [o \in Occupancies |-> IF o \in S THEN [occupancy[o] EXCEPT !.status = "ENDED"]
                           ELSE occupancy[o]]

ActiveInBuilding(r, b) == {o \in Occupancies :
    /\ occupancy[o].status = "ACTIVE"
    /\ occupancy[o].resident = r
    /\ BuildingOf[occupancy[o].unit] = b}

EndAllocations(S) ==
    [a \in Allocations |-> IF a \in S /\ alloc[a].status = "OPEN"
                           THEN [alloc[a] EXCEPT !.status = "ENDED"] ELSE alloc[a]]

\* request c goes on with the given record
Proceed(c, r) == req' = [req EXCEPT ![c] = r]
Done(c) == Proceed(c, Idle)

------------------------------------------------------------------------------
(* Contracts.                                                              *)

CreateDraftCheck(c, u, r) ==
    /\ req[c].pc = "idle"
    /\ ~\E l \in Leases : lease[l].status = "ACTIVE" /\ lease[l].unit = u
    /\ Proceed(c, [Idle EXCEPT !.pc = "draft", !.unit = u, !.resident = r])
    /\ UNCHANGED <<lease, occupancy, move, alloc, item>>

CreateDraftContract(c, l) ==
    /\ req[c].pc = "draft"
    /\ lease[l].status = "NONE"
    /\ lease' = [lease EXCEPT ![l] = [status |-> "DRAFT", unit |-> req[c].unit,
                                      resident |-> req[c].resident, occ |-> NoId]]
    /\ Done(c)
    /\ UNCHANGED <<occupancy, move, alloc, item>>

ActivateCheck(c, l) ==
    /\ req[c].pc = "idle"
    /\ lease[l].status \in {"DRAFT", "CANCELLED"}
    /\ Proceed(c, [Idle EXCEPT !.pc = "activate", !.lease = l])
    /\ UNCHANGED <<lease, occupancy, move, alloc, item>>

ActivateContract(c) ==
    /\ req[c].pc = "activate"
    /\ lease' = [lease EXCEPT ![req[c].lease].status = "ACTIVE"]
    /\ Done(c)
    /\ UNCHANGED <<occupancy, move, alloc, item>>

\* mutant: the contract is cancelled without looking at its occupancy
CancelCheckNoMoveOut(c, l) ==
    /\ req[c].pc = "idle"
    /\ lease[l].status \in {"DRAFT", "ACTIVE", "CANCELLED"}
    /\ Proceed(c, [Idle EXCEPT !.pc = "cancel", !.lease = l, !.arg = "cancel"])
    /\ UNCHANGED <<lease, occupancy, move, alloc, item>>

\* An occupied ACTIVE contract is moved out first, in a transaction of its own.
CancelCheck(c, l) ==
    /\ req[c].pc = "idle"
    /\ lease[l].status \in {"DRAFT", "ACTIVE", "CANCELLED"}
    /\ Proceed(c, [Idle EXCEPT
          !.pc = IF lease[l].status = "ACTIVE" /\ lease[l].occ # NoId
                 THEN "moveOutRead" ELSE "cancel",
          !.lease = l, !.arg = "cancel"])
    /\ UNCHANGED <<lease, occupancy, move, alloc, item>>

CancelContract(c) ==
    /\ req[c].pc = "cancel"
    /\ move' = [q \in MoveRequests |->
          IF move[q].lease = req[c].lease /\ move[q].status \in Open
          THEN [move[q] EXCEPT !.status = "CANCELLED"] ELSE move[q]]
    /\ lease' = [lease EXCEPT ![req[c].lease].status = "CANCELLED"]
    /\ Done(c)
    /\ UNCHANGED <<occupancy, alloc, item>>

------------------------------------------------------------------------------
(* LeaseLifecycleService.moveOut, called by its endpoint, by cancelContract *)
(* and by executeApprovedMoveOut.                                           *)

MoveOutCall(c, l) ==
    /\ req[c].pc = "idle"
    /\ lease[l].status # "NONE"
    /\ Proceed(c, [Idle EXCEPT !.pc = "moveOutRead", !.lease = l])
    /\ UNCHANGED <<lease, occupancy, move, alloc, item>>

\* The lease is read before the transaction; a lease that is not ACTIVE or has
\* no occupancy makes moveOut throw, which ends the calling handler too.
MoveOutCheck(c) ==
    /\ req[c].pc = "moveOutRead"
    /\ LET l == lease[req[c].lease]
       IN Proceed(c, IF l.status = "ACTIVE" /\ l.occ # NoId
                     THEN [req[c] EXCEPT !.pc = "moveOutTx", !.occ = l.occ]
                     ELSE Idle)
    /\ UNCHANGED <<lease, occupancy, move, alloc, item>>

\* mutant: parking allocations are not ended
MoveOutKeepsParking(c, returned) ==
    /\ req[c].pc = "moveOutTx"
    /\ returned \/ req[c].arg = ""
    /\ item' = item
    /\ alloc' = alloc
    /\ occupancy' = EndOccupancies({req[c].occ})
    /\ lease' = [lease EXCEPT ![req[c].lease].status = "ENDED"]
    /\ Proceed(c, IF req[c].arg = "" THEN Idle ELSE [req[c] EXCEPT !.pc = req[c].arg])
    /\ UNCHANGED move

\* One transaction: access items returned (unless the endpoint's caller opts
\* out), parking allocations ended, occupancy and lease ENDED.
MoveOut(c, returned) ==
    /\ req[c].pc = "moveOutTx"
    /\ returned \/ req[c].arg = ""
    /\ item' = [k \in Items |->
          IF returned /\ item[k].lease = req[c].lease /\ item[k].status = "ISSUED"
          THEN [item[k] EXCEPT !.status = "RETURNED"] ELSE item[k]]
    /\ alloc' = EndAllocations({a \in Allocations : alloc[a].occ = req[c].occ})
    /\ occupancy' = EndOccupancies({req[c].occ})
    /\ lease' = [lease EXCEPT ![req[c].lease].status = "ENDED"]
    /\ Proceed(c, IF req[c].arg = "" THEN Idle ELSE [req[c] EXCEPT !.pc = req[c].arg])
    /\ UNCHANGED move

------------------------------------------------------------------------------
(* Move requests.                                                          *)

\* mutant: only PENDING requests block a new one
RequestCheckPendingOnly(c, l, k) ==
    /\ req[c].pc = "idle"
    /\ lease[l].status = "ACTIVE"
    /\ IF k = "in" THEN lease[l].occ = NoId
       ELSE lease[l].occ # NoId /\ occupancy[lease[l].occ].status = "ACTIVE"
    /\ NoPending(l, k)
    /\ Proceed(c, [Idle EXCEPT !.pc = "request", !.lease = l, !.arg = k])
    /\ UNCHANGED <<lease, occupancy, move, alloc, item>>

RequestCheck(c, l, k) ==
    /\ req[c].pc = "idle"
    /\ lease[l].status = "ACTIVE"
    /\ IF k = "in" THEN lease[l].occ = NoId
       ELSE lease[l].occ # NoId /\ occupancy[lease[l].occ].status = "ACTIVE"
    /\ ~HasOpenRequest(l, k)
    /\ Proceed(c, [Idle EXCEPT !.pc = "request", !.lease = l, !.arg = k])
    /\ UNCHANGED <<lease, occupancy, move, alloc, item>>

CreateMoveRequest(c, q) ==
    /\ req[c].pc = "request"
    /\ move[q].status = "NONE"
    /\ NoPending(req[c].lease, req[c].arg)
    /\ move' = [move EXCEPT ![q] = [kind |-> req[c].arg, status |-> "PENDING",
                                    lease |-> req[c].lease]]
    /\ Done(c)
    /\ UNCHANGED <<lease, occupancy, alloc, item>>

\* mutant: a request that was reviewed before may be reviewed again
ReviewCheckAnyOpen(c, q, verdict) ==
    /\ req[c].pc = "idle"
    /\ move[q].status \in {"PENDING", "REJECTED"}
    /\ Proceed(c, [Idle EXCEPT !.pc = "review", !.move = q, !.arg = verdict])
    /\ UNCHANGED <<lease, occupancy, move, alloc, item>>

ReviewCheck(c, q, verdict) ==
    /\ req[c].pc = "idle"
    /\ move[q].status = "PENDING"
    /\ Proceed(c, [Idle EXCEPT !.pc = "review", !.move = q, !.arg = verdict])
    /\ UNCHANGED <<lease, occupancy, move, alloc, item>>

\* the update by id does not repeat the check
Review(c) ==
    /\ req[c].pc = "review"
    /\ move' = [move EXCEPT ![req[c].move].status = req[c].arg]
    /\ Done(c)
    /\ UNCHANGED <<lease, occupancy, alloc, item>>

ExecuteMoveInCheck(c, l, q) ==
    /\ req[c].pc = "idle"
    /\ lease[l].status = "ACTIVE"
    /\ lease[l].occ = NoId
    /\ lease[l].resident # NoId
    /\ move[q].lease = l /\ move[q].kind = "in" /\ move[q].status = "APPROVED"
    /\ ~UnitOccupied(lease[l].unit)
    /\ ~ResidentHoused(lease[l].resident)
    /\ Proceed(c, [Idle EXCEPT !.pc = "moveInTx", !.lease = l, !.move = q])
    /\ UNCHANGED <<lease, occupancy, move, alloc, item>>

\* mutant: the contract is not linked to the new occupancy
ExecuteMoveInUnlinked(c, o) ==
    /\ req[c].pc = "moveInTx"
    /\ occupancy[o].status = "NONE"
    /\ LET l == lease[req[c].lease]
       IN /\ NoClash(occupancy, l.unit, l.resident)
          /\ occupancy' = [occupancy EXCEPT ![o] = ActiveOccupancy(l.unit, l.resident)]
    /\ lease' = [lease EXCEPT ![req[c].lease].status = "ACTIVE"]
    /\ move' = [move EXCEPT ![req[c].move].status = "COMPLETED"]
    /\ Done(c)
    /\ UNCHANGED <<alloc, item>>

\* mutant: a unit that was taken in the meantime is not refused, its occupancy is
\* linked instead
ExecuteMoveInAdopts(c, o) ==
    /\ req[c].pc = "moveInTx"
    /\ LET l == lease[req[c].lease]
       IN IF NoClash(occupancy, l.unit, l.resident)
          THEN /\ occupancy[o].status = "NONE"
               /\ occupancy' = [occupancy EXCEPT
                                   ![o] = ActiveOccupancy(l.unit, l.resident)]
          ELSE /\ occupancy[o].status = "ACTIVE"
               /\ UNCHANGED occupancy
    /\ lease' = [lease EXCEPT ![req[c].lease].occ = o,
                              ![req[c].lease].status = "ACTIVE"]
    /\ move' = [move EXCEPT ![req[c].move].status = "COMPLETED"]
    /\ Done(c)
    /\ UNCHANGED <<alloc, item>>

ExecuteApprovedMoveIn(c, o) ==
    /\ req[c].pc = "moveInTx"
    /\ occupancy[o].status = "NONE"
    /\ LET l == lease[req[c].lease]
       IN /\ NoClash(occupancy, l.unit, l.resident)
          /\ occupancy' = [occupancy EXCEPT ![o] = ActiveOccupancy(l.unit, l.resident)]
    /\ lease' = [lease EXCEPT ![req[c].lease].occ = o,
                              ![req[c].lease].status = "ACTIVE"]
    /\ move' = [move EXCEPT ![req[c].move].status = "COMPLETED"]
    /\ Done(c)
    /\ UNCHANGED <<alloc, item>>

ExecuteMoveOutCheck(c, l, q) ==
    /\ req[c].pc = "idle"
    /\ lease[l].occ # NoId
    /\ move[q].lease = l /\ move[q].kind = "out" /\ move[q].status = "APPROVED"
    /\ Proceed(c, [Idle EXCEPT !.pc = "moveOutRead", !.lease = l, !.move = q,
                               !.arg = "complete"])
    /\ UNCHANGED <<lease, occupancy, move, alloc, item>>

\* mutant: the request gets the status of a contract
CompleteMoveOutAsLease(c, early) ==
    /\ req[c].pc = "complete"
    /\ move' = [move EXCEPT ![req[c].move].status = "ENDED"]
    /\ lease' = IF early THEN [lease EXCEPT ![req[c].lease].status = "CANCELLED"]
                ELSE lease
    /\ Done(c)
    /\ UNCHANGED <<occupancy, alloc, item>>

\* After moveOut committed: the request is COMPLETED and a contract left before
\* its end date becomes CANCELLED.
CompleteMoveOut(c, early) ==
    /\ req[c].pc = "complete"
    /\ move' = [move EXCEPT ![req[c].move].status = "COMPLETED"]
    /\ lease' = IF early THEN [lease EXCEPT ![req[c].lease].status = "CANCELLED"]
                ELSE lease
    /\ Done(c)
    /\ UNCHANGED <<occupancy, alloc, item>>

------------------------------------------------------------------------------
(* Direct move-in, occupancies and resident grants.                        *)

\* The transaction starts with the lock on the unit; s is the parking slot asked
\* for, if any.
DirectMoveInCheck(c, u, r, s) ==
    /\ req[c].pc = "idle"
    /\ ~UnitLocked(u)
    /\ ~UnitOccupied(u)
    /\ ~ResidentHoused(r)
    /\ s # NoId => ~SlotTaken(s)
    /\ Proceed(c, [Idle EXCEPT !.pc = "direct", !.unit = u, !.resident = r,
                               !.slot = s])
    /\ UNCHANGED <<lease, occupancy, move, alloc, item>>

\* A set of at most one new row: inserted only when asked for.
OptionalRow(wanted, S) == IF wanted THEN {{x} : x \in S} ELSE {{}}

DirectMoveIn(c, o, l, A, K) ==
    /\ req[c].pc = "direct"
    /\ occupancy[o].status = "NONE" /\ lease[l].status = "NONE"
    /\ NoClash(occupancy, req[c].unit, req[c].resident)
    /\ A \in OptionalRow(req[c].slot # NoId,
                         {a \in Allocations : alloc[a].status = "NONE"})
    /\ \A k \in K : item[k].status = "NONE"
    /\ occupancy' = [occupancy EXCEPT
                        ![o] = ActiveOccupancy(req[c].unit, req[c].resident)]
    /\ lease' = [lease EXCEPT ![l] = [status |-> "ACTIVE", unit |-> req[c].unit,
                                      resident |-> NoId, occ |-> o]]
    /\ alloc' = [a \in Allocations |-> IF a \in A
          THEN [status |-> "OPEN", slot |-> req[c].slot, occ |-> o, unit |-> NoId]
          ELSE alloc[a]]
    /\ item' = [k \in Items |-> IF k \in K THEN [status |-> "ISSUED", lease |-> l]
                                ELSE item[k]]
    /\ Done(c)
    /\ UNCHANGED move

OccupyCheck(c, u, r) ==
    /\ req[c].pc = "idle"
    /\ ~UnitOccupied(u)
    /\ ~ResidentHoused(r)
    /\ Proceed(c, [Idle EXCEPT !.pc = "occupy", !.unit = u, !.resident = r])
    /\ UNCHANGED <<lease, occupancy, move, alloc, item>>

CreateOccupancy(c, o) ==
    /\ req[c].pc = "occupy"
    /\ occupancy[o].status = "NONE"
    /\ NoClash(occupancy, req[c].unit, req[c].resident)
    /\ occupancy' = [occupancy EXCEPT
                        ![o] = ActiveOccupancy(req[c].unit, req[c].resident)]
    /\ Done(c)
    /\ UNCHANGED <<lease, move, alloc, item>>

\* applyResidentGrant ADD or MOVE.  A resident who already occupies the unit
\* changes nothing; the cases below insert a row.
GrantCheck(c, u, r, mode) ==
    /\ req[c].pc = "idle"
    /\ ~UnitLocked(u)
    /\ ~UnitOccupied(u)
    /\ mode = "ADD" => ~ResidentHoused(r)
    /\ Proceed(c, [Idle EXCEPT !.pc = "grant", !.unit = u, !.resident = r,
                               !.arg = mode])
    /\ UNCHANGED <<lease, occupancy, move, alloc, item>>

\* MOVE ends the resident's occupancies in the building of the new unit only; the
\* resident index refuses the insert when another building still houses them.
ApplyResidentGrant(c, o) ==
    /\ req[c].pc = "grant"
    /\ occupancy[o].status = "NONE"
    /\ LET u == req[c].unit
           r == req[c].resident
           rows == EndOccupancies(IF req[c].arg = "MOVE"
                                  THEN {x \in ActiveInBuilding(r, BuildingOf[u]) :
                                            occupancy[x].unit # u}
                                  ELSE {})
       IN /\ NoClash(rows, u, r)
          /\ occupancy' = [rows EXCEPT ![o] = ActiveOccupancy(u, r)]
    /\ Done(c)
    /\ UNCHANGED <<lease, move, alloc, item>>

\* applyResidentGrant MOVE_OUT: one UPDATE; lease and parking are not touched.
GrantMoveOut(c, r, b) ==
    /\ req[c].pc = "idle"
    /\ ActiveInBuilding(r, b) # {}
    /\ occupancy' = EndOccupancies(ActiveInBuilding(r, b))
    /\ UNCHANGED <<lease, move, alloc, item, req>>

------------------------------------------------------------------------------
(* Parking allocations.                                                    *)

\* mutant: slots allocated to a unit count as free
AllocateCheckOccupanciesOnly(c, s, o, u) ==
    /\ req[c].pc = "idle"
    /\ (o = NoId) # (u = NoId)
    /\ o # NoId => LeaseContext(o)
    /\ ~\E a \in Allocations :
           alloc[a].status = "OPEN" /\ alloc[a].slot = s /\ alloc[a].unit = NoId
    /\ Proceed(c, [Idle EXCEPT !.pc = "allocate", !.slot = s, !.occ = o, !.unit = u])
    /\ UNCHANGED <<lease, occupancy, move, alloc, item>>

\* o or u is NoId: an allocation belongs to an occupancy or to a unit.
AllocateCheck(c, s, o, u) ==
    /\ req[c].pc = "idle"
    /\ (o = NoId) # (u = NoId)
    /\ o # NoId => LeaseContext(o)
    /\ ~SlotTaken(s)
    /\ Proceed(c, [Idle EXCEPT !.pc = "allocate", !.slot = s, !.occ = o, !.unit = u])
    /\ UNCHANGED <<lease, occupancy, move, alloc, item>>

Allocate(c, a) ==
    /\ req[c].pc = "allocate"
    /\ alloc[a].status = "NONE"
    /\ alloc' = [alloc EXCEPT ![a] = [status |-> "OPEN", slot |-> req[c].slot,
                                      occ |-> req[c].occ, unit |-> req[c].unit]]
    /\ Done(c)
    /\ UNCHANGED <<lease, occupancy, move, item>>

\* The allocation of an occupancy can be ended only in an active lease context.
EndAllocation(c, a) ==
    /\ req[c].pc = "idle"
    /\ alloc[a].status = "OPEN"
    /\ alloc[a].occ # NoId => LeaseContext(alloc[a].occ)
    /\ alloc' = EndAllocations({a})
    /\ UNCHANGED <<lease, occupancy, move, item, req>>

EndAllForOccupancy(c, o) ==
    /\ req[c].pc = "idle"
    /\ LeaseContext(o)
    /\ alloc' = EndAllocations({a \in Allocations : alloc[a].occ = o})
    /\ UNCHANGED <<lease, occupancy, move, item, req>>

EndAllForUnit(c, u) ==
    /\ req[c].pc = "idle"
    /\ alloc' = EndAllocations({a \in Allocations : alloc[a].unit = u})
    /\ UNCHANGED <<lease, occupancy, move, item, req>>

------------------------------------------------------------------------------
(* Access cards and parking stickers.                                      *)

IssueItem(c, l, k) ==
    /\ req[c].pc = "idle"
    /\ lease[l].status # "NONE"
    /\ item[k].status = "NONE"
    /\ item' = [item EXCEPT ![k] = [status |-> "ISSUED", lease |-> l]]
    /\ UNCHANGED <<lease, occupancy, move, alloc, req>>

ValidTransition(current, next) ==
    \/ current = next
    \/ current = "ISSUED" /\ next \in {"RETURNED", "DEACTIVATED"}
    \/ current = "RETURNED" /\ next = "DEACTIVATED"

ItemStatusCheck(c, k, next) ==
    /\ req[c].pc = "idle"
    /\ item[k].status \in ItemStatuses
    /\ ValidTransition(item[k].status, next)
    /\ Proceed(c, [Idle EXCEPT !.pc = "itemStatus", !.item = k, !.arg = next])
    /\ UNCHANGED <<lease, occupancy, move, alloc, item>>

UpdateItemStatus(c) ==
    /\ req[c].pc = "itemStatus"
    /\ item[req[c].item].status # "DELETED"
    /\ item' = [item EXCEPT ![req[c].item].status = req[c].arg]
    /\ Done(c)
    /\ UNCHANGED <<lease, occupancy, move, alloc>>

DeleteItem(c, k) ==
    /\ req[c].pc = "idle"
    /\ item[k].status \in ItemStatuses
    /\ item' = [item EXCEPT ![k].status = "DELETED"]
    /\ UNCHANGED <<lease, occupancy, move, alloc, req>>

------------------------------------------------------------------------------
\* The request fails or its process dies between two steps.
Abandon(c) ==
    /\ req[c].pc # "idle"
    /\ Done(c)
    /\ UNCHANGED <<lease, occupancy, move, alloc, item>>

ContractStep(c) ==
    \/ \E u \in Units, r \in Residents : CreateDraftCheck(c, u, r)
    \/ \E l \in Leases : \/ CreateDraftContract(c, l) \/ ActivateCheck(c, l)
                         \/ CancelCheck(c, l) \/ MoveOutCall(c, l)
    \/ ActivateContract(c) \/ CancelContract(c) \/ MoveOutCheck(c)
    \/ \E returned \in BOOLEAN : MoveOut(c, returned)

MoveRequestStep(c) ==
    \/ \E l \in Leases, k \in {"in", "out"} : RequestCheck(c, l, k)
    \/ \E q \in MoveRequests : \/ CreateMoveRequest(c, q)
                               \/ ReviewCheck(c, q, "APPROVED")
                               \/ ReviewCheck(c, q, "REJECTED")
    \/ Review(c)
    \/ \E l \in Leases, q \in MoveRequests : \/ ExecuteMoveInCheck(c, l, q)
                                             \/ ExecuteMoveOutCheck(c, l, q)
    \/ \E o \in Occupancies : ExecuteApprovedMoveIn(c, o)
    \/ \E early \in BOOLEAN : CompleteMoveOut(c, early)

OccupancyStep(c) ==
    \/ \E u \in Units, r \in Residents :
        \/ \E s \in Nullable(Slots) : DirectMoveInCheck(c, u, r, s)
        \/ OccupyCheck(c, u, r)
        \/ \E mode \in {"ADD", "MOVE"} : GrantCheck(c, u, r, mode)
    \/ \E o \in Occupancies, l \in Leases, A \in SUBSET Allocations, K \in SUBSET Items :
            DirectMoveIn(c, o, l, A, K)
    \/ \E o \in Occupancies : CreateOccupancy(c, o) \/ ApplyResidentGrant(c, o)
    \/ \E r \in Residents, b \in Buildings : GrantMoveOut(c, r, b)

ParkingStep(c) ==
    \/ \E s \in Slots, o \in Nullable(Occupancies), u \in Nullable(Units) :
            AllocateCheck(c, s, o, u)
    \/ \E a \in Allocations : Allocate(c, a) \/ EndAllocation(c, a)
    \/ \E o \in Occupancies : EndAllForOccupancy(c, o)
    \/ \E u \in Units : EndAllForUnit(c, u)

ItemStep(c) ==
    \/ \E k \in Items : \/ \E l \in Leases : IssueItem(c, l, k)
                        \/ \E next \in ItemStatuses : ItemStatusCheck(c, k, next)
                        \/ DeleteItem(c, k)
    \/ UpdateItemStatus(c)

Next == \E c \in Requests :
    \/ ContractStep(c) \/ MoveRequestStep(c) \/ OccupancyStep(c)
    \/ ParkingStep(c) \/ ItemStep(c) \/ Abandon(c)

Spec == Init /\ [][Next]_vars

------------------------------------------------------------------------------
(* Properties that hold for any number of concurrent requests.             *)

\* A unit has at most one ACTIVE occupancy and so has a resident, whichever of
\* the four ways to create one (direct move-in, approved move-in, occupancies
\* endpoint, resident grant) race with each other.
OneActiveOccupancy ==
    \A o1, o2 \in Occupancies :
        /\ occupancy[o1].status = "ACTIVE" /\ occupancy[o2].status = "ACTIVE"
        /\ \/ occupancy[o1].unit = occupancy[o2].unit
           \/ occupancy[o1].resident = occupancy[o2].resident
        => o1 = o2

\* The occupancy a contract refers to is an occupancy of the contract's unit by
\* the contract's resident, and no two contracts share an occupancy, although
\* the link is written by handlers that read the contract earlier.
LeaseMatchesOccupancy ==
    \A l \in Leases : lease[l].occ # NoId =>
        /\ occupancy[lease[l].occ].status # "NONE"
        /\ occupancy[lease[l].occ].unit = lease[l].unit
        /\ lease[l].resident \in {NoId, occupancy[lease[l].occ].resident}
        /\ \A m \in Leases : lease[m].occ = lease[l].occ => m = l

\* A COMPLETED move-in request was executed: its contract has an occupancy.
CompletedMoveInOccupied ==
    \A q \in MoveRequests : move[q].kind = "in" /\ move[q].status = "COMPLETED"
        => lease[move[q].lease].occ # NoId

\* who lives where, for the refinement
Lives == {<<occupancy[o].resident, occupancy[o].unit>> :
             o \in {x \in Occupancies : occupancy[x].status = "ACTIVE"}}

Register == INSTANCE OccupancyRegister WITH lives <- Lives

\* Racing handlers implement the register of residents and units: each commit
\* moves one resident in, out or across, never into an occupied unit.
ImplementsRegister == Register!Spec

------------------------------------------------------------------------------
(* Properties of requests that run one at a time, each of which may fail or *)
(* die between two of its transactions.                                     *)

\* An ENDED or CANCELLED contract has no resident in place: cancelling or
\* moving out ends the occupancy first.
ClosedLeaseVacated ==
    \A l \in Leases : lease[l].status \in {"ENDED", "CANCELLED"} /\ lease[l].occ # NoId
        => occupancy[lease[l].occ].status = "ENDED"

\* Closing a contract gives its parking slots back: the occupancy of an ENDED or
\* CANCELLED contract holds no open allocation.
ClosedLeaseReleasedParking ==
    \A l \in Leases, a \in Allocations :
        lease[l].status \in {"ENDED", "CANCELLED"} /\ alloc[a].status = "OPEN"
        => alloc[a].occ = NoId \/ alloc[a].occ # lease[l].occ

\* A parking slot has at most one open allocation.
SlotAllocatedOnce ==
    \A a, b \in Allocations :
        alloc[a].status = "OPEN" /\ alloc[b].status = "OPEN" /\ alloc[a].slot = alloc[b].slot
        => a = b

\* A contract has at most one open (PENDING or APPROVED) request of each kind.
OneOpenMoveRequest ==
    \A q1, q2 \in MoveRequests :
        /\ move[q1].status \in Open /\ move[q2].status \in Open
        /\ move[q1].lease = move[q2].lease /\ move[q1].kind = move[q2].kind
        => q1 = q2

\* Only PENDING requests are approved or rejected: a request that was rejected,
\* cancelled or completed keeps that status.
ReviewedIsFinal ==
    [][\A q \in MoveRequests :
          move[q].status \in {"REJECTED", "CANCELLED", "COMPLETED"}
          => move'[q].status = move[q].status]_vars

==============================================================================
