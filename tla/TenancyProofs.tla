---------------------------- MODULE TenancyProofs ----------------------------
(***************************************************************************)
(* Proofs about Tenancy for any number of concurrent requests, units,      *)
(* residents, contracts and rows; and, in the last section, for requests   *)
(* of which no two decide on the same contract at once.                    *)
(***************************************************************************)
EXTENDS Tenancy, TLAPS

------------------------------------------------------------------------------
(* Type correctness.                                                       *)

\* The ids and the argument a handler uses at its program point are there.
ReqFine(r) ==
    /\ r.pc \in {"activate", "cancel", "moveOutRead", "moveOutTx", "complete",
                 "request", "moveInTx"} => r.lease \in Leases
    /\ r.pc \in {"moveOutRead", "moveOutTx"} =>
           /\ r.arg \in {"", "cancel", "complete"}
           /\ r.arg = "complete" => r.move \in MoveRequests
    /\ r.pc = "moveOutTx" => r.occ \in Occupancies
    /\ r.pc \in {"review", "moveInTx", "complete"} => r.move \in MoveRequests
    /\ r.pc = "request" => r.arg \in {"in", "out"}
    /\ r.pc = "review" => r.arg \in {"APPROVED", "REJECTED"}
    /\ r.pc \in {"draft", "direct", "occupy", "grant"} =>
           r.unit \in Units /\ r.resident \in Residents
    /\ r.pc = "allocate" => r.slot \in Slots
    /\ r.pc = "itemStatus" => r.item \in Items /\ r.arg \in ItemStatuses

ReqOK == \A c \in Requests : ReqFine(req[c])

TypeInv == TypeOK /\ ReqOK

\* Idle is a request state.
LEMMA IdleType == Idle \in ReqState /\ ReqFine(Idle)
BY DEF Idle, ReqState, PCs, Args, Nullable, ReqFine

\* A request goes on with a record whose ids are there.
LEMMA ProceedStep ==
    ASSUME TypeInv, NEW c \in Requests, NEW r \in ReqState, ReqFine(r), Proceed(c, r)
    PROVE  req' \in [Requests -> ReqState] /\ ReqOK'
BY DEF TypeInv, TypeOK, ReqOK, Proceed

\* A request is over.
LEMMA DoneStep ==
    ASSUME TypeInv, NEW c \in Requests, Done(c)
    PROVE  req' \in [Requests -> ReqState] /\ ReqOK'
BY IdleType, ProceedStep DEF Done

\* The steps that only read: the checks of a handler.
Check(c) ==
    \/ \E u \in Units, r \in Residents : CreateDraftCheck(c, u, r)
    \/ \E l \in Leases : ActivateCheck(c, l) \/ CancelCheck(c, l) \/ MoveOutCall(c, l)
    \/ MoveOutCheck(c)
    \/ \E l \in Leases, k \in {"in", "out"} : RequestCheck(c, l, k)
    \/ \E q \in MoveRequests : ReviewCheck(c, q, "APPROVED") \/ ReviewCheck(c, q, "REJECTED")
    \/ \E l \in Leases, q \in MoveRequests : ExecuteMoveInCheck(c, l, q)
                                             \/ ExecuteMoveOutCheck(c, l, q)
    \/ \E u \in Units, r \in Residents :
        \/ \E s \in Nullable(Slots) : DirectMoveInCheck(c, u, r, s)
        \/ OccupyCheck(c, u, r)
        \/ \E mode \in {"ADD", "MOVE"} : GrantCheck(c, u, r, mode)
    \/ \E s \in Slots, o \in Nullable(Occupancies), u \in Nullable(Units) :
            AllocateCheck(c, s, o, u)
    \/ \E k \in Items, next \in ItemStatuses : ItemStatusCheck(c, k, next)
    \/ Abandon(c)

\* The steps that write rows.
Write(c) ==
    \/ \E l \in Leases : CreateDraftContract(c, l)
    \/ ActivateContract(c) \/ CancelContract(c)
    \/ \E returned \in BOOLEAN : MoveOut(c, returned)
    \/ \E q \in MoveRequests : CreateMoveRequest(c, q)
    \/ Review(c)
    \/ \E o \in Occupancies : ExecuteApprovedMoveIn(c, o)
    \/ \E early \in BOOLEAN : CompleteMoveOut(c, early)
    \/ \E o \in Occupancies, l \in Leases, A \in SUBSET Allocations, K \in SUBSET Items :
            DirectMoveIn(c, o, l, A, K)
    \/ \E o \in Occupancies : CreateOccupancy(c, o) \/ ApplyResidentGrant(c, o)
    \/ \E r \in Residents, b \in Buildings : GrantMoveOut(c, r, b)
    \/ \E a \in Allocations : Allocate(c, a) \/ EndAllocation(c, a)
    \/ \E o \in Occupancies : EndAllForOccupancy(c, o)
    \/ \E u \in Units : EndAllForUnit(c, u)
    \/ \E k \in Items : (\E l \in Leases : IssueItem(c, l, k)) \/ DeleteItem(c, k)
    \/ UpdateItemStatus(c)

\* Every step of a request reads or writes.
LEMMA StepKinds == Next <=> \E c \in Requests : Check(c) \/ Write(c)
BY DEF Next, ContractStep, MoveRequestStep, OccupancyStep, ParkingStep, ItemStep,
       Check, Write

\* A check changes no row.
LEMMA CheckReads ==
    ASSUME NEW c \in Requests, Check(c)
    PROVE  UNCHANGED <<lease, occupancy, move, alloc, item>>
BY DEF Check, CreateDraftCheck, ActivateCheck, CancelCheck, MoveOutCall, MoveOutCheck,
       RequestCheck, ReviewCheck, ExecuteMoveInCheck, ExecuteMoveOutCheck,
       DirectMoveInCheck, OccupyCheck, GrantCheck, AllocateCheck, ItemStatusCheck, Abandon

\* A check goes on with a record whose ids are there.
LEMMA CheckRecord ==
    ASSUME TypeInv, NEW c \in Requests, Check(c)
    PROVE  \E r \in ReqState : ReqFine(r) /\ Proceed(c, r)
<1> USE DEF Idle, ReqState, PCs, Args, Nullable, ReqFine, MoveStatuses, ItemStatuses
<1> DEFINE Goal == \E r \in ReqState : ReqFine(r) /\ Proceed(c, r)
<1>1. ASSUME NEW u \in Units, NEW r \in Residents, CreateDraftCheck(c, u, r) PROVE Goal
  <2> DEFINE x == [Idle EXCEPT !.pc = "draft", !.unit = u, !.resident = r]
  <2>1. x \in ReqState /\ ReqFine(x)
    OBVIOUS
  <2>2. QED
    BY <1>1, <2>1 DEF CreateDraftCheck
<1>2. ASSUME NEW l \in Leases, ActivateCheck(c, l) PROVE Goal
  <2> DEFINE x == [Idle EXCEPT !.pc = "activate", !.lease = l]
  <2>1. x \in ReqState /\ ReqFine(x)
    OBVIOUS
  <2>2. QED
    BY <1>2, <2>1 DEF ActivateCheck
<1>3. ASSUME NEW l \in Leases, CancelCheck(c, l) PROVE Goal
  <2> DEFINE x(pc) == [Idle EXCEPT !.pc = pc, !.lease = l, !.arg = "cancel"]
  <2>1. \A pc \in {"moveOutRead", "cancel"} : x(pc) \in ReqState /\ ReqFine(x(pc))
    OBVIOUS
  <2>2. \E pc \in {"moveOutRead", "cancel"} : Proceed(c, x(pc))
    BY <1>3 DEF CancelCheck
  <2> HIDE DEF x, ReqState, ReqFine
  <2>3. QED
    BY <2>1, <2>2
<1>4. ASSUME NEW l \in Leases, MoveOutCall(c, l) PROVE Goal
  <2> DEFINE x == [Idle EXCEPT !.pc = "moveOutRead", !.lease = l]
  <2>1. x \in ReqState /\ ReqFine(x)
    OBVIOUS
  <2>2. QED
    BY <1>4, <2>1 DEF MoveOutCall
<1>5. CASE MoveOutCheck(c)
  <2> DEFINE l == lease[req[c].lease]
             x == [req[c] EXCEPT !.pc = "moveOutTx", !.occ = l.occ]
  <2>1. req[c] \in ReqState /\ ReqFine(req[c]) /\ l.occ \in Nullable(Occupancies)
    BY <1>5 DEF MoveOutCheck, TypeInv, TypeOK, ReqOK, LeaseRow
  <2>2. CASE l.status = "ACTIVE" /\ l.occ # NoId
    <3>1. x \in ReqState /\ ReqFine(x)
      BY <1>5, <2>1, <2>2 DEF MoveOutCheck
    <3>2. QED
      BY <1>5, <2>2, <3>1 DEF MoveOutCheck
  <2>3. CASE ~(l.status = "ACTIVE" /\ l.occ # NoId)
    <3>1. Proceed(c, Idle)
      BY <1>5, <2>3 DEF MoveOutCheck
    <3>2. QED
      BY <3>1, IdleType
  <2>4. QED
    BY <2>2, <2>3
<1>6. ASSUME NEW l \in Leases, NEW k \in {"in", "out"}, RequestCheck(c, l, k) PROVE Goal
  <2> DEFINE x == [Idle EXCEPT !.pc = "request", !.lease = l, !.arg = k]
  <2>1. x \in ReqState /\ ReqFine(x)
    OBVIOUS
  <2>2. QED
    BY <1>6, <2>1 DEF RequestCheck
<1>7. ASSUME NEW q \in MoveRequests, NEW v \in {"APPROVED", "REJECTED"}, ReviewCheck(c, q, v)
      PROVE  Goal
  <2> DEFINE x == [Idle EXCEPT !.pc = "review", !.move = q, !.arg = v]
  <2>1. x \in ReqState /\ ReqFine(x)
    OBVIOUS
  <2>2. QED
    BY <1>7, <2>1 DEF ReviewCheck
<1>8. ASSUME NEW l \in Leases, NEW q \in MoveRequests, ExecuteMoveInCheck(c, l, q) PROVE Goal
  <2> DEFINE x == [Idle EXCEPT !.pc = "moveInTx", !.lease = l, !.move = q]
  <2>1. x \in ReqState /\ ReqFine(x)
    OBVIOUS
  <2>2. Proceed(c, x)
    BY <1>8 DEF ExecuteMoveInCheck
  <2> HIDE DEF x, ReqState, ReqFine
  <2>3. QED
    BY <2>1, <2>2
<1>9. ASSUME NEW l \in Leases, NEW q \in MoveRequests, ExecuteMoveOutCheck(c, l, q)
      PROVE  Goal
  <2> DEFINE x == [Idle EXCEPT !.pc = "moveOutRead", !.lease = l, !.move = q,
                               !.arg = "complete"]
  <2>1. x \in ReqState /\ ReqFine(x)
    OBVIOUS
  <2>2. QED
    BY <1>9, <2>1 DEF ExecuteMoveOutCheck
<1>10. ASSUME NEW u \in Units, NEW r \in Residents, NEW s \in Nullable(Slots),
              DirectMoveInCheck(c, u, r, s)
       PROVE  Goal
  <2> DEFINE x == [Idle EXCEPT !.pc = "direct", !.unit = u, !.resident = r, !.slot = s]
  <2>1. x \in ReqState /\ ReqFine(x)
    OBVIOUS
  <2>2. QED
    BY <1>10, <2>1 DEF DirectMoveInCheck
<1>11. ASSUME NEW u \in Units, NEW r \in Residents, OccupyCheck(c, u, r) PROVE Goal
  <2> DEFINE x == [Idle EXCEPT !.pc = "occupy", !.unit = u, !.resident = r]
  <2>1. x \in ReqState /\ ReqFine(x)
    OBVIOUS
  <2>2. QED
    BY <1>11, <2>1 DEF OccupyCheck
<1>12. ASSUME NEW u \in Units, NEW r \in Residents, NEW m \in {"ADD", "MOVE"},
              GrantCheck(c, u, r, m)
       PROVE  Goal
  <2> DEFINE x == [Idle EXCEPT !.pc = "grant", !.unit = u, !.resident = r, !.arg = m]
  <2>1. x \in ReqState /\ ReqFine(x)
    OBVIOUS
  <2>2. QED
    BY <1>12, <2>1 DEF GrantCheck
<1>13. ASSUME NEW s \in Slots, NEW o \in Nullable(Occupancies), NEW u \in Nullable(Units),
              AllocateCheck(c, s, o, u)
       PROVE  Goal
  <2> DEFINE x == [Idle EXCEPT !.pc = "allocate", !.slot = s, !.occ = o, !.unit = u]
  <2>1. x \in ReqState /\ ReqFine(x)
    OBVIOUS
  <2>2. QED
    BY <1>13, <2>1 DEF AllocateCheck
<1>14. ASSUME NEW k \in Items, NEW n \in ItemStatuses, ItemStatusCheck(c, k, n) PROVE Goal
  <2> DEFINE x == [Idle EXCEPT !.pc = "itemStatus", !.item = k, !.arg = n]
  <2>1. x \in ReqState /\ ReqFine(x)
    OBVIOUS
  <2>2. QED
    BY <1>14, <2>1 DEF ItemStatusCheck
<1>15. CASE Abandon(c)
  BY <1>15, IdleType DEF Abandon, Done
<1>16. QED
  BY <1>1, <1>2, <1>3, <1>4, <1>5, <1>6, <1>7, <1>8, <1>9, <1>10, <1>11, <1>12, <1>13,
     <1>14, <1>15 DEF Check

\* Checks keep the type invariant.
LEMMA TypeCheck ==
    ASSUME TypeInv, NEW c \in Requests, Check(c)
    PROVE  TypeInv'
<1>1. PICK r \in ReqState : ReqFine(r) /\ Proceed(c, r)
  BY CheckRecord
<1>2. req' \in [Requests -> ReqState] /\ ReqOK'
  BY <1>1, ProceedStep
<1>3. QED
  BY <1>2, CheckReads DEF TypeInv, TypeOK

\* Setting the status of a contract keeps the type of the table.
LEMMA LeaseStatusType ==
    ASSUME TypeOK, NEW l \in Leases, NEW x \in LeaseStatuses
    PROVE  [lease EXCEPT ![l].status = x] \in [Leases -> LeaseRow]
<1>1. [lease[l] EXCEPT !.status = x] \in LeaseRow
  BY DEF TypeOK, LeaseRow
<1>2. QED
  BY <1>1 DEF TypeOK

\* Setting the status of a move request keeps the type of the table.
LEMMA MoveStatusType ==
    ASSUME TypeOK, NEW q \in MoveRequests, NEW x \in MoveStatuses
    PROVE  [move EXCEPT ![q].status = x] \in [MoveRequests -> MoveRow]
<1>1. [move[q] EXCEPT !.status = x] \in MoveRow
  BY DEF TypeOK, MoveRow
<1>2. QED
  BY <1>1 DEF TypeOK

\* Ending occupancies keeps the type of the table.
LEMMA EndOccupanciesType ==
    ASSUME TypeOK, NEW S
    PROVE  EndOccupancies(S) \in [Occupancies -> OccupancyRow]
BY DEF TypeOK, EndOccupancies, OccupancyRow

\* Ending parking allocations keeps the type of the table.
LEMMA EndAllocationsType ==
    ASSUME TypeOK, NEW S
    PROVE  EndAllocations(S) \in [Allocations -> AllocRow]
BY DEF TypeOK, EndAllocations, AllocRow

\* A new occupancy row has its type.
LEMMA ActiveOccupancyType ==
    ASSUME NEW u \in Nullable(Units), NEW r \in Nullable(Residents)
    PROVE  ActiveOccupancy(u, r) \in OccupancyRow
BY DEF ActiveOccupancy, OccupancyRow

\* Contract steps keep the type invariant.
LEMMA TypeContract ==
    ASSUME TypeInv, NEW c \in Requests,
           \/ \E l \in Leases : CreateDraftContract(c, l)
           \/ ActivateContract(c) \/ CancelContract(c)
           \/ \E returned \in BOOLEAN : MoveOut(c, returned)
    PROVE  TypeInv'
<1> TypeOK /\ req[c] \in ReqState /\ ReqFine(req[c])
  BY DEF TypeInv, TypeOK, ReqOK
<1>1. ASSUME NEW l \in Leases, CreateDraftContract(c, l) PROVE TypeInv'
  <2>1. [status |-> "DRAFT", unit |-> req[c].unit, resident |-> req[c].resident,
         occ |-> NoId] \in LeaseRow
    BY DEF ReqState, LeaseRow, LeaseStatuses, Nullable
  <2>2. lease' \in [Leases -> LeaseRow]
    BY <1>1, <2>1 DEF CreateDraftContract, TypeOK
  <2>3. QED
    BY <1>1, <2>2, DoneStep DEF CreateDraftContract, TypeInv, TypeOK
<1>2. CASE ActivateContract(c)
  <2>1. req[c].lease \in Leases
    BY <1>2 DEF ActivateContract, ReqFine
  <2>2. lease' \in [Leases -> LeaseRow]
    BY <1>2, <2>1, LeaseStatusType DEF ActivateContract, LeaseStatuses
  <2>3. QED
    BY <1>2, <2>2, DoneStep DEF ActivateContract, TypeInv, TypeOK
<1>3. CASE CancelContract(c)
  <2>1. req[c].lease \in Leases
    BY <1>3 DEF CancelContract, ReqFine
  <2>2. lease' \in [Leases -> LeaseRow]
    BY <1>3, <2>1, LeaseStatusType DEF CancelContract, LeaseStatuses
  <2>3. move' \in [MoveRequests -> MoveRow]
    BY <1>3 DEF CancelContract, TypeOK, MoveRow, MoveStatuses
  <2>4. QED
    BY <1>3, <2>2, <2>3, DoneStep DEF CancelContract, TypeInv, TypeOK
<1>4. ASSUME NEW returned \in BOOLEAN, MoveOut(c, returned) PROVE TypeInv'
  <2>1. req[c].lease \in Leases
    BY <1>4 DEF MoveOut, ReqFine
  <2>2. lease' \in [Leases -> LeaseRow]
    BY <1>4, <2>1, LeaseStatusType DEF MoveOut, LeaseStatuses
  <2>3. item' \in [Items -> ItemRow]
    BY <1>4 DEF MoveOut, TypeOK, ItemRow, ItemStatuses
  <2>4. alloc' \in [Allocations -> AllocRow] /\ occupancy' \in [Occupancies -> OccupancyRow]
    BY <1>4, EndAllocationsType, EndOccupanciesType DEF MoveOut
  <2>5. req' \in [Requests -> ReqState] /\ ReqOK'
    <3>1. CASE req[c].arg = ""
      BY <1>4, <3>1, DoneStep DEF MoveOut, Done
    <3>2. CASE req[c].arg # ""
      <4> DEFINE x == [req[c] EXCEPT !.pc = req[c].arg]
      <4>1. req[c].arg \in {"cancel", "complete"} /\ req[c].pc = "moveOutTx"
        BY <1>4, <3>2 DEF MoveOut, ReqFine
      <4>2. x \in ReqState
        BY <4>1 DEF ReqState, PCs
      <4>3. ReqFine(x)
        BY <4>1 DEF ReqFine, ReqState
      <4>4. Proceed(c, x)
        BY <1>4, <3>2 DEF MoveOut
      <4> HIDE DEF x
      <4>5. QED
        BY <4>2, <4>3, <4>4, ProceedStep
    <3>3. QED
      BY <3>1, <3>2
  <2>6. QED
    BY <1>4, <2>2, <2>3, <2>4, <2>5 DEF MoveOut, TypeInv, TypeOK
<1>5. QED
  BY <1>1, <1>2, <1>3, <1>4

\* Move-request steps keep the type invariant.
LEMMA TypeMove ==
    ASSUME TypeInv, NEW c \in Requests,
           \/ \E q \in MoveRequests : CreateMoveRequest(c, q)
           \/ Review(c)
           \/ \E o \in Occupancies : ExecuteApprovedMoveIn(c, o)
           \/ \E early \in BOOLEAN : CompleteMoveOut(c, early)
    PROVE  TypeInv'
<1> TypeOK /\ req[c] \in ReqState /\ ReqFine(req[c])
  BY DEF TypeInv, TypeOK, ReqOK
<1>1. ASSUME NEW q \in MoveRequests, CreateMoveRequest(c, q) PROVE TypeInv'
  <2>1. [kind |-> req[c].arg, status |-> "PENDING", lease |-> req[c].lease] \in MoveRow
    BY <1>1 DEF CreateMoveRequest, ReqFine, MoveRow, MoveStatuses, Nullable
  <2>2. move' \in [MoveRequests -> MoveRow]
    BY <1>1, <2>1 DEF CreateMoveRequest, TypeOK
  <2>3. QED
    BY <1>1, <2>2, DoneStep DEF CreateMoveRequest, TypeInv, TypeOK
<1>2. CASE Review(c)
  <2>1. req[c].move \in MoveRequests /\ req[c].arg \in MoveStatuses
    BY <1>2 DEF Review, ReqFine, MoveStatuses
  <2>2. move' \in [MoveRequests -> MoveRow]
    BY <1>2, <2>1, MoveStatusType DEF Review
  <2>3. QED
    BY <1>2, <2>2, DoneStep DEF Review, TypeInv, TypeOK
<1>3. ASSUME NEW o \in Occupancies, ExecuteApprovedMoveIn(c, o) PROVE TypeInv'
  <2> DEFINE l == req[c].lease
  <2>1. l \in Leases /\ req[c].move \in MoveRequests /\ lease[l] \in LeaseRow
    BY <1>3 DEF ExecuteApprovedMoveIn, ReqFine, TypeOK
  <2>2. move' \in [MoveRequests -> MoveRow]
    BY <1>3, <2>1, MoveStatusType DEF ExecuteApprovedMoveIn, MoveStatuses
  <2>3. ActiveOccupancy(lease[l].unit, lease[l].resident) \in OccupancyRow
    BY <2>1, ActiveOccupancyType DEF LeaseRow
  <2>4. occupancy' \in [Occupancies -> OccupancyRow]
    BY <1>3, <2>3 DEF ExecuteApprovedMoveIn, TypeOK
  <2>5. [lease[l] EXCEPT !.occ = o, !.status = "ACTIVE"] \in LeaseRow
    BY <2>1 DEF LeaseRow, LeaseStatuses, Nullable
  <2>6. lease' = [lease EXCEPT ![l] = [lease[l] EXCEPT !.occ = o, !.status = "ACTIVE"]]
    BY <1>3, <2>1 DEF ExecuteApprovedMoveIn, TypeOK
  <2>7. lease' \in [Leases -> LeaseRow]
    BY <2>5, <2>6 DEF TypeOK
  <2>8. QED
    BY <1>3, <2>2, <2>4, <2>7, DoneStep DEF ExecuteApprovedMoveIn, TypeInv, TypeOK
<1>4. ASSUME NEW early \in BOOLEAN, CompleteMoveOut(c, early) PROVE TypeInv'
  <2>1. req[c].lease \in Leases /\ req[c].move \in MoveRequests
    BY <1>4 DEF CompleteMoveOut, ReqFine
  <2>2. move' \in [MoveRequests -> MoveRow]
    BY <1>4, <2>1, MoveStatusType DEF CompleteMoveOut, MoveStatuses
  <2>3. lease' \in [Leases -> LeaseRow]
    BY <1>4, <2>1, LeaseStatusType DEF CompleteMoveOut, LeaseStatuses, TypeOK
  <2>4. QED
    BY <1>4, <2>2, <2>3, DoneStep DEF CompleteMoveOut, TypeInv, TypeOK
<1>5. QED
  BY <1>1, <1>2, <1>3, <1>4

\* Direct move-ins, occupancies and grants keep the type invariant.
LEMMA TypeOccupancy ==
    ASSUME TypeInv, NEW c \in Requests,
           \/ \E o \in Occupancies, l \in Leases, A \in SUBSET Allocations,
                 K \in SUBSET Items : DirectMoveIn(c, o, l, A, K)
           \/ \E o \in Occupancies : CreateOccupancy(c, o) \/ ApplyResidentGrant(c, o)
           \/ \E r \in Residents, b \in Buildings : GrantMoveOut(c, r, b)
    PROVE  TypeInv'
<1> TypeOK /\ req[c] \in ReqState /\ ReqFine(req[c])
  BY DEF TypeInv, TypeOK, ReqOK
<1> DEFINE u == req[c].unit
           r == req[c].resident
<1>1. ActiveOccupancy(u, r) \in OccupancyRow
  BY ActiveOccupancyType DEF ReqState
<1>2. ASSUME NEW o \in Occupancies, NEW l \in Leases, NEW A \in SUBSET Allocations,
             NEW K \in SUBSET Items, DirectMoveIn(c, o, l, A, K)
      PROVE  TypeInv'
  <2>1. occupancy' \in [Occupancies -> OccupancyRow]
    BY <1>1, <1>2 DEF DirectMoveIn, TypeOK
  <2>2. [status |-> "ACTIVE", unit |-> u, resident |-> NoId, occ |-> o] \in LeaseRow
    BY DEF ReqState, LeaseRow, LeaseStatuses, Nullable
  <2>3. lease' \in [Leases -> LeaseRow]
    BY <1>2, <2>2 DEF DirectMoveIn, TypeOK
  <2>4. [status |-> "OPEN", slot |-> req[c].slot, occ |-> o, unit |-> NoId] \in AllocRow
    BY DEF ReqState, AllocRow, Nullable
  <2>5. alloc' \in [Allocations -> AllocRow]
    BY <1>2, <2>4 DEF DirectMoveIn, TypeOK
  <2>6. [status |-> "ISSUED", lease |-> l] \in ItemRow
    BY DEF ItemRow, ItemStatuses, Nullable
  <2>7. item' \in [Items -> ItemRow]
    BY <1>2, <2>6 DEF DirectMoveIn, TypeOK
  <2>8. QED
    BY <1>2, <2>1, <2>3, <2>5, <2>7, DoneStep DEF DirectMoveIn, TypeInv, TypeOK
<1>3. ASSUME NEW o \in Occupancies, CreateOccupancy(c, o) PROVE TypeInv'
  <2>1. occupancy' \in [Occupancies -> OccupancyRow]
    BY <1>1, <1>3 DEF CreateOccupancy, TypeOK
  <2>2. QED
    BY <1>3, <2>1, DoneStep DEF CreateOccupancy, TypeInv, TypeOK
<1>4. ASSUME NEW o \in Occupancies, ApplyResidentGrant(c, o) PROVE TypeInv'
  <2>1. PICK S : occupancy' = [EndOccupancies(S) EXCEPT ![o] = ActiveOccupancy(u, r)]
    BY <1>4 DEF ApplyResidentGrant
  <2>2. occupancy' \in [Occupancies -> OccupancyRow]
    BY <1>1, <2>1, EndOccupanciesType
  <2>3. QED
    BY <1>4, <2>2, DoneStep DEF ApplyResidentGrant, TypeInv, TypeOK
<1>5. ASSUME NEW r1 \in Residents, NEW b \in Buildings, GrantMoveOut(c, r1, b)
      PROVE  TypeInv'
  <2>1. occupancy' \in [Occupancies -> OccupancyRow]
    BY <1>5, EndOccupanciesType DEF GrantMoveOut
  <2>2. QED
    BY <1>5, <2>1 DEF GrantMoveOut, TypeInv, TypeOK, ReqOK
<1>6. QED
  BY <1>2, <1>3, <1>4, <1>5

\* Parking steps keep the type invariant.
LEMMA TypeParking ==
    ASSUME TypeInv, NEW c \in Requests,
           \/ \E a \in Allocations : Allocate(c, a) \/ EndAllocation(c, a)
           \/ \E o \in Occupancies : EndAllForOccupancy(c, o)
           \/ \E u \in Units : EndAllForUnit(c, u)
    PROVE  TypeInv'
<1> TypeOK /\ req[c] \in ReqState
  BY DEF TypeInv, TypeOK
<1>1. ASSUME NEW a \in Allocations, Allocate(c, a) PROVE TypeInv'
  <2>1. [status |-> "OPEN", slot |-> req[c].slot, occ |-> req[c].occ,
         unit |-> req[c].unit] \in AllocRow
    BY DEF ReqState, AllocRow
  <2>2. alloc' \in [Allocations -> AllocRow]
    BY <1>1, <2>1 DEF Allocate, TypeOK
  <2>3. QED
    BY <1>1, <2>2, DoneStep DEF Allocate, TypeInv, TypeOK
<1>2. ASSUME \/ \E a \in Allocations : EndAllocation(c, a)
             \/ \E o \in Occupancies : EndAllForOccupancy(c, o)
             \/ \E u \in Units : EndAllForUnit(c, u)
      PROVE  TypeInv'
  <2>1. PICK S : alloc' = EndAllocations(S)
    BY <1>2 DEF EndAllocation, EndAllForOccupancy, EndAllForUnit
  <2>2. alloc' \in [Allocations -> AllocRow]
    BY <2>1, EndAllocationsType
  <2>3. UNCHANGED <<lease, occupancy, move, item, req>>
    BY <1>2 DEF EndAllocation, EndAllForOccupancy, EndAllForUnit
  <2>4. QED
    BY <2>2, <2>3 DEF TypeInv, TypeOK, ReqOK
<1>3. QED
  BY <1>1, <1>2

\* Access-item steps keep the type invariant.
LEMMA TypeItem ==
    ASSUME TypeInv, NEW c \in Requests,
           \/ \E k \in Items : (\E l \in Leases : IssueItem(c, l, k)) \/ DeleteItem(c, k)
           \/ UpdateItemStatus(c)
    PROVE  TypeInv'
<1> TypeOK /\ req[c] \in ReqState /\ ReqFine(req[c])
  BY DEF TypeInv, TypeOK, ReqOK
<1>1. ASSUME NEW k \in Items, NEW l \in Leases, IssueItem(c, l, k) PROVE TypeInv'
  <2>1. [status |-> "ISSUED", lease |-> l] \in ItemRow
    BY DEF ItemRow, ItemStatuses, Nullable
  <2>2. QED
    BY <1>1, <2>1 DEF IssueItem, TypeInv, TypeOK, ReqOK
<1>2. ASSUME NEW k \in Items, DeleteItem(c, k) PROVE TypeInv'
  <2>1. [item[k] EXCEPT !.status = "DELETED"] \in ItemRow
    BY DEF TypeOK, ItemRow
  <2>2. item' \in [Items -> ItemRow]
    BY <1>2, <2>1 DEF DeleteItem, TypeOK
  <2>3. QED
    BY <1>2, <2>2 DEF DeleteItem, TypeInv, TypeOK, ReqOK
<1>3. CASE UpdateItemStatus(c)
  <2>1. req[c].item \in Items /\ req[c].arg \in ItemStatuses
    BY <1>3 DEF UpdateItemStatus, ReqFine
  <2>2. [item[req[c].item] EXCEPT !.status = req[c].arg] \in ItemRow
    BY <2>1 DEF TypeOK, ItemRow
  <2>3. item' \in [Items -> ItemRow]
    BY <1>3, <2>1, <2>2 DEF UpdateItemStatus, TypeOK
  <2>4. QED
    BY <1>3, <2>3, DoneStep DEF UpdateItemStatus, TypeInv, TypeOK
<1>4. QED
  BY <1>1, <1>2, <1>3

\* The type invariant holds initially.
LEMMA TypeInit == Init => TypeInv
<1> SUFFICES ASSUME Init PROVE TypeInv
  OBVIOUS
<1> USE DEF Init, Nullable
<1>1. lease \in [Leases -> LeaseRow] /\ occupancy \in [Occupancies -> OccupancyRow]
  BY DEF LeaseRow, OccupancyRow
<1>2. move \in [MoveRequests -> MoveRow] /\ alloc \in [Allocations -> AllocRow]
  BY DEF MoveRow, AllocRow
<1>3. item \in [Items -> ItemRow]
  BY DEF ItemRow
<1>4. req \in [Requests -> ReqState] /\ ReqOK
  BY IdleType DEF ReqOK
<1>5. QED
  BY <1>1, <1>2, <1>3, <1>4 DEF TypeInv, TypeOK

\* The type invariant is inductive.
LEMMA TypeNext == TypeInv /\ [Next]_vars => TypeInv'
<1> SUFFICES ASSUME TypeInv, [Next]_vars PROVE TypeInv'
  OBVIOUS
<1>1. CASE UNCHANGED vars
  BY <1>1 DEF vars, TypeInv, TypeOK, ReqOK
<1>2. ASSUME NEW c \in Requests, Check(c) PROVE TypeInv'
  BY <1>2, TypeCheck
<1>3. ASSUME NEW c \in Requests, Write(c) PROVE TypeInv'
  BY <1>3, TypeContract, TypeMove, TypeOccupancy, TypeParking, TypeItem DEF Write
<1>4. QED
  BY <1>1, <1>2, <1>3, StepKinds

\* Rows and request records keep their types in every behaviour of the handlers,
\* and TypeInv (with the ids each program point uses) is an invariant.
THEOREM TypeCorrect == Spec => []TypeOK
<1>1. Spec => []TypeInv
  BY TypeInit, TypeNext, PTL DEF Spec
<1>2. TypeInv => TypeOK
  BY DEF TypeInv
<1>3. QED
  BY <1>1, <1>2, PTL

------------------------------------------------------------------------------
(* Residents and units, contracts and their occupancies.                   *)

\* What a handler that read a contract or a move request may rely on later: the
\* contract exists; a move-in executes a request of its contract, which has a unit
\* and a resident; a move-out completes a move-out request.
ReqLinks(r) ==
    /\ r.pc \in {"activate", "cancel", "moveOutRead", "moveOutTx", "complete", "moveInTx"} =>
           lease[r.lease].status # "NONE"
    /\ r.pc = "moveInTx" =>
           /\ lease[r.lease].unit \in Units /\ lease[r.lease].resident \in Residents
           /\ move[r.move].status # "NONE" /\ move[r.move].lease = r.lease
    /\ r.pc = "complete" \/ (r.pc \in {"moveOutRead", "moveOutTx"} /\ r.arg = "complete") =>
           move[r.move].status # "NONE" /\ move[r.move].kind = "out"
    /\ r.pc = "review" => move[r.move].status # "NONE"

ReqsLinked == \A c \in Requests : ReqLinks(req[c])

\* Existing contracts have a unit, active occupancies a unit and a resident.
Placed ==
    /\ \A l \in Leases : lease[l].status # "NONE" => lease[l].unit \in Units
    /\ \A o \in Occupancies : occupancy[o].status = "ACTIVE" =>
           occupancy[o].unit \in Units /\ occupancy[o].resident \in Residents

\* A contract with an occupancy exists.
LinkedExists == \A l \in Leases : lease[l].occ # NoId => lease[l].status # "NONE"

\* The contract of a move request is a contract.
MoveHasLease == \A q \in MoveRequests : move[q].status # "NONE" => move[q].lease \in Leases

HousingInv ==
    /\ TypeInv
    /\ ReqsLinked /\ Placed /\ LinkedExists /\ MoveHasLease
    /\ OneActiveOccupancy
    /\ LeaseMatchesOccupancy
    /\ CompletedMoveInOccupied

\* Existing contracts keep unit and resident.
LeasesStay ==
    \A l \in Leases : lease[l].status # "NONE" =>
        /\ lease'[l].status # "NONE"
        /\ lease'[l].unit = lease[l].unit /\ lease'[l].resident = lease[l].resident

\* Existing move requests keep contract and kind.
MovesStay ==
    \A q \in MoveRequests : move[q].status # "NONE" =>
        /\ move'[q].status # "NONE"
        /\ move'[q].lease = move[q].lease /\ move'[q].kind = move[q].kind

\* Existing occupancies keep unit and resident.
OccupanciesStay ==
    \A o \in Occupancies : occupancy[o].status # "NONE" =>
        /\ occupancy'[o].status # "NONE"
        /\ occupancy'[o].unit = occupancy[o].unit
        /\ occupancy'[o].resident = occupancy[o].resident

\* What a handler relies on stays true.
LEMMA ReqLinksStable ==
    ASSUME NEW r \in ReqState, ReqFine(r), ReqLinks(r), LeasesStay, MovesStay
    PROVE  ReqLinks(r)'
BY DEF ReqFine, ReqLinks, LeasesStay, MovesStay

\* The step of a request c leaves the other requests alone.
LEMMA OtherReqs ==
    ASSUME TypeInv, NEW c \in Requests, Check(c) \/ Write(c),
           NEW d \in Requests, d # c
    PROVE  req'[d] = req[d]
<1>1. CASE Check(c)
  <2>1. PICK r \in ReqState : Proceed(c, r)
    BY <1>1, CheckRecord
  <2>2. QED
    BY <2>1 DEF Proceed, TypeInv, TypeOK
<1>2. CASE Write(c)
  <2>1. req' = req \/ \E r : Proceed(c, r)
    <3>1. ASSUME NEW o \in Occupancies, NEW l \in Leases, NEW A \in SUBSET Allocations,
                 NEW K \in SUBSET Items, DirectMoveIn(c, o, l, A, K)
          PROVE  Proceed(c, Idle)
      BY <3>1 DEF DirectMoveIn, Done
    <3>2. ASSUME NEW o \in Occupancies, CreateOccupancy(c, o) \/ ApplyResidentGrant(c, o)
                                       \/ ExecuteApprovedMoveIn(c, o)
          PROVE  Proceed(c, Idle)
      BY <3>2 DEF CreateOccupancy, ApplyResidentGrant, ExecuteApprovedMoveIn, Done
    <3>3. ASSUME NEW returned \in BOOLEAN, MoveOut(c, returned) PROVE \E r : Proceed(c, r)
      BY <3>3 DEF MoveOut
    <3>4. CASE \/ \E l \in Leases : CreateDraftContract(c, l)
               \/ ActivateContract(c) \/ CancelContract(c) \/ Review(c)
               \/ UpdateItemStatus(c)
               \/ \E q \in MoveRequests : CreateMoveRequest(c, q)
               \/ \E a \in Allocations : Allocate(c, a)
               \/ \E early \in BOOLEAN : CompleteMoveOut(c, early)
      <4>1. Proceed(c, Idle)
        BY <3>4 DEF CreateDraftContract, ActivateContract, CancelContract, Review,
           UpdateItemStatus, CreateMoveRequest, Allocate, CompleteMoveOut, Done
      <4>2. QED
        BY <4>1
    <3>5. CASE \/ \E r \in Residents, b \in Buildings : GrantMoveOut(c, r, b)
               \/ \E a \in Allocations : EndAllocation(c, a)
               \/ \E o \in Occupancies : EndAllForOccupancy(c, o)
               \/ \E u \in Units : EndAllForUnit(c, u)
               \/ \E k \in Items : (\E l \in Leases : IssueItem(c, l, k))
                                   \/ DeleteItem(c, k)
      BY <3>5 DEF GrantMoveOut, EndAllocation, EndAllForOccupancy, EndAllForUnit,
                  IssueItem, DeleteItem
    <3>6. QED
      BY <1>2, <3>1, <3>2, <3>3, <3>4, <3>5 DEF Write
  <2>2. QED
    BY <2>1 DEF Proceed, TypeInv, TypeOK
<1>3. QED
  BY <1>1, <1>2

\* A check that reads a contract or a request finds what it relies on later.
LEMMA CheckLinks ==
    ASSUME HousingInv, NEW c \in Requests, Check(c)
    PROVE  ReqLinks(req'[c])
<1> TypeOK /\ req \in [Requests -> ReqState] /\ req[c] \in ReqState
  BY DEF HousingInv, TypeInv, TypeOK
<1>1. ASSUME NEW l \in Leases, NEW q \in MoveRequests, ExecuteMoveInCheck(c, l, q)
      PROVE  ReqLinks(req'[c])
  <2>1. req'[c].pc = "moveInTx" /\ req'[c].lease = l /\ req'[c].move = q
    BY <1>1 DEF ExecuteMoveInCheck, Proceed, Idle
  <2>2. lease[l].unit \in Units /\ lease[l].resident \in Residents
    BY <1>1 DEF ExecuteMoveInCheck, HousingInv, Placed, TypeOK, LeaseRow, Nullable
  <2>3. QED
    BY <1>1, <2>1, <2>2 DEF ExecuteMoveInCheck, ReqLinks
<1>2. ASSUME NEW l \in Leases, NEW q \in MoveRequests, ExecuteMoveOutCheck(c, l, q)
      PROVE  ReqLinks(req'[c])
  <2>1. req'[c].pc = "moveOutRead" /\ req'[c].move = q /\ req'[c].lease = l
    BY <1>2 DEF ExecuteMoveOutCheck, Proceed, Idle
  <2>2. lease[l].status # "NONE"
    BY <1>2 DEF ExecuteMoveOutCheck, HousingInv, LinkedExists
  <2>3. QED
    BY <1>2, <2>1, <2>2 DEF ExecuteMoveOutCheck, ReqLinks
<1>3. CASE MoveOutCheck(c)
  <2>1. ReqLinks(req[c]) /\ req[c].pc = "moveOutRead"
    BY <1>3 DEF MoveOutCheck, HousingInv, ReqsLinked
  <2>2. \/ req'[c] = Idle
        \/ /\ req'[c].pc = "moveOutTx"
           /\ req'[c].arg = req[c].arg /\ req'[c].move = req[c].move
           /\ req'[c].lease = req[c].lease
    BY <1>3 DEF MoveOutCheck, Proceed, ReqState
  <2>3. Idle.pc = "idle"
    BY DEF Idle
  <2>4. QED
    BY <2>1, <2>2, <2>3 DEF ReqLinks
<1>4. ASSUME NEW l \in Leases, CancelCheck(c, l) \/ MoveOutCall(c, l) \/ ActivateCheck(c, l)
      PROVE  ReqLinks(req'[c])
  <2>1. /\ req'[c].pc \in {"moveOutRead", "cancel", "activate"}
        /\ req'[c].arg # "complete" /\ req'[c].lease = l
    BY <1>4 DEF CancelCheck, MoveOutCall, ActivateCheck, Proceed, Idle
  <2>2. lease[l].status # "NONE"
    BY <1>4 DEF CancelCheck, MoveOutCall, ActivateCheck
  <2>3. QED
    BY <2>1, <2>2 DEF ReqLinks
<1>5. ASSUME NEW q \in MoveRequests,
             ReviewCheck(c, q, "APPROVED") \/ ReviewCheck(c, q, "REJECTED")
      PROVE  ReqLinks(req'[c])
  <2>1. req'[c].pc = "review" /\ req'[c].move = q
    BY <1>5 DEF ReviewCheck, Proceed, Idle
  <2>2. QED
    BY <1>5, <2>1 DEF ReviewCheck, ReqLinks
<1>6. ASSUME ~\E l \in Leases, q \in MoveRequests :
                 ExecuteMoveInCheck(c, l, q) \/ ExecuteMoveOutCheck(c, l, q),
             ~\E q \in MoveRequests :
                 ReviewCheck(c, q, "APPROVED") \/ ReviewCheck(c, q, "REJECTED"),
             ~MoveOutCheck(c),
             ~\E l \in Leases : CancelCheck(c, l) \/ MoveOutCall(c, l) \/ ActivateCheck(c, l)
      PROVE  ReqLinks(req'[c])
  <2>1. req'[c].pc \notin {"moveInTx", "complete", "moveOutRead", "moveOutTx", "activate",
                          "cancel", "review"}
    <3>1. CASE \E u \in Units, r \in Residents : CreateDraftCheck(c, u, r)
      BY <3>1 DEF CreateDraftCheck, Proceed, Idle
    <3>2. CASE \E u \in Units, r \in Residents : OccupyCheck(c, u, r)
      BY <3>2 DEF OccupyCheck, Proceed, Idle
    <3>3. CASE \E l \in Leases, k \in {"in", "out"} : RequestCheck(c, l, k)
      BY <3>3 DEF RequestCheck, Proceed, Idle
    <3>5. CASE \E u \in Units, r \in Residents, s \in Nullable(Slots) :
                  DirectMoveInCheck(c, u, r, s)
      BY <3>5 DEF DirectMoveInCheck, Proceed, Idle
    <3>6. CASE \E u \in Units, r \in Residents, m \in {"ADD", "MOVE"} :
                  GrantCheck(c, u, r, m)
      BY <3>6 DEF GrantCheck, Proceed, Idle
    <3>7. CASE \E s \in Slots, o \in Nullable(Occupancies), u \in Nullable(Units) :
                  AllocateCheck(c, s, o, u)
      BY <3>7 DEF AllocateCheck, Proceed, Idle
    <3>8. CASE \E k \in Items, n \in ItemStatuses : ItemStatusCheck(c, k, n)
      BY <3>8 DEF ItemStatusCheck, Proceed, Idle
    <3>9. CASE Abandon(c)
      BY <3>9 DEF Abandon, Done, Proceed, Idle
    <3>10. QED
      BY <1>6, <3>1, <3>2, <3>3, <3>5, <3>6, <3>7, <3>8, <3>9 DEF Check
  <2>2. QED
    BY <2>1 DEF ReqLinks
<1>7. QED
  BY <1>1, <1>2, <1>3, <1>4, <1>5, <1>6

\* So does a write: it is over, or it goes on to complete its move-out request.
LEMMA WriteLinks ==
    ASSUME HousingInv, NEW c \in Requests, Write(c)
    PROVE  ReqLinks(req'[c])
<1> TypeOK /\ req \in [Requests -> ReqState] /\ req[c] \in ReqState /\ ReqLinks(req[c])
    /\ ReqFine(req[c])
  BY DEF HousingInv, TypeInv, TypeOK, ReqsLinked, ReqOK
<1>1. CASE req' = req
  BY <1>1
<1>2. CASE Done(c)
  <2>1. req'[c].pc = "idle"
    BY <1>2 DEF Done, Proceed, Idle
  <2>2. QED
    BY <2>1 DEF ReqLinks
<1>3. ASSUME NEW returned \in BOOLEAN, MoveOut(c, returned) PROVE ReqLinks(req'[c])
  <2>1. CASE req[c].arg = ""
    BY <1>2, <1>3, <2>1 DEF MoveOut, Done
  <2>2. CASE req[c].arg # ""
    <3>1. req[c].arg \in {"cancel", "complete"} /\ req[c].pc = "moveOutTx"
      BY <1>3, <2>2 DEF MoveOut, ReqFine
    <3>2. req'[c].pc = req[c].arg /\ req'[c].move = req[c].move
          /\ req'[c].lease = req[c].lease
      BY <1>3, <2>2 DEF MoveOut, Proceed, ReqState
    <3>3. QED
      BY <3>1, <3>2 DEF ReqLinks
  <2>3. QED
    BY <2>1, <2>2
<1>4. CASE \/ \E l \in Leases : CreateDraftContract(c, l)
           \/ ActivateContract(c) \/ CancelContract(c) \/ Review(c)
           \/ UpdateItemStatus(c)
           \/ \E q \in MoveRequests : CreateMoveRequest(c, q)
           \/ \E a \in Allocations : Allocate(c, a)
           \/ \E early \in BOOLEAN : CompleteMoveOut(c, early)
  BY <1>2, <1>4 DEF CreateDraftContract, ActivateContract, CancelContract, Review,
     UpdateItemStatus, CreateMoveRequest, Allocate, CompleteMoveOut
<1>5. CASE \/ \E o \in Occupancies, l \in Leases, A \in SUBSET Allocations,
                 K \in SUBSET Items : DirectMoveIn(c, o, l, A, K)
           \/ \E o \in Occupancies : CreateOccupancy(c, o) \/ ApplyResidentGrant(c, o)
                                      \/ ExecuteApprovedMoveIn(c, o)
  BY <1>2, <1>5 DEF DirectMoveIn, CreateOccupancy, ApplyResidentGrant,
                    ExecuteApprovedMoveIn
<1>6. CASE \/ \E r \in Residents, b \in Buildings : GrantMoveOut(c, r, b)
           \/ \E a \in Allocations : EndAllocation(c, a)
           \/ \E o \in Occupancies : EndAllForOccupancy(c, o)
           \/ \E u \in Units : EndAllForUnit(c, u)
           \/ \E k \in Items : (\E l \in Leases : IssueItem(c, l, k)) \/ DeleteItem(c, k)
  BY <1>1, <1>6 DEF GrantMoveOut, EndAllocation, EndAllForOccupancy, EndAllForUnit,
                    IssueItem, DeleteItem
<1>7. QED
  BY <1>3, <1>4, <1>5, <1>6 DEF Write

\* A status update of an existing contract keeps its unit, resident and occupancy.
StatusOnly ==
    \E l \in Leases, x \in LeaseStatuses :
        lease[l].status # "NONE" /\ lease' = [lease EXCEPT ![l].status = x]

\* How a write changes contracts: it leaves them, sets the status of one, inserts
\* one, or links one to a new occupancy.
LEMMA LeaseChange ==
    ASSUME HousingInv, NEW c \in Requests, Write(c)
    PROVE  \/ lease' = lease
           \/ StatusOnly
           \/ \E l \in Leases : CreateDraftContract(c, l)
           \/ \E o \in Occupancies : ExecuteApprovedMoveIn(c, o)
           \/ \E o \in Occupancies, l \in Leases, A \in SUBSET Allocations,
                 K \in SUBSET Items : DirectMoveIn(c, o, l, A, K)
<1> TypeOK /\ ReqLinks(req[c]) /\ ReqFine(req[c])
  BY DEF HousingInv, TypeInv, ReqsLinked, ReqOK
<1>1. CASE ActivateContract(c) \/ CancelContract(c)
           \/ \E returned \in BOOLEAN : MoveOut(c, returned)
  <2>1. req[c].pc \in {"activate", "cancel", "moveOutTx"}
    BY <1>1 DEF ActivateContract, CancelContract, MoveOut
  <2>2. req[c].lease \in Leases /\ lease[req[c].lease].status # "NONE"
    BY <2>1 DEF ReqLinks, ReqFine
  <2>3. \E x \in LeaseStatuses : lease' = [lease EXCEPT ![req[c].lease].status = x]
    BY <1>1 DEF ActivateContract, CancelContract, MoveOut, LeaseStatuses
  <2>4. QED
    BY <2>2, <2>3 DEF StatusOnly
<1>2. CASE \E early \in BOOLEAN : CompleteMoveOut(c, early)
  <2>1. req[c].lease \in Leases /\ lease[req[c].lease].status # "NONE"
    BY <1>2 DEF CompleteMoveOut, ReqLinks, ReqFine
  <2>2. lease' = lease \/ lease' = [lease EXCEPT ![req[c].lease].status = "CANCELLED"]
    BY <1>2 DEF CompleteMoveOut
  <2>3. QED
    BY <2>1, <2>2 DEF StatusOnly, LeaseStatuses
<1>3. CASE \/ \E q \in MoveRequests : CreateMoveRequest(c, q)
           \/ Review(c) \/ UpdateItemStatus(c)
           \/ \E o \in Occupancies : CreateOccupancy(c, o) \/ ApplyResidentGrant(c, o)
                                      \/ EndAllForOccupancy(c, o)
           \/ \E r \in Residents, b \in Buildings : GrantMoveOut(c, r, b)
           \/ \E a \in Allocations : Allocate(c, a) \/ EndAllocation(c, a)
           \/ \E u \in Units : EndAllForUnit(c, u)
           \/ \E k \in Items : (\E l \in Leases : IssueItem(c, l, k)) \/ DeleteItem(c, k)
  BY <1>3 DEF CreateMoveRequest, Review, UpdateItemStatus, CreateOccupancy,
     ApplyResidentGrant, EndAllForOccupancy, GrantMoveOut, Allocate, EndAllocation,
     EndAllForUnit, IssueItem, DeleteItem
<1>4. QED
  BY <1>1, <1>2, <1>3 DEF Write

\* What the updates of a contract leave.
LEMMA StatusOnlyRows ==
    ASSUME TypeOK, StatusOnly, NEW l \in Leases
    PROVE  /\ lease'[l].unit = lease[l].unit /\ lease'[l].resident = lease[l].resident
           /\ lease'[l].occ = lease[l].occ
           /\ lease[l].status # "NONE" <=> lease'[l].status # "NONE"
<1>1. PICK m \in Leases, x \in LeaseStatuses :
         lease[m].status # "NONE" /\ lease' = [lease EXCEPT ![m].status = x]
  BY DEF StatusOnly
<1>2. x # "NONE"
  BY DEF LeaseStatuses
<1>3. CASE l = m
  BY <1>1, <1>2, <1>3 DEF TypeOK, LeaseRow
<1>4. CASE l # m
  BY <1>1, <1>4 DEF TypeOK
<1>5. QED
  BY <1>3, <1>4

\* The contract rows after a move-in was executed.
LEMMA MoveInRows ==
    ASSUME HousingInv, NEW c \in Requests, NEW o \in Occupancies,
           ExecuteApprovedMoveIn(c, o)
    PROVE  LET m == req[c].lease
           IN /\ m \in Leases /\ lease[m].status # "NONE"
              /\ lease[m].unit \in Units /\ lease[m].resident \in Residents
              /\ lease'[m].unit = lease[m].unit /\ lease'[m].resident = lease[m].resident
              /\ lease'[m].occ = o /\ lease'[m].status = "ACTIVE"
              /\ \A l \in Leases \ {m} : lease'[l] = lease[l]
<1>1. req[c].lease \in Leases /\ ReqLinks(req[c]) /\ req[c].pc = "moveInTx"
  BY DEF ExecuteApprovedMoveIn, HousingInv, TypeInv, ReqOK, ReqFine, ReqsLinked
<1>2. QED
  BY <1>1 DEF ExecuteApprovedMoveIn, ReqLinks, HousingInv, TypeInv, TypeOK, LeaseRow

\* The contract rows after a direct move-in.
LEMMA DirectRows ==
    ASSUME HousingInv, NEW c \in Requests, NEW o \in Occupancies, NEW m \in Leases,
           NEW A, NEW K, DirectMoveIn(c, o, m, A, K)
    PROVE  /\ lease[m].status = "NONE" /\ lease'[m].status = "ACTIVE"
           /\ lease'[m].unit = req[c].unit /\ req[c].unit \in Units
           /\ req[c].resident \in Residents
           /\ lease'[m].resident = NoId /\ lease'[m].occ = o
           /\ \A l \in Leases \ {m} : lease'[l] = lease[l]
<1>1. req[c].unit \in Units /\ req[c].resident \in Residents
  BY DEF DirectMoveIn, HousingInv, TypeInv, ReqOK, ReqFine
<1>2. QED
  BY <1>1 DEF DirectMoveIn, HousingInv, TypeInv, TypeOK

\* The contract rows after a draft was created.
LEMMA DraftRows ==
    ASSUME HousingInv, NEW c \in Requests, NEW m \in Leases, CreateDraftContract(c, m)
    PROVE  /\ lease[m].status = "NONE" /\ lease'[m].status = "DRAFT"
           /\ lease'[m].unit \in Units /\ lease'[m].occ = NoId
           /\ \A l \in Leases \ {m} : lease'[l] = lease[l]
<1>1. req[c].unit \in Units
  BY DEF CreateDraftContract, HousingInv, TypeInv, ReqOK, ReqFine
<1>2. QED
  BY <1>1 DEF CreateDraftContract, HousingInv, TypeInv, TypeOK

\* Contracts keep unit and resident, have a unit, and keep an occupancy.
LEMMA WriteLeases ==
    ASSUME HousingInv, NEW c \in Requests, Write(c)
    PROVE  /\ LeasesStay
           /\ \A l \in Leases : lease'[l].status # "NONE" => lease'[l].unit \in Units
           /\ LinkedExists'
           /\ \A l \in Leases : lease[l].occ # NoId => lease'[l].occ # NoId
<1> USE DEF LeasesStay, LinkedExists
<1> TypeOK /\ Placed /\ LinkedExists
  BY DEF HousingInv, TypeInv
<1>1. CASE lease' = lease
  BY <1>1 DEF Placed
<1>2. CASE StatusOnly
  BY <1>2, StatusOnlyRows DEF Placed
<1>3. ASSUME NEW m \in Leases, CreateDraftContract(c, m)
      PROVE  /\ LeasesStay
             /\ \A l \in Leases : lease'[l].status # "NONE" => lease'[l].unit \in Units
             /\ LinkedExists'
             /\ \A l \in Leases : lease[l].occ # NoId => lease'[l].occ # NoId
  BY <1>3, DraftRows DEF Placed
<1>4. ASSUME NEW o \in Occupancies, ExecuteApprovedMoveIn(c, o)
      PROVE  /\ LeasesStay
             /\ \A l \in Leases : lease'[l].status # "NONE" => lease'[l].unit \in Units
             /\ LinkedExists'
             /\ \A l \in Leases : lease[l].occ # NoId => lease'[l].occ # NoId
  BY <1>4, MoveInRows, TenancyAssumption DEF Placed
<1>5. ASSUME NEW o \in Occupancies, NEW m \in Leases, NEW A \in SUBSET Allocations,
             NEW K \in SUBSET Items, DirectMoveIn(c, o, m, A, K)
      PROVE  /\ LeasesStay
             /\ \A l \in Leases : lease'[l].status # "NONE" => lease'[l].unit \in Units
             /\ LinkedExists'
             /\ \A l \in Leases : lease[l].occ # NoId => lease'[l].occ # NoId
  BY <1>5, DirectRows, TenancyAssumption DEF Placed
<1>6. QED
  BY <1>1, <1>2, <1>3, <1>4, <1>5, LeaseChange

\* Move requests keep contract and kind, belong to a contract, and become COMPLETED
\* only as a move-out or with the occupancy of their contract.
LEMMA WriteMoves ==
    ASSUME HousingInv, NEW c \in Requests, Write(c)
    PROVE  /\ MovesStay /\ MoveHasLease'
           /\ \A q \in MoveRequests : move'[q].status = "COMPLETED" =>
                  \/ move[q].status = "COMPLETED"
                  \/ move'[q].kind = "out"
                  \/ lease'[move'[q].lease].occ # NoId
<1> USE DEF MovesStay, MoveHasLease
<1> TypeOK /\ MoveHasLease /\ ReqLinks(req[c]) /\ ReqFine(req[c])
  BY DEF HousingInv, TypeInv, ReqsLinked, ReqOK
<1> DEFINE Goal == /\ MovesStay /\ MoveHasLease'
                   /\ \A q \in MoveRequests : move'[q].status = "COMPLETED" =>
                          \/ move[q].status = "COMPLETED"
                          \/ move'[q].kind = "out"
                          \/ lease'[move'[q].lease].occ # NoId
<1>1. CASE move' = move
  BY <1>1
<1>2. ASSUME NEW q \in MoveRequests, CreateMoveRequest(c, q) PROVE Goal
  <2>1. req[c].lease \in Leases
    BY <1>2 DEF CreateMoveRequest, ReqFine
  <2>2. /\ move[q].status = "NONE"
        /\ move'[q].status = "PENDING" /\ move'[q].lease = req[c].lease
        /\ \A x \in MoveRequests \ {q} : move'[x] = move[x]
    BY <1>2 DEF CreateMoveRequest, TypeOK
  <2>3. QED
    BY <2>1, <2>2
<1>3. ASSUME NEW q \in MoveRequests, NEW x \in MoveStatuses, move[q].status # "NONE",
             move' = [move EXCEPT ![q].status = x],
             x = "COMPLETED" => move[q].kind = "out" \/ lease'[move[q].lease].occ # NoId
      PROVE  Goal
  <2>1. /\ move'[q].status = x /\ move'[q].lease = move[q].lease
        /\ move'[q].kind = move[q].kind
        /\ \A y \in MoveRequests \ {q} : move'[y] = move[y]
    BY <1>3 DEF TypeOK, MoveRow
  <2>2. x # "NONE"
    BY DEF MoveStatuses
  <2>3. QED
    BY <1>3, <2>1, <2>2
<1>4. CASE Review(c)
  <2>1. req[c].move \in MoveRequests /\ req[c].arg \in {"APPROVED", "REJECTED"}
    BY <1>4 DEF Review, ReqFine
  <2>2. /\ move'[req[c].move].status = req[c].arg
        /\ move'[req[c].move].lease = move[req[c].move].lease
        /\ move'[req[c].move].kind = move[req[c].move].kind
        /\ \A y \in MoveRequests \ {req[c].move} : move'[y] = move[y]
    BY <1>4, <2>1 DEF Review, TypeOK, MoveRow
  <2>3. move[req[c].move].status # "NONE"
    BY <1>4 DEF Review, ReqLinks
  <2>4. QED
    BY <2>1, <2>2, <2>3
<1>5. ASSUME NEW o \in Occupancies, ExecuteApprovedMoveIn(c, o) PROVE Goal
  <2>1. /\ req[c].move \in MoveRequests /\ move[req[c].move].status # "NONE"
        /\ move[req[c].move].lease = req[c].lease
    BY <1>5 DEF ExecuteApprovedMoveIn, ReqFine, ReqLinks
  <2>2. lease'[req[c].lease].occ = o /\ o # NoId
    BY <1>5, MoveInRows, TenancyAssumption
  <2>3. move' = [move EXCEPT ![req[c].move].status = "COMPLETED"]
    BY <1>5 DEF ExecuteApprovedMoveIn
  <2>4. QED
    BY <1>3, <2>1, <2>2, <2>3 DEF MoveStatuses
<1>6. ASSUME NEW early \in BOOLEAN, CompleteMoveOut(c, early) PROVE Goal
  <2>1. /\ req[c].move \in MoveRequests /\ move[req[c].move].status # "NONE"
        /\ move[req[c].move].kind = "out"
    BY <1>6 DEF CompleteMoveOut, ReqFine, ReqLinks
  <2>2. move' = [move EXCEPT ![req[c].move].status = "COMPLETED"]
    BY <1>6 DEF CompleteMoveOut
  <2>3. QED
    BY <1>3, <2>1, <2>2 DEF MoveStatuses
<1>7. CASE CancelContract(c)
  <2>1. \A q \in MoveRequests :
          \/ move'[q] = move[q]
          \/ /\ move'[q].status = "CANCELLED" /\ move[q].status # "NONE"
             /\ move'[q].lease = move[q].lease /\ move'[q].kind = move[q].kind
    BY <1>7 DEF CancelContract, TypeOK, MoveRow, Open
  <2>2. QED
    BY <2>1
<1>8. CASE \/ \E l \in Leases : CreateDraftContract(c, l)
           \/ ActivateContract(c) \/ UpdateItemStatus(c)
           \/ \E returned \in BOOLEAN : MoveOut(c, returned)
           \/ \E o \in Occupancies, l \in Leases, A \in SUBSET Allocations,
                 K \in SUBSET Items : DirectMoveIn(c, o, l, A, K)
           \/ \E o \in Occupancies : CreateOccupancy(c, o) \/ ApplyResidentGrant(c, o)
                                      \/ EndAllForOccupancy(c, o)
           \/ \E r \in Residents, b \in Buildings : GrantMoveOut(c, r, b)
           \/ \E a \in Allocations : Allocate(c, a) \/ EndAllocation(c, a)
           \/ \E u \in Units : EndAllForUnit(c, u)
           \/ \E k \in Items : (\E l \in Leases : IssueItem(c, l, k)) \/ DeleteItem(c, k)
  <2>1. move' = move
    BY <1>8 DEF CreateDraftContract, ActivateContract, UpdateItemStatus, MoveOut,
       DirectMoveIn, CreateOccupancy, ApplyResidentGrant, EndAllForOccupancy,
       GrantMoveOut, Allocate, EndAllocation, EndAllForUnit, IssueItem, DeleteItem
  <2>2. QED
    BY <1>1, <2>1
<1>9. QED
  BY <1>2, <1>4, <1>5, <1>6, <1>7, <1>8 DEF Write

\* The active occupancies among S are those of resident r.
Evict(S, r) ==
    \A x \in Occupancies : x \in S /\ occupancy[x].status = "ACTIVE"
                           => occupancy[x].resident = r

\* Occupancy o is inserted for u and r after the occupancies S were ended.
MovesIn(S, o, u, r) ==
    /\ Evict(S, r) /\ o \notin S /\ occupancy[o].status = "NONE"
    /\ NoClash(EndOccupancies(S), u, r)
    /\ occupancy' = [EndOccupancies(S) EXCEPT ![o] = ActiveOccupancy(u, r)]

\* How a write changes occupancies.
OccupancyChange ==
    \/ occupancy' = occupancy
    \/ \E S \in SUBSET Occupancies, r \in Nullable(Residents) :
           Evict(S, r) /\ occupancy' = EndOccupancies(S)
    \/ \E S \in SUBSET Occupancies, o \in Occupancies, u \in Units, r \in Residents :
           MovesIn(S, o, u, r)

\* Ending no occupancy changes nothing.
LEMMA EndNone == TypeOK => EndOccupancies({}) = occupancy
BY DEF TypeOK, EndOccupancies

\* Every write leaves the occupancies, ends those of one resident, or inserts one
\* that the unique indexes admit.
LEMMA WriteOccupancies ==
    ASSUME HousingInv, NEW c \in Requests, Write(c)
    PROVE  OccupancyChange
<1> TypeOK /\ ReqFine(req[c]) /\ {} \in SUBSET Occupancies
  BY DEF HousingInv, TypeInv, ReqOK
<1>1. ASSUME NEW o \in Occupancies, NEW u \in Units, NEW r \in Residents,
             occupancy[o].status = "NONE", NoClash(occupancy, u, r),
             occupancy' = [occupancy EXCEPT ![o] = ActiveOccupancy(u, r)]
      PROVE  OccupancyChange
  <2>1. MovesIn({}, o, u, r)
    BY <1>1, EndNone DEF MovesIn, Evict
  <2>2. QED
    BY <2>1 DEF OccupancyChange
<1>2. ASSUME NEW o \in Occupancies, ExecuteApprovedMoveIn(c, o) PROVE OccupancyChange
  <2> DEFINE m == lease[req[c].lease]
  <2>1. m.unit \in Units /\ m.resident \in Residents
    BY <1>2, MoveInRows
  <2>2. /\ occupancy[o].status = "NONE" /\ NoClash(occupancy, m.unit, m.resident)
        /\ occupancy' = [occupancy EXCEPT ![o] = ActiveOccupancy(m.unit, m.resident)]
    BY <1>2 DEF ExecuteApprovedMoveIn
  <2>3. QED
    BY <1>1, <2>1, <2>2
<1>3. ASSUME NEW o \in Occupancies, NEW m \in Leases, NEW A \in SUBSET Allocations,
             NEW K \in SUBSET Items, DirectMoveIn(c, o, m, A, K)
      PROVE  OccupancyChange
  <2>1. req[c].unit \in Units /\ req[c].resident \in Residents
    BY <1>3, DirectRows
  <2>2. /\ occupancy[o].status = "NONE"
        /\ NoClash(occupancy, req[c].unit, req[c].resident)
        /\ occupancy' = [occupancy EXCEPT
                            ![o] = ActiveOccupancy(req[c].unit, req[c].resident)]
    BY <1>3 DEF DirectMoveIn
  <2>3. QED
    BY <1>1, <2>1, <2>2
<1>4. ASSUME NEW o \in Occupancies, CreateOccupancy(c, o) PROVE OccupancyChange
  BY <1>1, <1>4 DEF CreateOccupancy, ReqFine
<1>5. ASSUME NEW o \in Occupancies, ApplyResidentGrant(c, o) PROVE OccupancyChange
  <2> DEFINE u == req[c].unit
             r == req[c].resident
             S == IF req[c].arg = "MOVE"
                  THEN {x \in ActiveInBuilding(r, BuildingOf[u]) : occupancy[x].unit # u}
                  ELSE {}
  <2>1. u \in Units /\ r \in Residents
    BY <1>5 DEF ApplyResidentGrant, ReqFine
  <2>2. /\ S \in SUBSET Occupancies /\ o \notin S
        /\ \A x \in S : occupancy[x].resident = r
    BY <1>5 DEF ApplyResidentGrant, ActiveInBuilding
  <2>3. /\ NoClash(EndOccupancies(S), u, r) /\ occupancy[o].status = "NONE"
        /\ occupancy' = [EndOccupancies(S) EXCEPT ![o] = ActiveOccupancy(u, r)]
    BY <1>5 DEF ApplyResidentGrant
  <2> HIDE DEF S, u, r
  <2>4. MovesIn(S, o, u, r)
    BY <2>2, <2>3 DEF MovesIn, Evict
  <2>5. QED
    BY <2>1, <2>2, <2>4 DEF OccupancyChange
<1>6. ASSUME NEW returned \in BOOLEAN, MoveOut(c, returned) PROVE OccupancyChange
  <2> DEFINE x == req[c].occ
  <2>1. x \in Occupancies
    BY <1>6 DEF MoveOut, ReqFine
  <2>2. occupancy[x].resident \in Nullable(Residents)
    BY <2>1 DEF TypeOK, OccupancyRow
  <2>3. Evict({x}, occupancy[x].resident) /\ {x} \in SUBSET Occupancies
    BY <2>1 DEF Evict
  <2>4. occupancy' = EndOccupancies({x})
    BY <1>6 DEF MoveOut
  <2>5. QED
    BY <2>2, <2>3, <2>4 DEF OccupancyChange
<1>7. ASSUME NEW r \in Residents, NEW b \in Buildings, GrantMoveOut(c, r, b)
      PROVE  OccupancyChange
  <2>1. ActiveInBuilding(r, b) \in SUBSET Occupancies /\ Evict(ActiveInBuilding(r, b), r)
    BY DEF ActiveInBuilding, Evict
  <2>2. QED
    BY <1>7, <2>1 DEF GrantMoveOut, OccupancyChange, Nullable
<1>8. CASE \/ \E l \in Leases : CreateDraftContract(c, l)
           \/ ActivateContract(c) \/ CancelContract(c) \/ Review(c) \/ UpdateItemStatus(c)
           \/ \E q \in MoveRequests : CreateMoveRequest(c, q)
           \/ \E early \in BOOLEAN : CompleteMoveOut(c, early)
           \/ \E o \in Occupancies : EndAllForOccupancy(c, o)
           \/ \E a \in Allocations : Allocate(c, a) \/ EndAllocation(c, a)
           \/ \E u \in Units : EndAllForUnit(c, u)
           \/ \E k \in Items : (\E l \in Leases : IssueItem(c, l, k)) \/ DeleteItem(c, k)
  <2>1. occupancy' = occupancy
    BY <1>8 DEF CreateDraftContract, ActivateContract, CancelContract, Review,
       UpdateItemStatus, CreateMoveRequest, CompleteMoveOut, EndAllForOccupancy,
       Allocate, EndAllocation, EndAllForUnit, IssueItem, DeleteItem
  <2>2. QED
    BY <2>1 DEF OccupancyChange
<1>9. QED
  BY <1>2, <1>3, <1>4, <1>5, <1>6, <1>7, <1>8 DEF Write

\* The rows after ending the occupancies S.
LEMMA EndedRows ==
    ASSUME TypeOK, NEW S, NEW o \in Occupancies
    PROVE  /\ EndOccupancies(S)[o].unit = occupancy[o].unit
           /\ EndOccupancies(S)[o].resident = occupancy[o].resident
           /\ EndOccupancies(S)[o].status = IF o \in S THEN "ENDED" ELSE occupancy[o].status
BY DEF TypeOK, EndOccupancies, OccupancyRow

\* The rows after a move-in: o is the new one, the others are those of EndOccupancies.
LEMMA MovedInRows ==
    ASSUME TypeOK, NEW S, NEW o \in Occupancies, NEW u, NEW r, MovesIn(S, o, u, r)
    PROVE  /\ occupancy'[o] = ActiveOccupancy(u, r)
           /\ \A x \in Occupancies \ {o} : occupancy'[x] = EndOccupancies(S)[x]
BY DEF MovesIn, EndOccupancies

\* The unique indexes keep one active occupancy per unit and per resident, rows
\* keep unit and resident, and active rows have both.
LEMMA OccupanciesKept ==
    ASSUME HousingInv, OccupancyChange
    PROVE  /\ OneActiveOccupancy' /\ OccupanciesStay
           /\ \A o \in Occupancies : occupancy'[o].status = "ACTIVE" =>
                  occupancy'[o].unit \in Units /\ occupancy'[o].resident \in Residents
<1> TypeOK /\ OneActiveOccupancy /\ Placed
  BY DEF HousingInv, TypeInv
<1> DEFINE Goal ==
      /\ OneActiveOccupancy' /\ OccupanciesStay
      /\ \A o \in Occupancies : occupancy'[o].status = "ACTIVE" =>
             occupancy'[o].unit \in Units /\ occupancy'[o].resident \in Residents
<1>1. CASE occupancy' = occupancy
  BY <1>1 DEF OneActiveOccupancy, OccupanciesStay, Placed
<1>2. ASSUME NEW S, occupancy' = EndOccupancies(S) PROVE Goal
  BY <1>2, EndedRows DEF OneActiveOccupancy, OccupanciesStay, Placed
<1>3. ASSUME NEW S, NEW o \in Occupancies, NEW u \in Units, NEW r \in Residents,
             MovesIn(S, o, u, r)
      PROVE  Goal
  <2>0. /\ occupancy'[o] = ActiveOccupancy(u, r)
        /\ \A x \in Occupancies \ {o} : occupancy'[x] = EndOccupancies(S)[x]
    BY <1>3, MovedInRows
  <2>1. /\ occupancy'[o].status = "ACTIVE" /\ occupancy'[o].unit = u
        /\ occupancy'[o].resident = r /\ occupancy[o].status = "NONE"
    BY <1>3, <2>0 DEF ActiveOccupancy, MovesIn
  <2>2. \A x \in Occupancies \ {o} :
          /\ occupancy'[x].unit = occupancy[x].unit
          /\ occupancy'[x].resident = occupancy[x].resident
          /\ occupancy'[x].status = IF x \in S THEN "ENDED" ELSE occupancy[x].status
    BY <2>0, EndedRows
  <2>3. \A x \in Occupancies \ {o} : occupancy'[x].status = "ACTIVE" =>
          occupancy'[x].unit # u /\ occupancy'[x].resident # r
    BY <1>3, <2>0 DEF MovesIn, NoClash
  <2>4. QED
    BY <2>1, <2>2, <2>3 DEF OneActiveOccupancy, OccupanciesStay, Placed
<1>4. QED
  BY <1>1, <1>2, <1>3 DEF OccupancyChange

\* Contracts whose link is not touched keep matching their occupancy.
LEMMA MatchKept ==
    ASSUME HousingInv, OccupanciesStay,
           \A l \in Leases : lease'[l].occ # NoId =>
               /\ lease[l].occ = lease'[l].occ
               /\ lease'[l].unit = lease[l].unit /\ lease'[l].resident = lease[l].resident
    PROVE  LeaseMatchesOccupancy'
<1> SUFFICES ASSUME NEW l \in Leases, lease'[l].occ # NoId
             PROVE  /\ occupancy'[lease'[l].occ].status # "NONE"
                    /\ occupancy'[lease'[l].occ].unit = lease'[l].unit
                    /\ lease'[l].resident \in {NoId, occupancy'[lease'[l].occ].resident}
                    /\ \A m \in Leases : lease'[m].occ = lease'[l].occ => m = l
  BY DEF LeaseMatchesOccupancy
<1>1. lease[l].occ \in Occupancies
  BY DEF HousingInv, TypeInv, TypeOK, LeaseRow, Nullable
<1>2. QED
  BY <1>1 DEF HousingInv, LeaseMatchesOccupancy, OccupanciesStay

\* A contract linked to a new occupancy of its unit and resident matches it, and no
\* other contract refers to that occupancy.
LEMMA MatchNew ==
    ASSUME HousingInv, OccupanciesStay, NEW m \in Leases, NEW o \in Occupancies,
           occupancy[o].status = "NONE", occupancy'[o].status # "NONE",
           lease'[m].occ = o, occupancy'[o].unit = lease'[m].unit,
           lease'[m].resident \in {NoId, occupancy'[o].resident},
           \A l \in Leases \ {m} : lease'[l] = lease[l]
    PROVE  LeaseMatchesOccupancy'
<1>1. \A l \in Leases : lease[l].occ # NoId =>
         lease[l].occ \in Occupancies /\ lease[l].occ # o
  BY DEF HousingInv, TypeInv, TypeOK, LeaseRow, Nullable, LeaseMatchesOccupancy
<1>2. o # NoId
  BY TenancyAssumption
<1> SUFFICES ASSUME NEW l \in Leases, lease'[l].occ # NoId
             PROVE  /\ occupancy'[lease'[l].occ].status # "NONE"
                    /\ occupancy'[lease'[l].occ].unit = lease'[l].unit
                    /\ lease'[l].resident \in {NoId, occupancy'[lease'[l].occ].resident}
                    /\ \A k \in Leases : lease'[k].occ = lease'[l].occ => k = l
  BY DEF LeaseMatchesOccupancy
<1>3. CASE l = m
  BY <1>1, <1>2, <1>3
<1>4. CASE l # m
  <2>1. lease'[l] = lease[l] /\ lease[l].occ \in Occupancies /\ lease[l].occ # o
    BY <1>1, <1>4
  <2>2. QED
    BY <1>2, <1>4, <2>1 DEF HousingInv, LeaseMatchesOccupancy, OccupanciesStay
<1>5. QED
  BY <1>3, <1>4

\* Writes keep contracts and occupancies matched.
LEMMA WriteMatches ==
    ASSUME HousingInv, NEW c \in Requests, Write(c)
    PROVE  LeaseMatchesOccupancy'
<1> TypeOK
  BY DEF HousingInv, TypeInv
<1>0. OccupanciesStay
  BY WriteOccupancies, OccupanciesKept
<1>1. CASE lease' = lease
  BY <1>0, <1>1, MatchKept
<1>2. CASE StatusOnly
  BY <1>0, <1>2, StatusOnlyRows, MatchKept
<1>3. ASSUME NEW m \in Leases, CreateDraftContract(c, m) PROVE LeaseMatchesOccupancy'
  BY <1>0, <1>3, DraftRows, MatchKept
<1>4. ASSUME NEW o \in Occupancies, ExecuteApprovedMoveIn(c, o) PROVE LeaseMatchesOccupancy'
  <2> DEFINE m == req[c].lease
  <2>1. /\ occupancy[o].status = "NONE"
        /\ occupancy'[o] = ActiveOccupancy(lease[m].unit, lease[m].resident)
    BY <1>4 DEF ExecuteApprovedMoveIn, TypeOK
  <2>2. /\ occupancy'[o].status = "ACTIVE" /\ occupancy'[o].unit = lease[m].unit
        /\ occupancy'[o].resident = lease[m].resident
    BY <2>1 DEF ActiveOccupancy
  <2>3. /\ m \in Leases /\ lease'[m].occ = o
        /\ lease'[m].unit = lease[m].unit /\ lease'[m].resident = lease[m].resident
        /\ \A l \in Leases \ {m} : lease'[l] = lease[l]
    BY <1>4, MoveInRows
  <2>4. QED
    BY <1>0, <2>1, <2>2, <2>3, MatchNew
<1>5. ASSUME NEW o \in Occupancies, NEW m \in Leases, NEW A \in SUBSET Allocations,
             NEW K \in SUBSET Items, DirectMoveIn(c, o, m, A, K)
      PROVE  LeaseMatchesOccupancy'
  <2>1. /\ occupancy[o].status = "NONE"
        /\ occupancy'[o] = ActiveOccupancy(req[c].unit, req[c].resident)
    BY <1>5 DEF DirectMoveIn, TypeOK
  <2>2. occupancy'[o].status = "ACTIVE" /\ occupancy'[o].unit = req[c].unit
    BY <2>1 DEF ActiveOccupancy
  <2>3. /\ lease'[m].occ = o /\ lease'[m].unit = req[c].unit /\ lease'[m].resident = NoId
        /\ \A l \in Leases \ {m} : lease'[l] = lease[l]
    BY <1>5, DirectRows
  <2>4. QED
    BY <1>0, <2>1, <2>2, <2>3, MatchNew
<1>6. QED
  BY <1>1, <1>2, <1>3, <1>4, <1>5, LeaseChange

\* HousingInv is inductive.
LEMMA HousingNext == HousingInv /\ [Next]_vars => HousingInv'
<1> SUFFICES ASSUME HousingInv, [Next]_vars PROVE HousingInv'
  OBVIOUS
<1>0. TypeInv /\ TypeInv'
  BY TypeNext DEF HousingInv
<1>1. CASE UNCHANGED vars
  BY <1>0, <1>1 DEF vars, HousingInv, ReqsLinked, ReqLinks, Placed, LinkedExists,
     MoveHasLease, OneActiveOccupancy, LeaseMatchesOccupancy, CompletedMoveInOccupied
<1>2. ASSUME NEW c \in Requests, Check(c) PROVE HousingInv'
  <2>1. UNCHANGED <<lease, occupancy, move, alloc, item>>
    BY <1>2, CheckReads
  <2>2. ReqsLinked'
    <3> SUFFICES ASSUME NEW d \in Requests PROVE ReqLinks(req[d])'
      BY DEF ReqsLinked
    <3>1. ReqLinks(req'[d])
      BY <1>0, <1>2, CheckLinks, OtherReqs DEF HousingInv, ReqsLinked
    <3>2. QED
      BY <2>1, <3>1 DEF ReqLinks
  <2>3. QED
    BY <1>0, <2>1, <2>2 DEF HousingInv, Placed, LinkedExists, MoveHasLease,
       OneActiveOccupancy, LeaseMatchesOccupancy, CompletedMoveInOccupied
<1>3. ASSUME NEW c \in Requests, Write(c) PROVE HousingInv'
  <2>1. LeasesStay /\ MovesStay
    BY <1>3, WriteLeases, WriteMoves
  <2>2. ReqsLinked'
    <3> SUFFICES ASSUME NEW d \in Requests PROVE ReqLinks(req[d])'
      BY DEF ReqsLinked
    <3>1. ReqLinks(req'[d])
      BY <1>0, <1>3, WriteLinks, OtherReqs DEF HousingInv, ReqsLinked
    <3>2. req'[d] \in ReqState /\ ReqFine(req'[d])
      BY <1>0 DEF TypeInv, TypeOK, ReqOK, ReqFine
    <3>3. QED
      BY <2>1, <3>1, <3>2, ReqLinksStable
  <2>3. Placed' /\ LinkedExists' /\ MoveHasLease' /\ OneActiveOccupancy'
    BY <1>3, WriteLeases, WriteMoves, WriteOccupancies, OccupanciesKept DEF Placed
  <2>4. CompletedMoveInOccupied'
    <3> SUFFICES ASSUME NEW q \in MoveRequests, move'[q].kind = "in",
                        move'[q].status = "COMPLETED"
                 PROVE  lease'[move'[q].lease].occ # NoId
      BY DEF CompletedMoveInOccupied
    <3>1. move[q].status = "COMPLETED" \/ lease'[move'[q].lease].occ # NoId
      BY <1>3, WriteMoves
    <3>2. CASE move[q].status = "COMPLETED"
      <4>1. move'[q].lease = move[q].lease /\ move'[q].kind = move[q].kind
        BY <2>1, <3>2 DEF MovesStay
      <4>2. move[q].lease \in Leases /\ lease[move[q].lease].occ # NoId
        BY <3>2, <4>1 DEF HousingInv, MoveHasLease, CompletedMoveInOccupied
      <4>3. QED
        BY <1>3, <4>1, <4>2, WriteLeases
    <3>3. QED
      BY <3>1, <3>2
  <2>5. LeaseMatchesOccupancy'
    BY <1>3, WriteMatches
  <2>6. QED
    BY <1>0, <2>2, <2>3, <2>4, <2>5 DEF HousingInv
<1>4. QED
  BY <1>1, <1>2, <1>3, StepKinds

\* HousingInv holds initially.
LEMMA HousingInit == Init => HousingInv
<1> SUFFICES ASSUME Init PROVE HousingInv
  OBVIOUS
<1>1. ReqsLinked
  BY DEF Init, ReqsLinked, ReqLinks, Idle
<1>2. Placed /\ LinkedExists /\ MoveHasLease
  BY DEF Init, Placed, LinkedExists, MoveHasLease
<1>3. OneActiveOccupancy /\ LeaseMatchesOccupancy /\ CompletedMoveInOccupied
  BY DEF Init, OneActiveOccupancy, LeaseMatchesOccupancy, CompletedMoveInOccupied
<1>4. QED
  BY <1>1, <1>2, <1>3, TypeInit DEF HousingInv

\* The invariant that the theorems below are read off.
LEMMA Housing == Spec => []HousingInv
BY HousingInit, HousingNext, PTL DEF Spec

\* A unit and a resident have at most one ACTIVE occupancy, however many direct
\* move-ins, approved move-ins, occupancy requests and resident grants race.
THEOREM OneActive == Spec => []OneActiveOccupancy
<1>1. HousingInv => OneActiveOccupancy
  BY DEF HousingInv
<1>2. QED
  BY <1>1, Housing, PTL

\* A contract refers to an occupancy of its own unit and resident, which no other
\* contract refers to, although executeApprovedMoveIn writes a link for a contract
\* it read in an earlier step.
THEOREM LeaseMatches == Spec => []LeaseMatchesOccupancy
<1>1. HousingInv => LeaseMatchesOccupancy
  BY DEF HousingInv
<1>2. QED
  BY <1>1, Housing, PTL

\* The contract of a COMPLETED move-in request has an occupancy.
THEOREM CompletedOccupied == Spec => []CompletedMoveInOccupied
<1>1. HousingInv => CompletedMoveInOccupied
  BY DEF HousingInv
<1>2. QED
  BY <1>1, Housing, PTL

------------------------------------------------------------------------------
(* The handlers implement the register of residents and units.             *)

\* Active occupancies of a state.
Active == {o \in Occupancies : occupancy[o].status = "ACTIVE"}

\* The pair an occupancy stands for.
Pair(o) == <<occupancy[o].resident, occupancy[o].unit>>

\* Lives is the set of pairs of the active occupancies, before and after a step.
LEMMA LivesPairs ==
    /\ Lives = {Pair(o) : o \in Active}
    /\ Lives' = {Pair(o)' : o \in Active'}
BY DEF Lives, Pair, Active

\* Different active occupancies stand for pairs that share nothing.
LEMMA PairsDiffer ==
    ASSUME OneActiveOccupancy, NEW x \in Active, NEW y \in Active, x # y
    PROVE  /\ occupancy[x].resident # occupancy[y].resident
           /\ occupancy[x].unit # occupancy[y].unit
           /\ Pair(x) # Pair(y)
BY DEF OneActiveOccupancy, Active, Pair

\* Ending the occupancies of one resident is a MoveOut of the register or nothing.
LEMMA EndRefines ==
    ASSUME HousingInv, NEW S \in SUBSET Occupancies, NEW r, Evict(S, r),
           occupancy' = EndOccupancies(S)
    PROVE  [Register!Next]_Lives
<1> TypeOK /\ OneActiveOccupancy /\ Placed
  BY DEF HousingInv, TypeInv
<1>1. Active' = Active \ S /\ \A o \in Occupancies : Pair(o)' = Pair(o)
  BY EndedRows DEF Active, Pair
<1>2. CASE S \cap Active = {}
  <2>1. Active' = Active
    BY <1>1, <1>2
  <2>2. \A o \in Active : Pair(o)' = Pair(o)
    BY <1>1 DEF Active
  <2>3. Lives' = Lives
    BY <2>1, <2>2, LivesPairs
  <2>4. QED
    BY <2>3
<1>3. CASE S \cap Active # {}
  <2>1. PICK x \in S : x \in Active
    BY <1>3
  <2>2. S \cap Active = {x}
    BY <2>1 DEF Evict, Active, OneActiveOccupancy
  <2>3. Active' = Active \ {x}
    BY <1>1, <2>2
  <2>4. \A o \in Active : Pair(o)' = Pair(o)
    BY <1>1 DEF Active
  <2>5. Lives' = Lives \ {Pair(x)}
    <3>1. \A o \in Active \ {x} : Pair(o) # Pair(x)
      BY <2>1, PairsDiffer
    <3>2. QED
      BY <2>1, <2>3, <2>4, <3>1, LivesPairs
  <2>6. occupancy[x].resident \in Residents /\ occupancy[x].unit \in Units
    BY <2>1 DEF Placed, Active
  <2>7. Pair(x) \in Lives
    BY <2>1, LivesPairs
  <2>8. Register!MoveOut(occupancy[x].resident, occupancy[x].unit)
    BY <2>5, <2>7 DEF Register!MoveOut, Pair
  <2>9. QED
    BY <2>6, <2>8 DEF Register!Next
<1>4. QED
  BY <1>2, <1>3

\* Inserting an occupancy is a MoveIn, or a Move when one of the resident was ended.
LEMMA MoveInRefines ==
    ASSUME HousingInv, NEW S \in SUBSET Occupancies, NEW o \in Occupancies,
           NEW u \in Units, NEW r \in Residents, MovesIn(S, o, u, r)
    PROVE  [Register!Next]_Lives
<1> TypeOK /\ OneActiveOccupancy /\ Placed
  BY DEF HousingInv, TypeInv
<1>0. /\ occupancy'[o] = ActiveOccupancy(u, r)
      /\ \A x \in Occupancies \ {o} : occupancy'[x] = EndOccupancies(S)[x]
      /\ o \notin Active
  <2>1. o \notin Active
    BY DEF MovesIn, Active
  <2>2. QED
    BY <2>1, MovedInRows
<1>1. /\ Active' = (Active \ S) \cup {o}
      /\ Pair(o)' = <<r, u>>
      /\ \A x \in Occupancies \ {o} : Pair(x)' = Pair(x)
  <2>1. occupancy'[o].status = "ACTIVE" /\ Pair(o)' = <<r, u>>
    BY <1>0 DEF ActiveOccupancy, Pair
  <2>2. \A x \in Occupancies \ {o} :
           /\ occupancy'[x].unit = occupancy[x].unit
           /\ occupancy'[x].resident = occupancy[x].resident
           /\ occupancy'[x].status = IF x \in S THEN "ENDED" ELSE occupancy[x].status
    BY <1>0, EndedRows
  <2>3. \A x \in Occupancies \ {o} : Pair(x)' = Pair(x)
    BY <2>2 DEF Pair
  <2>4. Active' = (Active \ S) \cup {o}
    BY <2>1, <2>2, <1>0 DEF Active
  <2>5. QED
    BY <2>1, <2>3, <2>4
<1>2. \A x \in Active \ S : occupancy[x].unit # u /\ occupancy[x].resident # r
  BY EndedRows DEF MovesIn, NoClash, Active
<1>3. Lives' = {Pair(x) : x \in Active \ S} \cup {<<r, u>>}
  <2>1. \A x \in Active \ S : Pair(x)' = Pair(x)
    BY <1>0, <1>1 DEF Active
  <2>2. QED
    BY <1>1, <2>1, LivesPairs
<1>4. CASE S \cap Active = {}
  <2>1. Active \ S = Active
    BY <1>4
  <2>2. Lives' = Lives \cup {<<r, u>>}
    BY <1>3, <2>1, LivesPairs
  <2>3. Register!Homeless(r) /\ Register!Vacant(u)
    BY <1>2, <2>1, LivesPairs DEF Register!Homeless, Register!Vacant, Pair
  <2>4. QED
    BY <2>2, <2>3 DEF Register!Next, Register!MoveIn
<1>5. CASE S \cap Active # {}
  <2>1. PICK x \in S : x \in Active
    BY <1>5
  <2>2. S \cap Active = {x} /\ occupancy[x].resident = r
    BY <2>1 DEF MovesIn, Evict, Active, OneActiveOccupancy
  <2>3. Active \ S = Active \ {x}
    BY <2>2
  <2>4. \A y \in Active \ {x} : Pair(y) # Pair(x)
    BY <2>1, PairsDiffer
  <2>5. {Pair(y) : y \in Active \ S} = Lives \ {Pair(x)}
    BY <2>1, <2>3, <2>4, LivesPairs
  <2>6. Pair(x) = <<r, occupancy[x].unit>> /\ occupancy[x].unit \in Units
    BY <2>1, <2>2 DEF Pair, Placed, Active
  <2>7. Pair(x) \in Lives
    BY <2>1, LivesPairs
  <2>8. CASE occupancy[x].unit = u
    BY <1>3, <2>5, <2>6, <2>7, <2>8
  <2>9. CASE occupancy[x].unit # u
    <3>1. Register!Vacant(u)
      <4>1. \A y \in Active : occupancy[y].unit # u
        BY <1>2, <2>3, <2>9
      <4>2. QED
        BY <4>1, LivesPairs DEF Register!Vacant, Pair
    <3>2. Register!Move(r, occupancy[x].unit, u)
      BY <1>3, <2>5, <2>6, <2>7, <3>1 DEF Register!Move
    <3>3. QED
      BY <2>6, <3>2 DEF Register!Next
  <2>10. QED
    BY <2>8, <2>9
<1>6. QED
  BY <1>4, <1>5

\* Every step of the handlers is a step of the register or changes nothing in it:
\* at each commit one resident moves in, moves out, or moves to another unit.
THEOREM RegisterImplemented == Spec => ImplementsRegister
<1>1. Init => Register!Init
  BY DEF Init, Register!Init, Lives
<1>2. HousingInv /\ [Next]_vars => [Register!Next]_Lives
  <2> SUFFICES ASSUME HousingInv, [Next]_vars PROVE [Register!Next]_Lives
    OBVIOUS
  <2>1. CASE occupancy' = occupancy
    BY <2>1 DEF Lives
  <2>2. ASSUME NEW c \in Requests, Write(c) PROVE [Register!Next]_Lives
    <3>1. OccupancyChange
      BY <2>2, WriteOccupancies
    <3>2. QED
      BY <2>1, <3>1, EndRefines, MoveInRefines DEF OccupancyChange
  <2>3. QED
    BY <2>1, <2>2, StepKinds, CheckReads DEF vars
<1>3. QED
  BY <1>1, <1>2, Housing, PTL DEF Spec, ImplementsRegister, Register!Spec

------------------------------------------------------------------------------
(* No two requests in conflict.  A handler checks and commits separately   *)
(* and does not check again, so what it relies on when it commits has to   *)
(* survive in between.  It does if no other request is between its last    *)
(* check and its commit on the same contract, or allocates parking for its *)
(* occupancy.  Whatever happens to move requests, slots and access items,  *)
(* requests on other contracts and those that are a single statement may   *)
(* come in between.                                                        *)

\* where a handler has checked a contract it is going to write, or that it has vacated
Deciding == {"activate", "cancel", "moveOutTx", "complete", "moveInTx"}

\* the request decides on contract l, or on parking for its occupancy
Concerns(r, l) ==
    \/ r.pc \in Deciding /\ r.lease = l
    \/ r.pc = "allocate" /\ r.occ # NoId /\ lease[l].occ = r.occ

Conflict(r, s) == \E l \in Leases : Concerns(r, l) /\ Concerns(s, l)

\* no two requests decide on the same contract at once
ConflictFree == \A c, d \in Requests : Conflict(req[c], req[d]) => c = d

\* nobody lives in the occupancy of the contract and no parking is allocated to it
Vacated(l) == lease[l].occ # NoId =>
    /\ occupancy[lease[l].occ].status = "ENDED"
    /\ \A a \in Allocations : alloc[a].status = "OPEN" => alloc[a].occ # lease[l].occ

ClosedStatuses == {"ENDED", "CANCELLED"}
ClosedVacated == \A l \in Leases : lease[l].status \in ClosedStatuses => Vacated(l)
DraftUnlinked == \A l \in Leases : lease[l].status = "DRAFT" => lease[l].occ = NoId

\* what the rows still say when the handler commits
Relies(r) ==
    /\ r.pc \in {"cancel", "complete"} => Vacated(r.lease)
    /\ r.pc = "moveOutTx" => lease[r.lease].occ = r.occ
    /\ r.pc = "allocate" /\ r.occ # NoId =>
           \E l \in Leases : lease[l].status = "ACTIVE" /\ lease[l].occ = r.occ

ReqsRely == \A c \in Requests : Relies(req[c])

SerialInv == HousingInv /\ ReqsRely /\ ClosedVacated /\ DraftUnlinked

\* A request that is over relies on nothing.
LEMMA IdleRelies ==
    ASSUME NEW r, r.pc = "idle"
    PROVE  Relies(r) /\ Relies(r)'
BY DEF Relies

\* Ending allocations opens none.
LEMMA EndedAllocations ==
    ASSUME TypeOK, NEW S, alloc' = EndAllocations(S), NEW a \in Allocations
    PROVE  /\ alloc'[a].status = "OPEN" => alloc'[a] = alloc[a] /\ a \notin S
           /\ alloc'[a].occ = alloc[a].occ
BY DEF TypeOK, EndAllocations, AllocRow

\* An allocation that opens is for no occupancy of a contract that is not active.
Opens(a) == \A l \in Leases :
    lease[l].occ # NoId /\ lease[l].occ = alloc'[a].occ => lease[l].status = "ACTIVE"

\* How a write changes allocations: those that are open stay as they are, are ended,
\* or one is opened.
LEMMA WriteAllocations ==
    ASSUME SerialInv, NEW c \in Requests, Write(c)
    PROVE  \A a \in Allocations : alloc'[a].status = "OPEN" => alloc'[a] = alloc[a] \/ Opens(a)
<1> TypeOK /\ ReqFine(req[c]) /\ Relies(req[c]) /\ LeaseMatchesOccupancy
  BY DEF SerialInv, HousingInv, TypeInv, ReqOK, ReqsRely
<1> DEFINE Goal == \A a \in Allocations :
                      alloc'[a].status = "OPEN" => alloc'[a] = alloc[a] \/ Opens(a)
<1>1. CASE alloc' = alloc
  BY <1>1
<1>2. ASSUME NEW S, alloc' = EndAllocations(S) PROVE Goal
  BY <1>2, EndedAllocations
<1>3. ASSUME NEW o \in Occupancies, NEW m \in Leases, NEW A \in SUBSET Allocations,
             NEW K \in SUBSET Items, DirectMoveIn(c, o, m, A, K)
      PROVE  Goal
  <2> DEFINE s == req[c].slot
  <2>1. /\ req[c].pc = "direct" /\ occupancy[o].status = "NONE"
        /\ A \in OptionalRow(s # NoId, {a \in Allocations : alloc[a].status = "NONE"})
        /\ alloc' = [a \in Allocations |-> IF a \in A
                        THEN [status |-> "OPEN", slot |-> s, occ |-> o, unit |-> NoId]
                        ELSE alloc[a]]
    BY <1>3 DEF DirectMoveIn
  <2>2. CASE A = {}
    <3>1. \A a \in Allocations : alloc'[a] = alloc[a]
      BY <2>1, <2>2
    <3>2. QED
      BY <3>1
  <2>3. CASE A # {}
    <3>1. PICK a \in Allocations : A = {a}
      BY <2>1, <2>3 DEF OptionalRow
    <3>2. alloc'[a].occ = o /\ \A b \in Allocations \ {a} : alloc'[b] = alloc[b]
      BY <2>1, <3>1
    <3>3. \A l \in Leases : lease[l].occ # NoId => lease[l].occ # o
      BY <2>1 DEF LeaseMatchesOccupancy
    <3>4. QED
      BY <3>2, <3>3 DEF Opens
  <2>4. QED
    BY <2>2, <2>3
<1>4. ASSUME NEW a \in Allocations, Allocate(c, a) PROVE Goal
  <2>1. /\ req[c].pc = "allocate" /\ alloc'[a].occ = req[c].occ
        /\ \A b \in Allocations \ {a} : alloc'[b] = alloc[b]
    BY <1>4 DEF Allocate, TypeOK
  <2>2. ASSUME NEW l \in Leases, lease[l].occ # NoId, lease[l].occ = req[c].occ
        PROVE  lease[l].status = "ACTIVE"
    <3>1. PICK m \in Leases : lease[m].status = "ACTIVE" /\ lease[m].occ = req[c].occ
      BY <2>1, <2>2 DEF Relies
    <3>2. m = l
      BY <2>2, <3>1 DEF LeaseMatchesOccupancy
    <3>3. QED
      BY <3>1, <3>2
  <2>3. QED
    BY <2>1, <2>2 DEF Opens
<1>5. CASE \/ \E returned \in BOOLEAN : MoveOut(c, returned)
           \/ \E a \in Allocations : EndAllocation(c, a)
           \/ \E o \in Occupancies : EndAllForOccupancy(c, o)
           \/ \E u \in Units : EndAllForUnit(c, u)
  <2>1. \E S : alloc' = EndAllocations(S)
    BY <1>5 DEF MoveOut, EndAllocation, EndAllForOccupancy, EndAllForUnit
  <2>2. QED
    BY <1>2, <2>1
<1>6. CASE \/ \E l \in Leases : CreateDraftContract(c, l)
           \/ ActivateContract(c) \/ CancelContract(c) \/ Review(c) \/ UpdateItemStatus(c)
           \/ \E q \in MoveRequests : CreateMoveRequest(c, q)
           \/ \E early \in BOOLEAN : CompleteMoveOut(c, early)
           \/ \E o \in Occupancies : \/ ExecuteApprovedMoveIn(c, o) \/ CreateOccupancy(c, o)
                                     \/ ApplyResidentGrant(c, o)
           \/ \E r \in Residents, b \in Buildings : GrantMoveOut(c, r, b)
           \/ \E k \in Items : (\E l \in Leases : IssueItem(c, l, k)) \/ DeleteItem(c, k)
  <2>1. alloc' = alloc
    BY <1>6 DEF CreateDraftContract, ActivateContract, CancelContract, Review,
       UpdateItemStatus, CreateMoveRequest, CompleteMoveOut, ExecuteApprovedMoveIn,
       CreateOccupancy, ApplyResidentGrant, GrantMoveOut, IssueItem, DeleteItem
  <2>2. QED
    BY <1>1, <2>1
<1>7. QED
  BY <1>3, <1>4, <1>5, <1>6 DEF Write

\* An occupancy that has ended stays ended.
LEMMA EndedStays ==
    ASSUME TypeOK, OccupancyChange, NEW o \in Occupancies, occupancy[o].status = "ENDED"
    PROVE  occupancy'[o].status = "ENDED"
<1>1. ASSUME NEW S, occupancy' = EndOccupancies(S) PROVE occupancy'[o].status = "ENDED"
  BY <1>1, EndedRows
<1>2. ASSUME NEW S, NEW x \in Occupancies, NEW u, NEW r, MovesIn(S, x, u, r)
      PROVE  occupancy'[o].status = "ENDED"
  <2>1. o # x
    BY <1>2 DEF MovesIn
  <2>2. occupancy'[o] = EndOccupancies(S)[o]
    BY <1>2, <2>1, MovedInRows
  <2>3. QED
    BY <2>2, EndedRows
<1>3. QED
  BY <1>1, <1>2 DEF OccupancyChange

\* A contract that is not active stays vacated.
LEMMA StillVacated ==
    ASSUME SerialInv, NEW c \in Requests, Write(c), NEW l \in Leases,
           lease[l].status # "ACTIVE", Vacated(l), lease'[l].occ = lease[l].occ
    PROVE  Vacated(l)'
<1> SUFFICES ASSUME lease[l].occ # NoId PROVE Vacated(l)'
  BY DEF Vacated
<1> TypeOK
  BY DEF SerialInv, HousingInv, TypeInv
<1>1. PICK o \in Occupancies : o = lease[l].occ
  BY DEF TypeOK, LeaseRow, Nullable
<1>2. occupancy[o].status = "ENDED"
  BY <1>1 DEF Vacated
<1>3. occupancy'[o].status = "ENDED"
  BY <1>2, WriteOccupancies, EndedStays DEF SerialInv
<1>4. \A a \in Allocations : alloc'[a].status = "OPEN" => alloc'[a].occ # o
  BY <1>1, WriteAllocations DEF Vacated, Opens
<1>5. QED
  BY <1>1, <1>3, <1>4 DEF Vacated

\* Closed contracts are vacated: the contract that a handler closes is vacated when it
\* commits, or by the same transaction.
LEMMA WriteVacated ==
    ASSUME SerialInv, NEW c \in Requests, Write(c)
    PROVE  ClosedVacated' /\ DraftUnlinked'
<1> TypeOK /\ HousingInv /\ ReqFine(req[c]) /\ Relies(req[c]) /\ ClosedVacated /\ DraftUnlinked
  BY DEF SerialInv, HousingInv, TypeInv, ReqOK, ReqsRely
<1> DEFINE Goal == ClosedVacated' /\ DraftUnlinked'
           Fine(l) == \/ lease'[l] = lease[l]
                      \/ lease'[l].status = "ACTIVE"
                      \/ lease'[l].occ = NoId
                      \/ lease'[l].status \in ClosedStatuses /\ Vacated(l)'
<1>1. ASSUME \A l \in Leases : Fine(l) PROVE Goal
  <2>1. ASSUME NEW l \in Leases, lease'[l].status \in ClosedStatuses PROVE Vacated(l)'
    <3>1. CASE lease'[l] = lease[l]
      BY <2>1, <3>1, StillVacated DEF ClosedVacated, ClosedStatuses
    <3>2. CASE lease'[l].occ = NoId
      BY <3>2 DEF Vacated
    <3>3. QED
      BY <1>1, <2>1, <3>1, <3>2 DEF ClosedStatuses
  <2>2. DraftUnlinked'
    BY <1>1 DEF DraftUnlinked, ClosedStatuses
  <2>3. QED
    BY <2>1, <2>2 DEF ClosedVacated
<1>2. ASSUME NEW m \in Leases, CreateDraftContract(c, m) PROVE Goal
  BY <1>1, <1>2, DraftRows
<1>3. ASSUME NEW o \in Occupancies, ExecuteApprovedMoveIn(c, o) PROVE Goal
  BY <1>1, <1>3, MoveInRows
<1>4. ASSUME NEW o \in Occupancies, NEW m \in Leases, NEW A \in SUBSET Allocations,
             NEW K \in SUBSET Items, DirectMoveIn(c, o, m, A, K)
      PROVE  Goal
  BY <1>1, <1>4, DirectRows
<1>5. CASE ActivateContract(c)
  <2>1. req[c].lease \in Leases
    BY <1>5 DEF ActivateContract, ReqFine
  <2>2. \A l \in Leases : IF l = req[c].lease THEN lease'[l].status = "ACTIVE"
                          ELSE lease'[l] = lease[l]
    BY <1>5, <2>1 DEF ActivateContract, TypeOK, LeaseRow
  <2>3. QED
    BY <1>1, <2>2
<1>6. CASE CancelContract(c) \/ \E early \in BOOLEAN : CompleteMoveOut(c, early)
  <2>1. req[c].pc \in {"cancel", "complete"} /\ UNCHANGED <<occupancy, alloc>>
    BY <1>6 DEF CancelContract, CompleteMoveOut
  <2>2. PICK m \in Leases : m = req[c].lease /\ Vacated(m)
    BY <2>1 DEF ReqFine, Relies
  <2>3. lease' = lease \/ lease' = [lease EXCEPT ![m].status = "CANCELLED"]
    BY <1>6, <2>2 DEF CancelContract, CompleteMoveOut
  <2>4. CASE lease' = lease
    BY <1>1, <2>4
  <2>5. CASE lease' = [lease EXCEPT ![m].status = "CANCELLED"]
    <3>1. /\ lease'[m].status = "CANCELLED" /\ lease'[m].occ = lease[m].occ
          /\ \A l \in Leases \ {m} : lease'[l] = lease[l]
      BY <2>2, <2>5 DEF TypeOK, LeaseRow
    <3>2. Vacated(m)'
      BY <2>1, <2>2, <3>1 DEF Vacated
    <3>3. QED
      BY <1>1, <3>1, <3>2 DEF ClosedStatuses
  <2>6. QED
    BY <2>3, <2>4, <2>5
<1>7. ASSUME NEW returned \in BOOLEAN, MoveOut(c, returned) PROVE Goal
  <2>1. /\ req[c].pc = "moveOutTx" /\ occupancy' = EndOccupancies({req[c].occ})
        /\ alloc' = EndAllocations({a \in Allocations : alloc[a].occ = req[c].occ})
        /\ lease' = [lease EXCEPT ![req[c].lease].status = "ENDED"]
    BY <1>7 DEF MoveOut
  <2>2. PICK m \in Leases : m = req[c].lease
    BY <2>1 DEF ReqFine
  <2>3. PICK o \in Occupancies : o = req[c].occ /\ lease[m].occ = o
    BY <2>1, <2>2 DEF ReqFine, Relies
  <2>4. /\ lease'[m].status = "ENDED" /\ lease'[m].occ = o
        /\ \A l \in Leases \ {m} : lease'[l] = lease[l]
    BY <2>1, <2>2, <2>3 DEF TypeOK, LeaseRow
  <2>5. occupancy'[o].status = "ENDED"
    BY <2>1, <2>3, EndedRows
  <2>6. \A a \in Allocations : alloc'[a].status = "OPEN" => alloc'[a].occ # o
    BY <2>1, <2>3, EndedAllocations
  <2>7. Vacated(m)'
    BY <2>4, <2>5, <2>6 DEF Vacated
  <2>8. QED
    BY <1>1, <2>4, <2>7 DEF ClosedStatuses
<1>8. CASE \/ \E q \in MoveRequests : CreateMoveRequest(c, q)
           \/ Review(c) \/ UpdateItemStatus(c)
           \/ \E o \in Occupancies : CreateOccupancy(c, o) \/ ApplyResidentGrant(c, o)
                                      \/ EndAllForOccupancy(c, o)
           \/ \E r \in Residents, b \in Buildings : GrantMoveOut(c, r, b)
           \/ \E a \in Allocations : Allocate(c, a) \/ EndAllocation(c, a)
           \/ \E u \in Units : EndAllForUnit(c, u)
           \/ \E k \in Items : (\E l \in Leases : IssueItem(c, l, k)) \/ DeleteItem(c, k)
  <2>1. lease' = lease
    BY <1>8 DEF CreateMoveRequest, Review, UpdateItemStatus, CreateOccupancy,
       ApplyResidentGrant, EndAllForOccupancy, GrantMoveOut, Allocate, EndAllocation,
       EndAllForUnit, IssueItem, DeleteItem
  <2>2. QED
    BY <1>1, <2>1
<1>9. QED
  BY <1>2, <1>3, <1>4, <1>5, <1>6, <1>7, <1>8 DEF Write

\* A check finds what its handler relies on.
LEMMA CheckRelies ==
    ASSUME SerialInv, NEW c \in Requests, Check(c)
    PROVE  Relies(req'[c])
<1> TypeOK /\ req \in [Requests -> ReqState] /\ req[c] \in ReqState /\ Relies(req[c])
  BY DEF SerialInv, HousingInv, TypeInv, TypeOK, ReqsRely
<1> DEFINE Goal == Relies(req'[c])
<1> USE DEF Relies
<1> DEFINE Harmless == {"idle", "draft", "activate", "occupy", "grant", "moveOutRead", "request",
                        "review", "moveInTx", "direct", "itemStatus"}
<1> DEFINE Other ==
            \/ \E u \in Units, r \in Residents :
                 \/ CreateDraftCheck(c, u, r) \/ OccupyCheck(c, u, r)
                 \/ \E m \in {"ADD", "MOVE"} : GrantCheck(c, u, r, m)
                 \/ \E s \in Nullable(Slots) : DirectMoveInCheck(c, u, r, s)
            \/ \E l \in Leases : ActivateCheck(c, l) \/ MoveOutCall(c, l)
            \/ Abandon(c)
<1> DEFINE Moving ==
            \/ \E l \in Leases, k \in {"in", "out"} : RequestCheck(c, l, k)
            \/ \E q \in MoveRequests : ReviewCheck(c, q, "APPROVED") \/ ReviewCheck(c, q, "REJECTED")
            \/ \E l \in Leases, q \in MoveRequests : ExecuteMoveInCheck(c, l, q) \/ ExecuteMoveOutCheck(c, l, q)
            \/ \E k \in Items, n \in ItemStatuses : ItemStatusCheck(c, k, n)
<1>1. CASE req'[c].pc \in Harmless
  BY <1>1
<1>2. ASSUME NEW l \in Leases, CancelCheck(c, l) PROVE Goal
  <2>1. /\ req'[c].pc \in {"moveOutRead", "cancel"} /\ req'[c].lease = l
        /\ req'[c].arg = "cancel"
        /\ req'[c].pc = "cancel" => lease[l].status # "ACTIVE" \/ lease[l].occ = NoId
    BY <1>2 DEF CancelCheck, Proceed, Idle
  <2>2. req'[c].pc = "cancel" => Vacated(l)
    BY <1>2, <2>1 DEF CancelCheck, SerialInv, ClosedVacated, ClosedStatuses, DraftUnlinked,
       Vacated
  <2>3. QED
    BY <2>1, <2>2
<1>3. CASE MoveOutCheck(c)
  <2>1. req[c].pc = "moveOutRead"
    BY <1>3 DEF MoveOutCheck
  <2>2. \/ req'[c] = Idle
        \/ /\ req'[c].pc = "moveOutTx" /\ req'[c].occ = lease[req[c].lease].occ
           /\ req'[c].arg = req[c].arg /\ req'[c].move = req[c].move
           /\ req'[c].lease = req[c].lease
    BY <1>3 DEF MoveOutCheck, Proceed, ReqState
  <2>3. Idle.pc = "idle"
    BY DEF Idle
  <2>4. QED
    BY <2>1, <2>2, <2>3
<1>4. ASSUME NEW s \in Slots, NEW o \in Nullable(Occupancies), NEW u \in Nullable(Units),
             AllocateCheck(c, s, o, u)
      PROVE  Goal
  <2>1. req'[c].pc = "allocate" /\ req'[c].occ = o
    BY <1>4 DEF AllocateCheck, Proceed, Idle
  <2>2. o # NoId => LeaseContext(o)
    BY <1>4 DEF AllocateCheck
  <2>3. QED
    BY <2>1, <2>2 DEF LeaseContext
<1>5. CASE Other
  <2>1. CASE \E u \in Units, r \in Residents : CreateDraftCheck(c, u, r)
    BY <1>1, <2>1 DEF CreateDraftCheck, Proceed, Idle
  <2>2. CASE \E u \in Units, r \in Residents : OccupyCheck(c, u, r)
    BY <1>1, <2>2 DEF OccupyCheck, Proceed, Idle
  <2>3. CASE \E u \in Units, r \in Residents, m \in {"ADD", "MOVE"} : GrantCheck(c, u, r, m)
    BY <1>1, <2>3 DEF GrantCheck, Proceed, Idle
  <2>4. CASE \E u \in Units, r \in Residents, s \in Nullable(Slots) : DirectMoveInCheck(c, u, r, s)
    BY <1>1, <2>4 DEF DirectMoveInCheck, Proceed, Idle
  <2>5. CASE \E l \in Leases : ActivateCheck(c, l)
    BY <1>1, <2>5 DEF ActivateCheck, Proceed, Idle
  <2>6. CASE \E l \in Leases : MoveOutCall(c, l)
    BY <1>1, <2>6 DEF MoveOutCall, Proceed, Idle
  <2>7. CASE Abandon(c)
    BY <1>1, <2>7 DEF Abandon, Done, Proceed, Idle
  <2>8. QED
    BY <1>5, <2>1, <2>2, <2>3, <2>4, <2>5, <2>6, <2>7
<1>6. CASE Moving
  <2>1. CASE \E l \in Leases, k \in {"in", "out"} : RequestCheck(c, l, k)
    BY <1>1, <2>1 DEF RequestCheck, Proceed, Idle
  <2>2. CASE \E q \in MoveRequests : ReviewCheck(c, q, "APPROVED") \/ ReviewCheck(c, q, "REJECTED")
    BY <1>1, <2>2 DEF ReviewCheck, Proceed, Idle
  <2>3. CASE \E l \in Leases, q \in MoveRequests : ExecuteMoveInCheck(c, l, q)
    BY <1>1, <2>3 DEF ExecuteMoveInCheck, Proceed, Idle
  <2>4. CASE \E l \in Leases, q \in MoveRequests : ExecuteMoveOutCheck(c, l, q)
    BY <1>1, <2>4 DEF ExecuteMoveOutCheck, Proceed, Idle
  <2>5. CASE \E k \in Items, n \in ItemStatuses : ItemStatusCheck(c, k, n)
    BY <1>1, <2>5 DEF ItemStatusCheck, Proceed, Idle
  <2>6. QED
    BY <1>6, <2>1, <2>2, <2>3, <2>4, <2>5
<1> HIDE DEF Relies, Goal, Harmless
<1>7. \/ \E l \in Leases : CancelCheck(c, l)
      \/ MoveOutCheck(c)
      \/ \E s \in Slots, o \in Nullable(Occupancies), u \in Nullable(Units) :
              AllocateCheck(c, s, o, u)
      \/ Other
      \/ Moving
  BY Zenon DEF Check, Other, Moving
<1>8. Other => Goal
  BY <1>5 DEF Goal
<1>9. Moving => Goal
  BY <1>6 DEF Goal
<1>10. MoveOutCheck(c) => Goal
  BY <1>3 DEF Goal
<1>11. QED
  BY <1>2, <1>4, <1>7, <1>8, <1>9, <1>10 DEF Goal

\* The writes that are a single statement and so a handler of their own.
SingleStatement(c) ==
    \/ \E r \in Residents, b \in Buildings : GrantMoveOut(c, r, b)
    \/ \E a \in Allocations : EndAllocation(c, a)
    \/ \E o \in Occupancies : EndAllForOccupancy(c, o)
    \/ \E u \in Units : EndAllForUnit(c, u)
    \/ \E k \in Items : (\E l \in Leases : IssueItem(c, l, k)) \/ DeleteItem(c, k)

\* They end occupancies and allocations and take from no handler what it relies on.
LEMMA SingleRelies ==
    ASSUME SerialInv, NEW c \in Requests, SingleStatement(c),
           NEW r \in ReqState, ReqFine(r), Relies(r)
    PROVE  Relies(r)'
<1> TypeOK
  BY DEF SerialInv, HousingInv, TypeInv
<1>1. UNCHANGED <<lease, move>>
  BY DEF SingleStatement, GrantMoveOut, EndAllocation, EndAllForOccupancy, EndAllForUnit,
     IssueItem, DeleteItem
<1>2. \A a \in Allocations : alloc'[a].status = "OPEN" => alloc'[a] = alloc[a]
  <2>1. alloc' = alloc \/ \E S : alloc' = EndAllocations(S)
    BY DEF SingleStatement, GrantMoveOut, EndAllocation, EndAllForOccupancy, EndAllForUnit,
       IssueItem, DeleteItem
  <2>2. QED
    BY <2>1, EndedAllocations
<1>3. \A o \in Occupancies : occupancy[o].status = "ENDED" => occupancy'[o].status = "ENDED"
  <2>1. occupancy' = occupancy \/ \E S : occupancy' = EndOccupancies(S)
    BY DEF SingleStatement, GrantMoveOut, EndAllocation, EndAllForOccupancy, EndAllForUnit,
       IssueItem, DeleteItem
  <2>2. QED
    BY <2>1, EndedRows
<1>4. \A l \in Leases : Vacated(l) => Vacated(l)'
  <2>1. \A l \in Leases : lease[l].occ \in Nullable(Occupancies)
    BY DEF TypeOK, LeaseRow
  <2>2. QED
    BY <1>1, <1>2, <1>3, <2>1 DEF Vacated, Nullable
<1>5. QED
  BY <1>1, <1>4 DEF Relies, ReqFine

\* The record of a request after the step, where the rows are read after the step.
LEMMA ReliesNow ==
    ASSUME NEW d \in Requests, NEW r, req'[d] = r, Relies(r)'
    PROVE  Relies(req[d])'
BY DEF Relies

\* The handler that moved a resident out goes on, and finds the contract vacated.
LEMMA MoveOutRelies ==
    ASSUME SerialInv, NEW c \in Requests, NEW returned \in BOOLEAN, MoveOut(c, returned)
    PROVE  Relies(req[c])'
<1> TypeOK /\ ReqFine(req[c]) /\ Relies(req[c]) /\ req[c] \in ReqState
  BY DEF SerialInv, HousingInv, TypeInv, ReqOK, ReqsRely, TypeOK
<1>1. req[c].pc = "moveOutTx"
  BY DEF MoveOut
<1>2. CASE req[c].arg = ""
  <2>1. req'[c] = Idle /\ Idle.pc = "idle"
    BY <1>2 DEF MoveOut, Proceed, TypeOK, Idle
  <2>2. QED
    BY <2>1, IdleRelies, ReliesNow
<1>3. CASE req[c].arg # ""
  <2>1. req[c].arg \in {"cancel", "complete"}
    BY <1>1, <1>3 DEF ReqFine
  <2>2. PICK m \in Leases : m = req[c].lease
    BY <1>1 DEF ReqFine
  <2>3. PICK r : r = req'[c]
    OBVIOUS
  <2>4. r.pc = req[c].arg /\ r.lease = m
    BY <1>3, <2>2, <2>3 DEF MoveOut, Proceed, TypeOK, ReqState
  <2>5. Vacated(m)'
    <3>1. lease'[m].status = "ENDED"
      BY <2>2 DEF MoveOut, TypeOK, LeaseRow
    <3>2. ClosedVacated'
      BY WriteVacated DEF Write
    <3>3. QED
      BY <3>1, <3>2 DEF ClosedVacated, ClosedStatuses
  <2>6. Relies(r)'
    BY <2>1, <2>4, <2>5 DEF Relies
  <2>7. QED
    BY <2>3, <2>6, ReliesNow
<1>4. QED
  BY <1>2, <1>3

\* The writes of handlers that checked first.
Commit(c) ==
    \/ \E l \in Leases : CreateDraftContract(c, l)
    \/ ActivateContract(c) \/ CancelContract(c)
    \/ \E returned \in BOOLEAN : MoveOut(c, returned)
    \/ \E q \in MoveRequests : CreateMoveRequest(c, q)
    \/ Review(c)
    \/ \E o \in Occupancies : ExecuteApprovedMoveIn(c, o)
    \/ \E early \in BOOLEAN : CompleteMoveOut(c, early)
    \/ \E o \in Occupancies, l \in Leases, A \in SUBSET Allocations, K \in SUBSET Items :
            DirectMoveIn(c, o, l, A, K)
    \/ \E o \in Occupancies : CreateOccupancy(c, o) \/ ApplyResidentGrant(c, o)
    \/ \E a \in Allocations : Allocate(c, a)
    \/ UpdateItemStatus(c)

LEMMA WriteKinds == \A c \in Requests : Write(c) <=> Commit(c) \/ SingleStatement(c)
BY DEF Write, Commit, SingleStatement

\* A commit writes the contract of its request and, of the others, only rows that do not
\* exist yet.
LEMMA LeaseKept ==
    ASSUME SerialInv, NEW c \in Requests, Commit(c), NEW l \in Leases,
           lease[l].status # "NONE", ~(req[c].pc \in Deciding /\ req[c].lease = l)
    PROVE  lease'[l] = lease[l]
<1> HousingInv /\ TypeOK
  BY DEF SerialInv, HousingInv, TypeInv
<1>1. ASSUME NEW m \in Leases, CreateDraftContract(c, m) PROVE lease'[l] = lease[l]
  BY <1>1, DraftRows
<1>2. ASSUME NEW o \in Occupancies, ExecuteApprovedMoveIn(c, o) PROVE lease'[l] = lease[l]
  BY <1>2, MoveInRows DEF ExecuteApprovedMoveIn, Deciding
<1>3. ASSUME NEW o \in Occupancies, NEW m \in Leases, NEW A \in SUBSET Allocations,
             NEW K \in SUBSET Items, DirectMoveIn(c, o, m, A, K)
      PROVE  lease'[l] = lease[l]
  BY <1>3, DirectRows
<1>4. CASE ActivateContract(c) \/ CancelContract(c)
  BY <1>4 DEF ActivateContract, CancelContract, TypeOK, Deciding
<1>5. ASSUME NEW returned \in BOOLEAN, MoveOut(c, returned) PROVE lease'[l] = lease[l]
  BY <1>5 DEF MoveOut, TypeOK, Deciding
<1>6. ASSUME NEW early \in BOOLEAN, CompleteMoveOut(c, early) PROVE lease'[l] = lease[l]
  BY <1>6 DEF CompleteMoveOut, TypeOK, Deciding
<1>7. CASE \/ \E q \in MoveRequests : CreateMoveRequest(c, q)
           \/ Review(c) \/ UpdateItemStatus(c)
           \/ \E o \in Occupancies : CreateOccupancy(c, o) \/ ApplyResidentGrant(c, o)
           \/ \E a \in Allocations : Allocate(c, a)
  BY <1>7 DEF CreateMoveRequest, Review, UpdateItemStatus, CreateOccupancy,
     ApplyResidentGrant, Allocate
<1>8. QED
  BY <1>1, <1>2, <1>3, <1>4, <1>5, <1>6, <1>7 DEF Commit

\* A commit opens an allocation for the occupancy its request named or for one that did not
\* exist.
LEMMA AllocationOpened ==
    ASSUME SerialInv, NEW c \in Requests, Commit(c), NEW a \in Allocations,
           alloc'[a].status = "OPEN"
    PROVE  \/ alloc'[a] = alloc[a]
           \/ req[c].pc = "allocate" /\ alloc'[a].occ = req[c].occ
           \/ alloc'[a].occ \in Occupancies /\ occupancy[alloc'[a].occ].status = "NONE"
<1> TypeOK /\ ReqFine(req[c])
  BY DEF SerialInv, HousingInv, TypeInv, ReqOK
<1> DEFINE Goal ==
       \/ alloc'[a] = alloc[a]
       \/ req[c].pc = "allocate" /\ alloc'[a].occ = req[c].occ
       \/ alloc'[a].occ \in Occupancies /\ occupancy[alloc'[a].occ].status = "NONE"
<1>1. CASE alloc' = alloc
  BY <1>1
<1>2. ASSUME NEW b \in Allocations, Allocate(c, b) PROVE Goal
  BY <1>2 DEF Allocate, TypeOK
<1>3. ASSUME NEW o \in Occupancies, NEW m \in Leases, NEW A \in SUBSET Allocations,
             NEW K \in SUBSET Items, DirectMoveIn(c, o, m, A, K)
      PROVE  Goal
  <2>1. /\ occupancy[o].status = "NONE"
        /\ alloc' = [x \in Allocations |-> IF x \in A
                        THEN [status |-> "OPEN", slot |-> req[c].slot, occ |-> o, unit |-> NoId]
                        ELSE alloc[x]]
    BY <1>3 DEF DirectMoveIn
  <2>2. CASE a \in A
    BY <2>1, <2>2
  <2>3. CASE a \notin A
    BY <2>1, <2>3
  <2>4. QED
    BY <2>2, <2>3
<1>4. ASSUME NEW returned \in BOOLEAN, MoveOut(c, returned) PROVE Goal
  <2>1. \E S : alloc' = EndAllocations(S)
    BY <1>4 DEF MoveOut
  <2>2. QED
    BY <2>1, EndedAllocations
<1>5. CASE \/ \E l \in Leases : CreateDraftContract(c, l)
           \/ ActivateContract(c) \/ CancelContract(c) \/ Review(c) \/ UpdateItemStatus(c)
           \/ \E q \in MoveRequests : CreateMoveRequest(c, q)
           \/ \E early \in BOOLEAN : CompleteMoveOut(c, early)
           \/ \E o \in Occupancies : \/ ExecuteApprovedMoveIn(c, o)
                                     \/ CreateOccupancy(c, o) \/ ApplyResidentGrant(c, o)
  BY <1>1, <1>5 DEF CreateDraftContract, ActivateContract, CancelContract, Review,
     UpdateItemStatus, CreateMoveRequest, CompleteMoveOut, ExecuteApprovedMoveIn,
     CreateOccupancy, ApplyResidentGrant
<1>6. QED
  BY <1>2, <1>3, <1>4, <1>5 DEF Commit

\* A commit takes from a request that it is not in conflict with nothing it relies on.
LEMMA CommitRelies ==
    ASSUME SerialInv, NEW c \in Requests, Commit(c), NEW r \in ReqState,
           ReqFine(r), ReqLinks(r), Relies(r), ~Conflict(req[c], r)
    PROVE  Relies(r)'
<1> TypeOK /\ ReqFine(req[c]) /\ req[c] \in ReqState /\ LeaseMatchesOccupancy
  BY DEF SerialInv, HousingInv, TypeInv, ReqOK, TypeOK
<1>1. \A l \in Leases : ~(Concerns(req[c], l) /\ Concerns(r, l))
  BY DEF Conflict
<1>2. ASSUME NEW l \in Leases, l = r.lease, lease[l].status # "NONE", r.pc \in Deciding
      PROVE  lease'[l] = lease[l]
  BY <1>1, <1>2, LeaseKept DEF Concerns
<1>3. CASE r.pc \in {"cancel", "complete"}
  <2>1. PICK l \in Leases : l = r.lease /\ lease[l].status # "NONE" /\ Vacated(l)
    BY <1>3 DEF ReqFine, ReqLinks, Relies
  <2>2. lease'[l] = lease[l]
    BY <1>2, <1>3, <2>1 DEF Deciding
  <2>3. Vacated(l)'
    <3> SUFFICES ASSUME lease[l].occ # NoId PROVE Vacated(l)'
      BY <2>2 DEF Vacated
    <3>1. PICK o \in Occupancies : o = lease[l].occ
      BY DEF TypeOK, LeaseRow, Nullable
    <3>2. occupancy[o].status = "ENDED"
      BY <2>1, <3>1 DEF Vacated
    <3>3. occupancy'[o].status = "ENDED"
      BY <3>2, WriteKinds, WriteOccupancies, EndedStays DEF SerialInv
    <3>4. ~(req[c].pc = "allocate" /\ req[c].occ = o)
      BY <1>1, <1>3, <2>1, <3>1, TenancyAssumption DEF Concerns, Deciding
    <3>5. \A a \in Allocations : alloc'[a].status = "OPEN" => alloc'[a].occ # o
      BY <2>1, <3>1, <3>2, <3>4, AllocationOpened DEF Vacated
    <3>6. QED
      BY <2>2, <3>1, <3>3, <3>5 DEF Vacated
  <2>4. QED
    BY <1>3, <2>1, <2>3 DEF Relies
<1>4. CASE r.pc = "moveOutTx"
  BY <1>2, <1>4 DEF ReqFine, ReqLinks, Relies, Deciding
<1>5. CASE r.pc = "allocate" /\ r.occ # NoId
  <2>1. PICK l \in Leases : lease[l].status = "ACTIVE" /\ lease[l].occ = r.occ
    BY <1>5 DEF Relies
  <2>2. ~(req[c].pc \in Deciding /\ req[c].lease = l)
    BY <1>1, <1>5, <2>1 DEF Concerns
  <2>3. lease'[l] = lease[l]
    BY <2>1, <2>2, LeaseKept
  <2>4. QED
    BY <1>5, <2>1, <2>3 DEF Relies
<1>6. QED
  BY <1>3, <1>4, <1>5 DEF Relies

\* The handler that commits is over or relies on what it wrote; the others in progress
\* decide on other contracts.
LEMMA WriteRelies ==
    ASSUME SerialInv, ConflictFree, NEW c \in Requests, Write(c)
    PROVE  ReqsRely'
<1> TypeInv
  BY DEF SerialInv, HousingInv
<1> SUFFICES ASSUME NEW d \in Requests PROVE Relies(req[d])'
  BY DEF ReqsRely
<1>1. CASE SingleStatement(c)
  <2>1. PICK r \in ReqState : r = req[d]
    BY DEF TypeInv, TypeOK
  <2>2. ReqFine(r) /\ Relies(r)
    BY <2>1 DEF TypeInv, ReqOK, SerialInv, ReqsRely
  <2>3. req' = req
    BY <1>1 DEF SingleStatement, GrantMoveOut, EndAllocation, EndAllForOccupancy,
       EndAllForUnit, IssueItem, DeleteItem
  <2>4. Relies(r)'
    BY <1>1, <2>2, SingleRelies
  <2>5. QED
    BY <2>1, <2>3, <2>4, ReliesNow
<1>2. CASE ~SingleStatement(c)
  <2>1. req[c].pc # "idle" /\ (Done(c) \/ \E returned \in BOOLEAN : MoveOut(c, returned))
    <3>1. ASSUME NEW o \in Occupancies, NEW l \in Leases, NEW A \in SUBSET Allocations,
                 NEW K \in SUBSET Items, DirectMoveIn(c, o, l, A, K)
          PROVE  req[c].pc # "idle" /\ Done(c)
      BY <3>1 DEF DirectMoveIn
    <3>2. ASSUME NEW returned \in BOOLEAN, MoveOut(c, returned) PROVE req[c].pc # "idle"
      BY <3>2 DEF MoveOut
    <3>3. ASSUME NEW o \in Occupancies, ApplyResidentGrant(c, o)
          PROVE  req[c].pc # "idle" /\ Done(c)
      BY <3>3 DEF ApplyResidentGrant
    <3>4. CASE \/ \E l \in Leases : CreateDraftContract(c, l)
               \/ ActivateContract(c) \/ CancelContract(c)
               \/ \E q \in MoveRequests : CreateMoveRequest(c, q)
               \/ Review(c) \/ UpdateItemStatus(c)
               \/ \E o \in Occupancies : ExecuteApprovedMoveIn(c, o) \/ CreateOccupancy(c, o)
               \/ \E early \in BOOLEAN : CompleteMoveOut(c, early)
               \/ \E a \in Allocations : Allocate(c, a)
      BY <3>4 DEF CreateDraftContract, ActivateContract, CancelContract, CreateMoveRequest,
         Review, UpdateItemStatus, ExecuteApprovedMoveIn, CreateOccupancy, CompleteMoveOut,
         Allocate
    <3>5. QED
      BY <1>2, <3>1, <3>2, <3>3, <3>4 DEF Write, SingleStatement
  <2>2. CASE d # c
    <3>1. PICK r : r = req[d]
      OBVIOUS
    <3>2. req'[d] = r
      BY <2>2, <3>1, OtherReqs
    <3>3. CASE r.pc = "idle"
      BY <3>2, <3>3, IdleRelies, ReliesNow
    <3>4. CASE r.pc # "idle"
      <4>1. ~Conflict(req[c], r)
        BY <2>1, <2>2, <3>1, <3>4 DEF ConflictFree
      <4>2. r \in ReqState /\ ReqFine(r) /\ ReqLinks(r) /\ Relies(r)
        BY <3>1 DEF TypeInv, TypeOK, ReqOK, SerialInv, HousingInv, ReqsLinked, ReqsRely
      <4>3. Relies(r)'
        BY <1>2, <4>1, <4>2, WriteKinds, CommitRelies
      <4>4. QED
        BY <3>2, <4>3, ReliesNow
    <3>5. QED
      BY <3>3, <3>4
  <2>3. CASE d = c
    <3>1. CASE Done(c)
      <4>1. req'[c] = Idle /\ Idle.pc = "idle"
        BY <3>1 DEF Done, Proceed, TypeInv, TypeOK, Idle
      <4>2. QED
        BY <2>3, <4>1, IdleRelies, ReliesNow
    <3>2. QED
      BY <2>1, <2>3, <3>1, MoveOutRelies
  <2>4. QED
    BY <2>2, <2>3
<1>3. QED
  BY <1>1, <1>2

\* Nothing is closed, allocated or relied on initially.
LEMMA SerialInit == Init => SerialInv
<1> SUFFICES ASSUME Init PROVE SerialInv
  OBVIOUS
<1>1. ReqsRely
  <2> SUFFICES ASSUME NEW c \in Requests PROVE Relies(req[c])
    BY DEF ReqsRely
  <2>1. req[c].pc = "idle"
    BY DEF Init, Idle
  <2>2. QED
    BY <2>1 DEF Relies
<1>2. ClosedVacated /\ DraftUnlinked
  BY DEF Init, ClosedVacated, ClosedStatuses, DraftUnlinked
<1>3. QED
  BY <1>1, <1>2, HousingInit DEF SerialInv

\* Every step preserves the invariant.
LEMMA SerialNext ==
    SerialInv /\ ConflictFree /\ [Next]_vars => SerialInv'
<1> SUFFICES ASSUME SerialInv, ConflictFree, [Next]_vars PROVE SerialInv'
  OBVIOUS
<1>1. HousingInv'
  BY HousingNext DEF SerialInv
<1>2. ASSUME UNCHANGED <<lease, occupancy, move, alloc, item>>
      PROVE  ClosedVacated' /\ DraftUnlinked'
  BY <1>2 DEF SerialInv, ClosedVacated, Vacated, DraftUnlinked
<1>3. ASSUME NEW r, Relies(r), UNCHANGED <<lease, occupancy, move, alloc, item>>
      PROVE  Relies(r)'
  BY <1>3 DEF Relies, Vacated
<1>4. CASE UNCHANGED vars
  <2>1. UNCHANGED <<lease, occupancy, move, alloc, item, req>>
    BY <1>4 DEF vars
  <2>2. ASSUME NEW d \in Requests PROVE Relies(req[d])'
    <3>1. PICK r : r = req[d]
      OBVIOUS
    <3>2. Relies(r) /\ req'[d] = r
      BY <2>1, <3>1 DEF SerialInv, ReqsRely
    <3>3. QED
      BY <1>3, <2>1, <3>2, ReliesNow
  <2>3. QED
    BY <1>1, <1>2, <2>1, <2>2 DEF SerialInv, ReqsRely
<1>5. ASSUME NEW c \in Requests, Check(c) PROVE SerialInv'
  <2>1. UNCHANGED <<lease, occupancy, move, alloc, item>>
    BY <1>5, CheckReads
  <2>2. ASSUME NEW d \in Requests PROVE Relies(req[d])'
    <3>1. PICK r : r = req'[d]
      OBVIOUS
    <3>2. Relies(r)
      <4>1. CASE d = c
        BY <1>5, <3>1, <4>1, CheckRelies
      <4>2. CASE d # c
        BY <1>5, <3>1, <4>2, OtherReqs DEF SerialInv, HousingInv, ReqsRely
      <4>3. QED
        BY <4>1, <4>2
    <3>3. QED
      BY <1>3, <2>1, <3>1, <3>2, ReliesNow
  <2>3. QED
    BY <1>1, <1>2, <2>1, <2>2 DEF SerialInv, ReqsRely
<1>6. ASSUME NEW c \in Requests, Write(c) PROVE SerialInv'
  BY <1>1, <1>6, WriteRelies, WriteVacated DEF SerialInv
<1>7. QED
  BY <1>4, <1>5, <1>6, StepKinds

\* The invariant that the theorems below are read off.
LEMMA SerialInductive == Spec /\ []ConflictFree => []SerialInv
BY SerialInit, SerialNext, PTL DEF Spec

\* With a single API request the hypothesis of the theorems below holds.
LEMMA OneRequest ==
    ASSUME \A c, d \in Requests : c = d
    PROVE  Spec => []ConflictFree
<1>1. ConflictFree
  BY DEF ConflictFree
<1>2. QED
  BY <1>1, PTL

\* If no two requests decide on the same contract at once, however many there are, whatever
\* races about move requests, parking slots and access items, and however requests fail or
\* die between two commits, nobody lives in the occupancy of a contract that is ENDED or
\* CANCELLED (cancelContract, moveOut, executeApprovedMoveOut, activateContract after a
\* cancellation).
THEOREM ClosedVacatedConflictFree == Spec /\ []ConflictFree => []ClosedLeaseVacated
<1>1. SerialInv => ClosedLeaseVacated
  BY DEF SerialInv, ClosedVacated, Vacated, ClosedStatuses, ClosedLeaseVacated
<1>2. QED
  BY <1>1, SerialInductive, PTL

\* Under the same condition a closed contract holds no parking slot (moveOut ends the
\* allocations of the occupancy, and no allocation is made for one whose contract is
\* not active).
THEOREM ParkingReleasedConflictFree == Spec /\ []ConflictFree => []ClosedLeaseReleasedParking
<1>1. SerialInv => ClosedLeaseReleasedParking
  BY DEF SerialInv, ClosedVacated, Vacated, ClosedStatuses, ClosedLeaseReleasedParking
<1>2. QED
  BY <1>1, SerialInductive, PTL
=============================================================================
