------------------------------- MODULE Premises -------------------------------
(***************************************************************************)
(* The units of one building with their owners and amenities (modules/     *)
(* units, unit-ownerships, building-amenities), the import of units from a *)
(* CSV file, the visitors of a unit (modules/visitors), and the three      *)
(* places that ask who owns a unit: messaging, the recipients of           *)
(* notifications and the owner portfolio.                                  *)
(*                                                                         *)
(* The owner of a unit is kept twice: in Unit.ownerId and in the row of    *)
(* UnitOwnership without an end.  A transaction shows its writes when it   *)
(* commits; a unit row it has updated is locked until then (READ           *)
(* COMMITTED).  What a request reads before its transaction is one step.   *)
(*                                                                         *)
(* Left out: the descriptive fields of a unit or a visitor, unit types,    *)
(* ended ownerships, and which cell of a CSV row is wrong.                 *)
(***************************************************************************)
EXTENDS Naturals, FiniteSets, Sequences

CONSTANTS
    Clerks,          \* concurrent API requests
    UnitId, Label,   \* ids and labels of units
    Owner,           \* Owner rows of the organisation
    PortalUser,      \* users of the owner portal
    OwnerAccess,     \* OwnerAccess[o]: users with an ACTIVE grant of owner o (Accounts)
    Amenity,         \* ids of amenities
    Resident,        \* residents
    Visitor,         \* ids of visitors
    MaxRows,         \* rows of a CSV file
    Keep,            \* a field the caller left out
    Nil

OrNil(S) == S \cup {Nil}
Status == {"EXPECTED", "ARRIVED", "COMPLETED", "CANCELLED"}

ASSUME PremisesAssumption ==
    /\ OwnerAccess \in [Owner -> SUBSET PortalUser]
    /\ UnitId \subseteq Nat /\ Nil \notin UnitId
    /\ Nil \notin Label \cup Owner \cup Resident \cup Clerks \cup Visitor \cup Status
    /\ Keep \notin OrNil(Label) \cup OrNil(Owner) \cup Status
    /\ \A S \in SUBSET Amenity : Keep # S
    /\ MaxRows \in Nat

VARIABLES
    building,     \* the Building row is there
    unit,         \* unit[u]: Unit row
    open,         \* open[u]: owners with an UnitOwnership of u without an end
    links,        \* links[u]: UnitAmenity rows of u
    amenity,      \* amenity[a]: BuildingAmenity row
    lock,         \* lock[u]: the transaction that has updated row u
    ownerActive,  \* active Owner rows
    home,         \* home[u]: resident of the ACTIVE occupancy of u (Tenancy)
    visitor,      \* visitor[v]: Visitor row
    told,         \* <<v, r>>: r has been notified that v arrived
    task          \* task[h]: progress of request h

unitVars == <<building, unit, open, links, lock>>
visitVars == <<home, visitor, told>>
premVars == <<unitVars, amenity, ownerActive, visitVars, task>>

UnitRow == [label: OrNil(Label), owner: OrNil(Owner)]
AmenityRow == [exists: BOOLEAN, isActive: BOOLEAN, isDefault: BOOLEAN]
VisitorRow == [unit: OrNil(UnitId), status: OrNil(Status)]
Task == [pc: {"idle", "create", "update", "unlink", "syncOwner", "commit", "import",
              "visit", "updateVisitor", "announce", "cancel"},
         unit: OrNil(UnitId), label: OrNil(Label) \cup {Keep},
         owner: OrNil(Owner) \cup {Keep}, links: {Keep} \cup SUBSET Amenity,
         unlinked: SUBSET Amenity,      \* rows the deleteMany of this request removes
         active: SUBSET Owner,          \* open ownerships it has read
         labels: SUBSET Label,          \* labels of the rows of a file
         known: [Label -> OrNil(UnitId)],  \* existingByLabel
         visitor: OrNil(Visitor), status: Status \cup {Keep},
         previous: OrNil(Status), resident: OrNil(Resident)]

\* Rows and requests have their types.
PremisesTypeOK ==
    /\ building \in BOOLEAN
    /\ unit \in [UnitId -> UnitRow] /\ open \in [UnitId -> SUBSET Owner]
    /\ links \in [UnitId -> SUBSET Amenity] /\ amenity \in [Amenity -> AmenityRow]
    /\ lock \in [UnitId -> OrNil(Clerks)] /\ ownerActive \subseteq Owner
    /\ home \in [UnitId -> OrNil(Resident)] /\ visitor \in [Visitor -> VisitorRow]
    /\ told \subseteq Visitor \X Resident
    /\ task \in [Clerks -> Task]

NoUnit == [label |-> Nil, owner |-> Nil]
NoVisitor == [unit |-> Nil, status |-> Nil]
NoTask == [pc |-> "idle", unit |-> Nil, label |-> Keep, owner |-> Keep, links |-> Keep,
           unlinked |-> {}, active |-> {}, labels |-> {}, known |-> [l \in Label |-> Nil],
           visitor |-> Nil, status |-> Keep, previous |-> Nil, resident |-> Nil]

PremisesInit ==
    /\ building = TRUE
    /\ unit = [u \in UnitId |-> NoUnit] /\ open = [u \in UnitId |-> {}]
    /\ links = [u \in UnitId |-> {}] /\ lock = [u \in UnitId |-> Nil]
    /\ amenity = [a \in Amenity |-> [exists |-> FALSE, isActive |-> FALSE, isDefault |-> FALSE]]
    /\ ownerActive = Owner
    /\ home = [u \in UnitId |-> Nil] /\ visitor = [v \in Visitor |-> NoVisitor] /\ told = {}
    /\ task = [h \in Clerks |-> NoTask]

Units == {u \in UnitId : unit[u].label # Nil}
Ready(h) == task[h].pc = "idle" /\ building
Step(h, new) == task' = [task EXCEPT ![h] = new]
Done(h) == Step(h, NoTask)

------------------------------------------------------------------------------
(* Amenities.                                                              *)

DefaultAmenities == {a \in Amenity : amenity[a].isActive /\ amenity[a].isDefault}

\* assertAmenityIds
ActiveAmenities == {a \in Amenity : amenity[a].isActive}

CreateAmenity(a) ==
    /\ building /\ ~amenity[a].exists
    /\ \E d, i \in BOOLEAN :
         amenity' = [amenity EXCEPT ![a] = [exists |-> TRUE, isActive |-> i, isDefault |-> d]]
    /\ UNCHANGED <<unitVars, ownerActive, visitVars, task>>

UpdateAmenity(a) ==
    /\ building /\ amenity[a].exists
    /\ \E d, i \in BOOLEAN :
         amenity' = [amenity EXCEPT ![a].isActive = i, ![a].isDefault = d]
    /\ UNCHANGED <<unitVars, ownerActive, visitVars, task>>

------------------------------------------------------------------------------
(* Units.                                                                  *)

\* the unique index on building and label
LabelFree(l, u) == \A w \in UnitId \ {u} : unit[w].label # l

\* what the checks of create leave: the amenities asked for, or the default ones
CreateUnit(h) ==
    /\ Ready(h)
    /\ \E l \in Label, o \in OrNil(Owner), given \in {Keep} \cup SUBSET ActiveAmenities :
         Step(h, [NoTask EXCEPT !.pc = "create", !.label = l, !.owner = o,
                    !.links = IF given = Keep THEN DefaultAmenities ELSE given])
    /\ UNCHANGED <<unitVars, amenity, ownerActive, visitVars>>

\* the transaction of create; a label that is taken undoes it
InsertUnit(h) ==
    LET t == task[h] IN
    /\ t.pc = "create"
    /\ \/ \E u \in UnitId \ Units :
            /\ building /\ LabelFree(t.label, u)
            /\ unit' = [unit EXCEPT ![u] = [label |-> t.label, owner |-> t.owner]]
            /\ links' = [links EXCEPT ![u] = t.links]
            /\ open' = [open EXCEPT ![u] = {t.owner} \ {Nil}]
       \/ /\ ~building \/ \E u \in Units : unit[u].label = t.label
          /\ UNCHANGED <<unit, links, open>>
    /\ Done(h) /\ UNCHANGED <<building, lock, amenity, ownerActive, visitVars>>

\* the checks of update; label, owner and amenities may each be left out, and an owner
\* of null takes the unit away from its owner
UpdateUnit(h, u) ==
    /\ Ready(h) /\ u \in Units
    /\ \E l \in Label \cup {Keep}, o \in OrNil(Owner) \cup {Keep},
          given \in {Keep} \cup SUBSET ActiveAmenities :
         Step(h, [NoTask EXCEPT !.pc = "update", !.unit = u, !.label = l, !.owner = o,
                                !.links = given])
    /\ UNCHANGED <<unitVars, amenity, ownerActive, visitVars>>

NextStatement(t) ==
    CASE t.pc = "update" /\ t.links # Keep             -> "unlink"
      [] t.pc \in {"update", "unlink"} /\ t.owner # Keep -> "syncOwner"
      [] OTHER                                         -> "commit"

Locks(t) == t.label # Keep \/ t.owner # Keep

\* tx.unit.update, or tx.unit.findUnique when no column of the row changes
UpdateRow(h) ==
    LET t == task[h] IN
    /\ t.pc = "update"
    /\ \/ /\ t.unit \in Units /\ (Locks(t) => lock[t.unit] = Nil)
          /\ lock' = IF Locks(t) THEN [lock EXCEPT ![t.unit] = h] ELSE lock
          /\ Step(h, [t EXCEPT !.pc = NextStatement(t)])
       \/ t.unit \notin Units /\ Done(h) /\ UNCHANGED lock
    /\ UNCHANGED <<building, unit, open, links, amenity, ownerActive, visitVars>>

\* deleteMany of the amenities: the rows the statement sees
Unlink(h) ==
    LET t == task[h] IN
    /\ t.pc = "unlink"
    /\ Step(h, [t EXCEPT !.pc = NextStatement(t), !.unlinked = links[t.unit]])
    /\ UNCHANGED <<unitVars, amenity, ownerActive, visitVars>>

\* syncCurrentOwner reads the open ownerships
SyncCurrentOwner(h) ==
    LET t == task[h] IN
    /\ t.pc = "syncOwner"
    /\ Step(h, [t EXCEPT !.pc = "commit", !.active = open[t.unit]])
    /\ UNCHANGED <<unitVars, amenity, ownerActive, visitVars>>

\* mutant: taking the owner away leaves the open ownership
SyncedKeepsOpen(t) ==
    IF t.owner \in {Keep, Nil} THEN open[t.unit] ELSE {t.owner}

\* the open ownerships after syncCurrentOwner, given the ones it has read
Synced(t) ==
    CASE t.owner = Keep                     -> open[t.unit]
      [] t.owner = Nil                     -> IF t.active # {} THEN {} ELSE open[t.unit]
      [] t.active = {t.owner}               -> open[t.unit]
      [] OTHER -> (IF t.active # {} THEN open[t.unit] \cap {t.owner} ELSE open[t.unit])
                    \cup (IF t.owner \in t.active THEN {} ELSE {t.owner})

\* the end of the transaction of update; the label or a second open ownership may be
\* refused by an index, and the unit may have gone with its building
CommitUpdate(h) ==
    LET t == task[h]
        allowed == /\ t.unit \in Units
                   /\ t.label # Keep => LabelFree(t.label, t.unit)
                   /\ Cardinality(Synced(t)) <= 1 IN
    /\ t.pc = "commit"
    /\ \/ /\ allowed
          /\ unit' = [unit EXCEPT
               ![t.unit] = [label |-> IF t.label = Keep THEN @.label ELSE t.label,
                            owner |-> IF t.owner = Keep THEN @.owner ELSE t.owner]]
          /\ links' = [links EXCEPT
               ![t.unit] = IF t.links = Keep THEN @ ELSE (@ \ t.unlinked) \cup t.links]
          /\ open' = [open EXCEPT ![t.unit] = Synced(t)]
       \/ ~allowed /\ UNCHANGED <<unit, links, open>>
    /\ lock' = [u \in UnitId |-> IF lock[u] = h THEN Nil ELSE lock[u]]
    /\ Done(h) /\ UNCHANGED <<building, amenity, ownerActive, visitVars>>

DeleteBuilding ==
    /\ building /\ \A u \in UnitId : lock[u] = Nil
    /\ building' = FALSE
    /\ unit' = [u \in UnitId |-> NoUnit] /\ open' = [u \in UnitId |-> {}]
    /\ links' = [u \in UnitId |-> {}] /\ home' = [u \in UnitId |-> Nil]
    /\ amenity' = [a \in Amenity |-> [exists |-> FALSE, isActive |-> FALSE, isDefault |-> FALSE]]
    /\ visitor' = [v \in Visitor |-> NoVisitor]
    /\ UNCHANGED <<lock, ownerActive, told, task>>

------------------------------------------------------------------------------
(* The import of a CSV file.                                               *)

CsvRow == [label: OrNil(Label), others: {"empty", "readable", "unreadable"}]
Blank(row) == row.label = Nil /\ row.others = "empty"
Filled(file) == {i \in DOMAIN file : ~Blank(file[i])}

\* the labels of parsedUnits
ParsedUnits(file) == {file[i].label : i \in Filled(file)}

\* no row pushes an error: every row that is not blank has a label of its own and
\* cells that can be read
NoErrors(file) ==
    /\ \A i \in Filled(file) : file[i].label # Nil /\ file[i].others # "unreadable"
    /\ \A i, j \in Filled(file) : file[i].label = file[j].label => i = j

ExistingByLabel ==
    [l \in Label |-> IF \E u \in Units : unit[u].label = l
                     THEN CHOOSE u \in Units : unit[u].label = l ELSE Nil]

\* importCsv up to its transaction: a dry run, a header or a number of rows that is
\* refused, or an error in any row ends it without a change; CREATE refuses labels of the
\* building, UPSERT updates their units
ImportCsv(h, file, upsert) ==
    /\ Ready(h)
    /\ NoErrors(file)
    /\ upsert \/ \A l \in ParsedUnits(file) : ExistingByLabel[l] = Nil
    /\ Step(h, [NoTask EXCEPT !.pc = "import", !.labels = ParsedUnits(file),
                              !.known = IF upsert THEN ExistingByLabel ELSE @,
                              !.links = DefaultAmenities])
    /\ UNCHANGED <<unitVars, amenity, ownerActive, visitVars>>

\* the transaction: known units get their label back, the others are created; it waits
\* for the rows it updates, and one label that is taken undoes all of it
ImportUnits(h) ==
    LET t == task[h]
        old == {l \in t.labels : t.known[l] # Nil}
        new == t.labels \ old
        updated == {t.known[l] : l \in old} IN
    /\ t.pc = "import"
    /\ \A u \in updated : lock[u] = Nil
    /\ \/ \E id \in [new -> UnitId \ Units] :
            /\ building /\ updated \subseteq Units
            /\ \A l, k \in new : id[l] = id[k] => l = k
            /\ \A l \in t.labels, w \in Units \ updated : unit[w].label # l
            /\ unit' = [u \in UnitId |->
                 IF \E l \in new : id[l] = u
                 THEN [label |-> CHOOSE l \in new : id[l] = u, owner |-> Nil]
                 ELSE IF u \in updated
                      THEN [unit[u] EXCEPT !.label = CHOOSE l \in old : t.known[l] = u]
                      ELSE unit[u]]
            /\ links' = [u \in UnitId |-> IF \E l \in new : id[l] = u THEN t.links ELSE links[u]]
       \/ /\ \/ ~building \/ ~(updated \subseteq Units)
             \/ \E l \in t.labels, w \in Units : unit[w].label = l /\ t.known[l] # w
          /\ UNCHANGED <<unit, links>>
    /\ Done(h) /\ UNCHANGED <<building, open, lock, amenity, ownerActive, visitVars>>

------------------------------------------------------------------------------
(* Visitors.                                                               *)

\* external: occupancies begin and end
MoveIn(u, r) ==
    /\ u \in Units /\ home[u] = Nil /\ \A w \in UnitId : home[w] # r
    /\ home' = [home EXCEPT ![u] = r]
    /\ UNCHANGED <<unitVars, amenity, ownerActive, visitor, told, task>>

Leave(u) ==
    /\ home[u] # Nil
    /\ home' = [home EXCEPT ![u] = Nil]
    /\ UNCHANGED <<unitVars, amenity, ownerActive, visitor, told, task>>

\* create by staff for any unit, createResident for the unit the resident lives in
CreateVisitor(h, u) ==
    /\ Ready(h) /\ u \in Units
    /\ Step(h, [NoTask EXCEPT !.pc = "visit", !.unit = u])
    /\ UNCHANGED <<unitVars, amenity, ownerActive, visitVars>>

CreateResidentVisitor(h, r) ==
    /\ Ready(h)
    /\ \E u \in UnitId :
         /\ home[u] = r
         /\ Step(h, [NoTask EXCEPT !.pc = "visit", !.unit = u])
    /\ UNCHANGED <<unitVars, amenity, ownerActive, visitVars>>

InsertVisitor(h) ==
    LET t == task[h] IN
    /\ t.pc = "visit"
    /\ IF t.unit \in Units
       THEN \E v \in Visitor :
              /\ visitor[v] = NoVisitor
              /\ visitor' = [visitor EXCEPT ![v] = [unit |-> t.unit, status |-> "EXPECTED"]]
       ELSE UNCHANGED visitor
    /\ Done(h) /\ UNCHANGED <<unitVars, amenity, ownerActive, home, told>>

\* update by staff: any status, and perhaps another unit of the building
UpdateVisitor(h, v) ==
    /\ Ready(h) /\ visitor[v] # NoVisitor
    /\ \E s \in Status \cup {Keep}, u \in Units \cup {Nil} :
         Step(h, [NoTask EXCEPT !.pc = "updateVisitor", !.visitor = v, !.unit = u,
                                !.status = s, !.previous = visitor[v].status])
    /\ UNCHANGED <<unitVars, amenity, ownerActive, visitVars>>

\* the update gives back the row with the resident of its unit, whom
\* notifyResidentsOnArrival tells unless the row read before was ARRIVED already
WriteVisitor(h) ==
    LET t == task[h]
        row == [unit |-> IF t.unit = Nil THEN visitor[t.visitor].unit ELSE t.unit,
                status |-> IF t.status = Keep THEN visitor[t.visitor].status ELSE t.status] IN
    /\ t.pc = "updateVisitor"
    /\ \/ /\ visitor[t.visitor] # NoVisitor /\ row.unit \in Units
          /\ visitor' = [visitor EXCEPT ![t.visitor] = row]
          /\ IF t.previous # "ARRIVED" /\ row.status = "ARRIVED" /\ home[row.unit] # Nil
             THEN Step(h, [t EXCEPT !.pc = "announce", !.resident = home[row.unit]])
             ELSE Done(h)
       \/ /\ visitor[t.visitor] = NoVisitor \/ row.unit \notin Units
          /\ Done(h) /\ UNCHANGED visitor
    /\ UNCHANGED <<unitVars, amenity, ownerActive, home, told>>

NotifyResidentsOnArrival(h) ==
    LET t == task[h] IN
    /\ t.pc = "announce"
    /\ told' = told \cup {<<t.visitor, t.resident>>}
    /\ Done(h) /\ UNCHANGED <<unitVars, amenity, ownerActive, home, visitor>>

\* a resident cancels a visitor of the unit she lives in, if it is still expected
CancelResident(h, v) ==
    /\ Ready(h)
    /\ visitor[v].unit # Nil /\ home[visitor[v].unit] # Nil
    /\ visitor[v].status = "EXPECTED"
    /\ Step(h, [NoTask EXCEPT !.pc = "cancel", !.visitor = v])
    /\ UNCHANGED <<unitVars, amenity, ownerActive, visitVars>>

WriteCancelled(h) ==
    LET v == task[h].visitor IN
    /\ task[h].pc = "cancel"
    /\ IF visitor[v] # NoVisitor
       THEN visitor' = [visitor EXCEPT ![v].status = "CANCELLED"]
       ELSE UNCHANGED visitor
    /\ Done(h) /\ UNCHANGED <<unitVars, amenity, ownerActive, home, told>>

------------------------------------------------------------------------------
(* Who owns a unit.                                                        *)

\* OwnersService.update with isActive
UpdateOwner(o) ==
    /\ ownerActive' = IF o \in ownerActive THEN ownerActive \ {o} ELSE ownerActive \cup {o}
    /\ UNCHANGED <<unitVars, amenity, visitVars, task>>

\* the owner of the unit row counts only when no ownership is open
Fallback(u) == {o \in ownerActive : unit[u].owner = o /\ open[u] = {}}

\* messaging: the owner of one open ownership who has an active grant, or the fallback
ActiveOwnerUserIdsForUnit(u) ==
    LET rows == {o \in open[u] \cap ownerActive : OwnerAccess[o] # {}}
        owner == IF rows # {} THEN {CHOOSE o \in rows : TRUE} ELSE Fallback(u) IN
    UNION {OwnerAccess[o] : o \in owner}

\* recipients of the notifications about a maintenance request
ActiveOwnerRecipientsForRequest(u) ==
    LET rows == open[u] \cap ownerActive
        owners == IF rows # {} THEN rows ELSE Fallback(u) IN
    UNION {OwnerAccess[o] : o \in owners}

\* owner portfolio
AccessibleUnitScope(p) ==
    {u \in UnitId : \E o \in ownerActive :
        p \in OwnerAccess[o] /\ (o \in open[u] \/ o \in Fallback(u))}

\* a request dies: its transaction is undone
Die(h) ==
    /\ task[h].pc # "idle"
    /\ lock' = [u \in UnitId |-> IF lock[u] = h THEN Nil ELSE lock[u]]
    /\ Done(h) /\ UNCHANGED <<building, unit, open, links, amenity, ownerActive, visitVars>>

------------------------------------------------------------------------------
PremisesStep(h) ==
    \/ CreateUnit(h) \/ InsertUnit(h) \/ \E u \in UnitId : UpdateUnit(h, u)
    \/ UpdateRow(h) \/ Unlink(h) \/ SyncCurrentOwner(h) \/ CommitUpdate(h)
    \/ /\ Ready(h)
       /\ \E rows \in 0..MaxRows, upsert \in BOOLEAN : \E file \in [1..rows -> CsvRow] :
            ImportCsv(h, file, upsert)
    \/ ImportUnits(h) \/ Die(h)

VisitStep(h) ==
    \/ \E u \in UnitId : CreateVisitor(h, u)
    \/ \E r \in Resident : CreateResidentVisitor(h, r)
    \/ InsertVisitor(h) \/ \E v \in Visitor : UpdateVisitor(h, v) \/ CancelResident(h, v)
    \/ WriteVisitor(h) \/ NotifyResidentsOnArrival(h) \/ WriteCancelled(h)

PremisesNext ==
    \/ \E h \in Clerks : PremisesStep(h) \/ VisitStep(h)
    \/ \E a \in Amenity : CreateAmenity(a) \/ UpdateAmenity(a)
    \/ \E o \in Owner : UpdateOwner(o)
    \/ \E u \in UnitId : Leave(u) \/ \E r \in Resident : MoveIn(u, r)
    \/ DeleteBuilding

PremisesSpec == PremisesInit /\ [][PremisesNext]_premVars

------------------------------------------------------------------------------
(* Properties.                                                             *)

\* The two records of a unit's owner never disagree (units.service update and create with
\* unit-ownership.service syncCurrentOwner), however updates, imports and the deletion of
\* the building interleave, and so messaging, notifications and the portfolio name the
\* same users as owners of a unit.
OwnersAgree ==
    \A u \in UnitId :
        /\ open[u] = {unit[u].owner} \ {Nil}
        /\ ActiveOwnerUserIdsForUnit(u) = ActiveOwnerRecipientsForRequest(u)
        /\ ActiveOwnerUserIdsForUnit(u) = {p \in PortalUser : u \in AccessibleUnitScope(p)}
=============================================================================
