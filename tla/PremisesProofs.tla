---------------------------- MODULE PremisesProofs ----------------------------
(***************************************************************************)
(* Proofs for Premises, for any number of requests, units and owners.      *)
(*                                                                         *)
(* The two records of an owner agree because of the row lock: a request    *)
(* that is about to write an ownership has updated the unit row before it  *)
(* read the open ownerships (Locked), so what it has read is still there   *)
(* when it commits (Current).  A row that is not there has no owner        *)
(* (Vacant), which is what an import relies on when it creates units.      *)
(***************************************************************************)
EXTENDS Premises, TLAPS

InUpdate == {"unlink", "syncOwner", "commit"}

\* what the program points say about the fields they use
Prepared(t) ==
    /\ t.pc = "create" => t.label \in Label /\ t.owner \in OrNil(Owner) /\ t.links \in SUBSET Amenity
    /\ t.pc \in {"update", "visit"} \cup InUpdate => t.unit \in UnitId
    /\ t.pc \in {"update"} \cup InUpdate => t.label # Nil
    /\ t.pc = "import" => t.links \in SUBSET Amenity
    /\ t.pc \in {"updateVisitor", "announce", "cancel"} => t.visitor \in Visitor
    /\ t.pc = "announce" => t.resident \in Resident

TypeInv == PremisesTypeOK /\ \A h \in Clerks : Prepared(task[h])

Recorded == \A u \in UnitId : open[u] = {unit[u].owner} \ {Nil}

Vacant == \A u \in UnitId : unit[u].label = Nil => unit[u].owner = Nil

Locked == \A h \in Clerks :
    (task[h].pc \in InUpdate /\ Locks(task[h])) =>
        lock[task[h].unit] = h /\ unit[task[h].unit].label # Nil

Current == \A h \in Clerks :
    (task[h].pc = "commit" /\ task[h].owner # Keep) => task[h].active = open[task[h].unit]

OwnerInv == TypeInv /\ Recorded /\ Vacant /\ Locked /\ Current

------------------------------------------------------------------------------
(* Who owns a unit.                                                        *)

\* Where the two records agree, messaging, notifications and the portfolio name the same
\* users (getActiveOwnerUserIdsForUnit, resolveActiveOwnerRecipientsForRequest,
\* loadAccessibleUnitScope).
LEMMA ViewsAgree ==
    ASSUME TypeInv, Recorded
    PROVE  OwnersAgree
  <1> SUFFICES ASSUME NEW u \in UnitId
               PROVE  /\ open[u] = {unit[u].owner} \ {Nil}
                      /\ ActiveOwnerUserIdsForUnit(u) = ActiveOwnerRecipientsForRequest(u)
                      /\ ActiveOwnerUserIdsForUnit(u) = {p \in PortalUser : u \in AccessibleUnitScope(p)}
    BY DEF OwnersAgree
  <1>1. open[u] = {unit[u].owner} \ {Nil}
    BY DEF Recorded
  <1>2. unit[u].owner \in OrNil(Owner) /\ ownerActive \subseteq Owner
    BY DEF TypeInv, PremisesTypeOK, UnitRow
  <1>3. \A o \in Owner : OwnerAccess[o] \in SUBSET PortalUser
    BY PremisesAssumption
  <1>4. Nil \notin Owner
    BY PremisesAssumption
  <1>5. CASE unit[u].owner = Nil
    <2>1. open[u] = {} /\ Fallback(u) = {}
      BY <1>1, <1>2, <1>4, <1>5 DEF Fallback
    <2> QED
      BY <1>1, <2>1 DEF ActiveOwnerUserIdsForUnit, ActiveOwnerRecipientsForRequest,
                        AccessibleUnitScope
  <1>6. CASE unit[u].owner # Nil
    <2> DEFINE o == unit[u].owner
    <2>1. open[u] = {o} /\ Fallback(u) = {} /\ o \in Owner
      BY <1>1, <1>2, <1>6 DEF Fallback, OrNil
    <2>2. ActiveOwnerRecipientsForRequest(u) = IF o \in ownerActive THEN OwnerAccess[o] ELSE {}
      BY <2>1 DEF ActiveOwnerRecipientsForRequest
    <2>3. ActiveOwnerUserIdsForUnit(u) = IF o \in ownerActive THEN OwnerAccess[o] ELSE {}
      <3> DEFINE rows == {w \in open[u] \cap ownerActive : OwnerAccess[w] # {}}
      <3>1. CASE o \in ownerActive /\ OwnerAccess[o] # {}
        <4>1. rows = {o}
          BY <2>1, <3>1
        <4>2. (CHOOSE w \in rows : TRUE) = o
          BY <4>1
        <4> QED
          BY <3>1, <4>1, <4>2 DEF ActiveOwnerUserIdsForUnit
      <3>2. CASE ~(o \in ownerActive /\ OwnerAccess[o] # {})
        <4>1. rows = {}
          BY <2>1, <3>2
        <4> QED
          BY <2>1, <3>2, <4>1 DEF ActiveOwnerUserIdsForUnit
      <3> QED
        BY <3>1, <3>2
    <2>4. {p \in PortalUser : u \in AccessibleUnitScope(p)}
            = IF o \in ownerActive THEN OwnerAccess[o] ELSE {}
      BY <1>2, <1>3, <2>1 DEF AccessibleUnitScope
    <2> QED
      BY <1>1, <2>2, <2>3, <2>4
  <1> QED
    BY <1>5, <1>6

------------------------------------------------------------------------------
(* Requests.                                                               *)

\* A request that is over has nothing prepared.
LEMMA IdleTyped == NoTask \in Task /\ Prepared(NoTask) /\ NoTask.pc = "idle"
  BY DEF NoTask, Task, Prepared, InUpdate, OrNil, Status

\* A request writes its own progress only.
LEMMA StepTyped ==
    ASSUME TypeInv, NEW h \in Clerks, NEW new \in Task, Prepared(new), Step(h, new)
    PROVE  task' \in [Clerks -> Task] /\ \A k \in Clerks : Prepared(task'[k])
  BY DEF TypeInv, PremisesTypeOK, Step

\* A step of request h that writes no unit, ownership or lock keeps the records in
\* agreement if h itself does not write an ownership it has not read under its lock.
LEMMA QuietStep ==
    ASSUME OwnerInv, TypeInv', NEW h \in Clerks, NEW new \in Task, Step(h, new),
           UNCHANGED <<unit, open, lock>>,
           (new.pc \in InUpdate /\ Locks(new)) => lock[new.unit] = h /\ unit[new.unit].label # Nil,
           (new.pc = "commit" /\ new.owner # Keep) => new.active = open[new.unit]
    PROVE  OwnerInv'
  <1>1. \A k \in Clerks : task'[k] = IF k = h THEN new ELSE task[k]
    BY DEF OwnerInv, TypeInv, PremisesTypeOK, Step
  <1>2. Recorded' /\ Vacant'
    BY DEF OwnerInv, Recorded, Vacant
  <1>3. Locked'
    BY <1>1 DEF OwnerInv, Locked, Locks
  <1>4. Current'
    BY <1>1 DEF OwnerInv, Current
  <1> QED
    BY <1>2, <1>3, <1>4 DEF OwnerInv

\* The same for a step of nobody's.
LEMMA IdleStep ==
    ASSUME OwnerInv, TypeInv', UNCHANGED <<unit, open, lock, task>>
    PROVE  OwnerInv'
  BY DEF OwnerInv, Recorded, Vacant, Locked, Current, Locks

------------------------------------------------------------------------------
(* Types.                                                                  *)

USE DEF unitVars, visitVars

\* What the fields of a request can be.
LEMMA TaskFields ==
    ASSUME TypeInv, NEW h \in Clerks
    PROVE  /\ task[h] \in Task /\ Prepared(task[h])
           /\ task[h].label \in OrNil(Label) \cup {Keep} /\ task[h].owner \in OrNil(Owner) \cup {Keep}
           /\ task[h].links \in {Keep} \cup SUBSET Amenity /\ task[h].unlinked \in SUBSET Amenity
           /\ task[h].active \in SUBSET Owner /\ task[h].labels \in SUBSET Label
           /\ task[h].known \in [Label -> OrNil(UnitId)]
           /\ task[h].unit \in OrNil(UnitId) /\ task[h].status \in Status \cup {Keep}
  BY DEF TypeInv, PremisesTypeOK, Task

------------------------------------------------------------------------------
(* One lemma per action: it keeps the two records in agreement.            *)

\* create up to its transaction only prepares the request.
LEMMA CreateUnitStep ==
    ASSUME OwnerInv, NEW h \in Clerks, CreateUnit(h)
    PROVE  OwnerInv'
  <1>1. PICK l \in Label, o \in OrNil(Owner), given \in {Keep} \cup SUBSET ActiveAmenities :
          Step(h, [NoTask EXCEPT !.pc = "create", !.label = l, !.owner = o,
                     !.links = IF given = Keep THEN DefaultAmenities ELSE given])
    BY DEF CreateUnit
  <1> DEFINE new == [NoTask EXCEPT !.pc = "create", !.label = l, !.owner = o,
                       !.links = IF given = Keep THEN DefaultAmenities ELSE given]
  <1>2. (IF given = Keep THEN DefaultAmenities ELSE given) \in SUBSET Amenity
    BY DEF DefaultAmenities, ActiveAmenities
  <1>3. new \in Task /\ Prepared(new) /\ new.pc = "create"
    BY <1>2 DEF NoTask, Task, Prepared, InUpdate, OrNil, Status
  <1>4. TypeInv'
    BY <1>1, <1>3, StepTyped DEF OwnerInv, TypeInv, PremisesTypeOK, CreateUnit
  <1> QED
    BY <1>1, <1>3, <1>4, QuietStep DEF CreateUnit, InUpdate

\* update up to its transaction only prepares the request.
LEMMA UpdateUnitStep ==
    ASSUME OwnerInv, NEW h \in Clerks, NEW u \in UnitId, UpdateUnit(h, u)
    PROVE  OwnerInv'
  <1>1. PICK l \in Label \cup {Keep}, o \in OrNil(Owner) \cup {Keep},
             given \in {Keep} \cup SUBSET ActiveAmenities :
          Step(h, [NoTask EXCEPT !.pc = "update", !.unit = u, !.label = l, !.owner = o,
                                 !.links = given])
    BY DEF UpdateUnit
  <1> DEFINE new == [NoTask EXCEPT !.pc = "update", !.unit = u, !.label = l, !.owner = o,
                                   !.links = given]
  <1>2. given \in {Keep} \cup SUBSET Amenity
    BY DEF ActiveAmenities
  <1>3. new \in Task /\ Prepared(new) /\ new.pc = "update"
    BY <1>2, PremisesAssumption DEF NoTask, Task, Prepared, InUpdate, OrNil, Status
  <1>4. TypeInv'
    BY <1>1, <1>3, StepTyped DEF OwnerInv, TypeInv, PremisesTypeOK, UpdateUnit
  <1> QED
    BY <1>1, <1>3, <1>4, QuietStep DEF UpdateUnit, InUpdate

\* The transaction of create writes both records of a unit no request holds.
LEMMA InsertUnitStep ==
    ASSUME OwnerInv, NEW h \in Clerks, InsertUnit(h)
    PROVE  OwnerInv'
  <1> DEFINE t == task[h]
  <1>1. /\ t.pc = "create" /\ Done(h)
        /\ UNCHANGED <<building, lock, amenity, ownerActive, visitVars>>
    BY DEF InsertUnit
  <1>2. /\ t.label \in Label /\ t.owner \in OrNil(Owner) /\ t.links \in SUBSET Amenity
    BY <1>1, TaskFields DEF OwnerInv, Prepared
  <1>3. task' \in [Clerks -> Task] /\ \A k \in Clerks : Prepared(task'[k])
    BY <1>1, IdleTyped, StepTyped DEF OwnerInv, Done
  <1>4. \A k \in Clerks : task'[k] = IF k = h THEN NoTask ELSE task[k]
    BY <1>1 DEF OwnerInv, TypeInv, PremisesTypeOK, Done, Step
  <1>5. CASE UNCHANGED <<unit, links, open>>
    <2>1. TypeInv'
      BY <1>1, <1>3, <1>5 DEF OwnerInv, TypeInv, PremisesTypeOK
    <2> QED
      BY <1>1, <1>5, <2>1, IdleTyped, QuietStep DEF Done, InUpdate
  <1>6. CASE \E u \in UnitId \ Units :
            /\ unit' = [unit EXCEPT ![u] = [label |-> t.label, owner |-> t.owner]]
            /\ links' = [links EXCEPT ![u] = t.links]
            /\ open' = [open EXCEPT ![u] = {t.owner} \ {Nil}]
    <2>1. PICK u \in UnitId \ Units :
            /\ unit' = [unit EXCEPT ![u] = [label |-> t.label, owner |-> t.owner]]
            /\ links' = [links EXCEPT ![u] = t.links]
            /\ open' = [open EXCEPT ![u] = {t.owner} \ {Nil}]
      BY <1>6
    <2>2. unit \in [UnitId -> UnitRow] /\ open \in [UnitId -> SUBSET Owner]
          /\ links \in [UnitId -> SUBSET Amenity]
      BY DEF OwnerInv, TypeInv, PremisesTypeOK
    <2>3. [label |-> t.label, owner |-> t.owner] \in UnitRow
      BY <1>2 DEF UnitRow, OrNil
    <2>4. {t.owner} \ {Nil} \in SUBSET Owner
      BY <1>2 DEF OrNil
    <2>5. unit' \in [UnitId -> UnitRow] /\ open' \in [UnitId -> SUBSET Owner]
          /\ links' \in [UnitId -> SUBSET Amenity]
      BY <1>2, <2>1, <2>2, <2>3, <2>4
    <2>6. TypeInv'
      BY <1>1, <1>3, <2>5 DEF OwnerInv, TypeInv, PremisesTypeOK
    <2>7. \A w \in UnitId : unit'[w] = IF w = u THEN [label |-> t.label, owner |-> t.owner] ELSE unit[w]
      BY <2>1, <2>2
    <2>8. \A w \in UnitId : open'[w] = IF w = u THEN {t.owner} \ {Nil} ELSE open[w]
      BY <2>1, <2>2
    <2>9. Recorded'
      BY <2>7, <2>8 DEF OwnerInv, Recorded
    <2>10. t.label # Nil
      BY <1>2, PremisesAssumption
    <2>11. Vacant'
      BY <2>7, <2>10 DEF OwnerInv, Vacant
    <2>12. Locked'
      <3> SUFFICES ASSUME NEW k \in Clerks, task'[k].pc \in InUpdate, Locks(task'[k])
                   PROVE  lock'[task'[k].unit] = k /\ unit'[task'[k].unit].label # Nil
        BY DEF Locked, Locks
      <3>1. k # h /\ task'[k] = task[k]
        BY <1>4, IdleTyped DEF InUpdate
      <3>2. lock[task[k].unit] = k /\ unit[task[k].unit].label # Nil
        BY <3>1 DEF OwnerInv, Locked
      <3>3. task[k].unit \in UnitId
        BY <3>1, TaskFields DEF OwnerInv, Prepared
      <3> QED
        BY <1>1, <2>7, <2>10, <3>1, <3>2, <3>3
    <2>13. Current'
      <3> SUFFICES ASSUME NEW k \in Clerks, task'[k].pc = "commit", task'[k].owner # Keep
                   PROVE  task'[k].active = open'[task'[k].unit]
        BY DEF Current
      <3>1. k # h /\ task'[k] = task[k]
        BY <1>4, IdleTyped
      <3>2. unit[task[k].unit].label # Nil /\ task[k].active = open[task[k].unit]
        BY <3>1 DEF OwnerInv, Locked, Current, Locks, InUpdate
      <3>3. task[k].unit \in UnitId
        BY <3>1, TaskFields DEF OwnerInv, Prepared, InUpdate
      <3> QED
        BY <2>1, <2>8, <3>1, <3>2, <3>3 DEF Units
    <2> QED
      BY <2>6, <2>9, <2>11, <2>12, <2>13 DEF OwnerInv
  <1> QED
    BY <1>5, <1>6 DEF InsertUnit

\* tx.unit.update takes the lock of a row that is there.
LEMMA UpdateRowStep ==
    ASSUME OwnerInv, NEW h \in Clerks, UpdateRow(h)
    PROVE  OwnerInv'
  <1> DEFINE t == task[h]
  <1>1. t.pc = "update" /\ UNCHANGED <<building, unit, open, links, amenity, ownerActive, visitVars>>
    BY DEF UpdateRow
  <1>2. t \in Task /\ Prepared(t)
    BY TaskFields DEF OwnerInv
  <1>3. t.unit \in UnitId
    BY <1>1, <1>2 DEF Prepared
  <1>4. CASE Done(h) /\ UNCHANGED lock
    <2>1. task' \in [Clerks -> Task] /\ \A k \in Clerks : Prepared(task'[k])
      BY <1>4, IdleTyped, StepTyped DEF OwnerInv, Done
    <2>2. TypeInv'
      BY <1>1, <1>4, <2>1 DEF OwnerInv, TypeInv, PremisesTypeOK
    <2> QED
      BY <1>1, <1>4, <2>2, IdleTyped, QuietStep DEF Done, InUpdate
  <1>5. CASE /\ t.unit \in Units /\ (Locks(t) => lock[t.unit] = Nil)
             /\ lock' = IF Locks(t) THEN [lock EXCEPT ![t.unit] = h] ELSE lock
             /\ Step(h, [t EXCEPT !.pc = NextStatement(t)])
    <2> DEFINE new == [t EXCEPT !.pc = NextStatement(t)]
    <2>1. NextStatement(t) \in InUpdate
      BY DEF NextStatement, InUpdate
    <2>2. new \in Task /\ new.pc = NextStatement(t)
      BY <1>2, <2>1 DEF Task, InUpdate
    <2>2a. new.unit = t.unit /\ new.label = t.label /\ new.owner = t.owner
      BY <1>2 DEF Task
    <2>3. Prepared(new)
      BY <1>1, <1>2, <2>1, <2>2, <2>2a DEF Prepared, InUpdate
    <2>4. task' \in [Clerks -> Task] /\ \A k \in Clerks : Prepared(task'[k])
      BY <1>5, <2>2, <2>3, StepTyped DEF OwnerInv
    <2>5. \A k \in Clerks : task'[k] = IF k = h THEN new ELSE task[k]
      BY <1>5 DEF OwnerInv, TypeInv, PremisesTypeOK, Step
    <2>6. lock \in [UnitId -> OrNil(Clerks)]
      BY DEF OwnerInv, TypeInv, PremisesTypeOK
    <2>7. lock' \in [UnitId -> OrNil(Clerks)]
      BY <1>3, <1>5, <2>6 DEF OrNil
    <2>8. TypeInv'
      BY <1>1, <2>4, <2>7 DEF OwnerInv, TypeInv, PremisesTypeOK
    <2>9. Recorded' /\ Vacant'
      BY <1>1 DEF OwnerInv, Recorded, Vacant
    <2>10. Locked'
      <3> SUFFICES ASSUME NEW k \in Clerks, task'[k].pc \in InUpdate, Locks(task'[k])
                   PROVE  lock'[task'[k].unit] = k /\ unit'[task'[k].unit].label # Nil
        BY DEF Locked, Locks
      <3>1. CASE k = h
        <4>1. task'[k].unit = t.unit /\ Locks(t)
          BY <2>2a, <2>5, <3>1 DEF Locks
        <4> QED
          BY <1>1, <1>3, <1>5, <2>6, <3>1, <4>1 DEF Units
      <3>2. CASE k # h
        <4>1. task'[k] = task[k] /\ lock[task[k].unit] = k /\ unit[task[k].unit].label # Nil
          BY <2>5, <3>2 DEF OwnerInv, Locked
        <4>2. task[k].unit \in UnitId
          BY <4>1, TaskFields DEF OwnerInv, Prepared
        <4>3. k # Nil
          BY PremisesAssumption
        <4>4. Locks(t) => task[k].unit # t.unit
          BY <1>5, <4>1, <4>3
        <4>5. lock'[task[k].unit] = k
          BY <1>5, <2>6, <4>1, <4>2, <4>4
        <4> QED
          BY <1>1, <4>1, <4>5
      <3> QED
        BY <3>1, <3>2
    <2>11. Current'
      <3> SUFFICES ASSUME NEW k \in Clerks, task'[k].pc = "commit", task'[k].owner # Keep
                   PROVE  task'[k].active = open'[task'[k].unit]
        BY DEF Current
      <3>1. NextStatement(t) = "commit" => t.owner = Keep
        BY <1>1 DEF NextStatement
      <3>2. k # h
        BY <2>2, <2>2a, <2>5, <3>1
      <3> QED
        BY <1>1, <2>5, <3>2 DEF OwnerInv, Current
    <2> QED
      BY <2>8, <2>9, <2>10, <2>11 DEF OwnerInv
  <1> QED
    BY <1>4, <1>5 DEF UpdateRow

\* The amenities are unlinked under the lock the request already has.
LEMMA UnlinkStep ==
    ASSUME OwnerInv, NEW h \in Clerks, Unlink(h)
    PROVE  OwnerInv'
  <1> DEFINE t == task[h]
             new == [t EXCEPT !.pc = NextStatement(t), !.unlinked = links[t.unit]]
  <1>1. t.pc = "unlink" /\ Step(h, new) /\ UNCHANGED <<unitVars, amenity, ownerActive, visitVars>>
    BY DEF Unlink
  <1>2. t \in Task /\ Prepared(t)
    BY TaskFields DEF OwnerInv
  <1>3. t.unit \in UnitId
    BY <1>1, <1>2 DEF Prepared, InUpdate
  <1>4. links[t.unit] \in SUBSET Amenity
    BY <1>3 DEF OwnerInv, TypeInv, PremisesTypeOK
  <1>5. NextStatement(t) \in InUpdate /\ (NextStatement(t) = "commit" => t.owner = Keep)
    BY <1>1 DEF NextStatement, InUpdate
  <1>6. new \in Task
    BY <1>2, <1>4, <1>5 DEF Task, InUpdate
  <1>7. new.pc = NextStatement(t) /\ new.unit = t.unit /\ new.label = t.label /\ new.owner = t.owner
    BY <1>2 DEF Task
  <1>8. Prepared(new)
    BY <1>1, <1>2, <1>5, <1>7 DEF Prepared, InUpdate
  <1>9. TypeInv'
    BY <1>1, <1>6, <1>8, StepTyped DEF OwnerInv, TypeInv, PremisesTypeOK
  <1>10. Locks(new) => lock[new.unit] = h /\ unit[new.unit].label # Nil
    BY <1>1, <1>7 DEF OwnerInv, Locked, Locks, InUpdate
  <1> QED
    BY <1>1, <1>5, <1>6, <1>7, <1>9, <1>10, QuietStep

\* syncCurrentOwner reads the open ownerships under the lock the request already has.
LEMMA SyncCurrentOwnerStep ==
    ASSUME OwnerInv, NEW h \in Clerks, SyncCurrentOwner(h)
    PROVE  OwnerInv'
  <1> DEFINE t == task[h]
             new == [t EXCEPT !.pc = "commit", !.active = open[t.unit]]
  <1>1. t.pc = "syncOwner" /\ Step(h, new)
        /\ UNCHANGED <<unitVars, amenity, ownerActive, visitVars>>
    BY DEF SyncCurrentOwner
  <1>2. t \in Task /\ Prepared(t)
    BY TaskFields DEF OwnerInv
  <1>3. t.unit \in UnitId
    BY <1>1, <1>2 DEF Prepared, InUpdate
  <1>4. open[t.unit] \in SUBSET Owner
    BY <1>3 DEF OwnerInv, TypeInv, PremisesTypeOK
  <1>6. new \in Task
    BY <1>2, <1>4 DEF Task
  <1>7. /\ new.pc = "commit" /\ new.unit = t.unit /\ new.label = t.label /\ new.owner = t.owner
        /\ new.active = open[new.unit]
    BY <1>2 DEF Task
  <1>8. Prepared(new)
    BY <1>1, <1>2, <1>7 DEF Prepared, InUpdate
  <1>9. TypeInv'
    BY <1>1, <1>6, <1>8, StepTyped DEF OwnerInv, TypeInv, PremisesTypeOK
  <1>10. Locks(new) => lock[new.unit] = h /\ unit[new.unit].label # Nil
    BY <1>1, <1>7 DEF OwnerInv, Locked, Locks, InUpdate
  <1> QED
    BY <1>1, <1>6, <1>7, <1>9, <1>10, QuietStep

\* What a commit or the death of request h leaves to the others: its locks are gone, theirs
\* are held.
LEMMA Released ==
    ASSUME OwnerInv, NEW h \in Clerks, Done(h),
           lock' = [u \in UnitId |-> IF lock[u] = h THEN Nil ELSE lock[u]]
    PROVE  /\ lock' \in [UnitId -> OrNil(Clerks)]
           /\ task' \in [Clerks -> Task] /\ \A k \in Clerks : Prepared(task'[k])
           /\ \A k \in Clerks : task'[k].pc \in InUpdate => k # h /\ task'[k] = task[k]
           /\ \A k \in Clerks : (k # h /\ task[k].pc \in InUpdate /\ Locks(task[k])) =>
                /\ task[k].unit \in UnitId /\ lock'[task[k].unit] = k /\ lock[task[k].unit] = k
                /\ unit[task[k].unit].label # Nil
  <1>1. lock \in [UnitId -> OrNil(Clerks)]
    BY DEF OwnerInv, TypeInv, PremisesTypeOK
  <1>2. lock' \in [UnitId -> OrNil(Clerks)]
    BY <1>1 DEF OrNil
  <1>3. task' \in [Clerks -> Task] /\ \A k \in Clerks : Prepared(task'[k])
    BY IdleTyped, StepTyped DEF OwnerInv, Done
  <1>4. \A k \in Clerks : task'[k].pc \in InUpdate => k # h /\ task'[k] = task[k]
    BY IdleTyped DEF OwnerInv, TypeInv, PremisesTypeOK, Done, Step, InUpdate
  <1>5. ASSUME NEW k \in Clerks, k # h, task[k].pc \in InUpdate, Locks(task[k])
        PROVE  /\ task[k].unit \in UnitId /\ lock'[task[k].unit] = k /\ lock[task[k].unit] = k
               /\ unit[task[k].unit].label # Nil
    <2>1. task[k].unit \in UnitId
      BY <1>5, TaskFields DEF OwnerInv, Prepared
    <2>2. lock[task[k].unit] = k /\ unit[task[k].unit].label # Nil
      BY <1>5 DEF OwnerInv, Locked
    <2> QED
      BY <1>5, <2>1, <2>2
  <1> QED
    BY <1>2, <1>3, <1>4, <1>5

\* syncCurrentOwner leaves the owner asked for as the only open ownership, because what it
\* has read is what is there.
LEMMA SyncedIsOwner ==
    ASSUME OwnerInv, NEW h \in Clerks, task[h].pc = "commit"
    PROVE  /\ task[h].unit \in UnitId
           /\ task[h].owner = Keep => Synced(task[h]) = open[task[h].unit]
           /\ task[h].owner # Keep => Synced(task[h]) = {task[h].owner} \ {Nil}
  <1> DEFINE t == task[h]
  <1>1. t.unit \in UnitId
    BY TaskFields DEF OwnerInv, Prepared, InUpdate
  <1>0. t.active \subseteq Owner /\ Keep \notin Owner /\ Nil \notin Owner /\ Keep # Nil
    BY TaskFields, PremisesAssumption DEF OwnerInv, OrNil
  <1>2. t.owner = Keep => Synced(t) = open[t.unit]
    BY <1>0 DEF Synced
  <1>3. ASSUME t.owner # Keep
        PROVE  Synced(t) = {t.owner} \ {Nil}
    <2>1. t.active = open[t.unit]
      BY <1>3 DEF OwnerInv, Current
    <2>2. open[t.unit] = {unit[t.unit].owner} \ {Nil}
      BY <1>1 DEF OwnerInv, Recorded
    <2>3. CASE t.owner = Nil
      <3>1. Synced(t) = IF t.active # {} THEN {} ELSE open[t.unit]
        BY <1>0, <1>3, <2>3 DEF Synced
      <3> QED
        BY <2>1, <2>3, <3>1
    <2>4. CASE t.owner # Nil /\ t.active = {t.owner}
      <3>1. Synced(t) = open[t.unit]
        BY <1>3, <2>4 DEF Synced
      <3> QED
        BY <2>1, <2>4, <3>1
    <2>5. CASE t.owner # Nil /\ t.active # {t.owner}
      <3>1. Synced(t) = (IF t.active # {} THEN open[t.unit] \cap {t.owner} ELSE open[t.unit])
                          \cup (IF t.owner \in t.active THEN {} ELSE {t.owner})
        BY <1>3, <2>5 DEF Synced
      <3>2. t.owner \notin t.active
        BY <2>1, <2>2, <2>5
      <3> QED
        BY <2>1, <2>5, <3>1, <3>2
    <2> QED
      BY <2>3, <2>4, <2>5
  <1> QED
    BY <1>1, <1>2, <1>3

\* The commit of update writes both records of the unit it has locked.
LEMMA CommitUpdateStep ==
    ASSUME OwnerInv, NEW h \in Clerks, CommitUpdate(h)
    PROVE  OwnerInv'
  <1> DEFINE t == task[h]
             row == [label |-> IF t.label = Keep THEN unit[t.unit].label ELSE t.label,
                     owner |-> IF t.owner = Keep THEN unit[t.unit].owner ELSE t.owner]
  <1>1. /\ t.pc = "commit" /\ Done(h)
        /\ lock' = [u \in UnitId |-> IF lock[u] = h THEN Nil ELSE lock[u]]
        /\ UNCHANGED <<building, amenity, ownerActive, visitVars>>
    BY DEF CommitUpdate
  <1>2. /\ lock' \in [UnitId -> OrNil(Clerks)]
        /\ task' \in [Clerks -> Task] /\ \A k \in Clerks : Prepared(task'[k])
    BY <1>1, Released
  <1>3. \A k \in Clerks : task'[k].pc \in InUpdate => k # h /\ task'[k] = task[k]
    BY <1>1, Released
  <1>4. \A k \in Clerks : (k # h /\ task[k].pc \in InUpdate /\ Locks(task[k])) =>
           /\ task[k].unit \in UnitId /\ lock'[task[k].unit] = k /\ lock[task[k].unit] = k
           /\ unit[task[k].unit].label # Nil
    BY <1>1, Released
  <1>5. CASE UNCHANGED <<unit, links, open>>
    <2>1. TypeInv'
      BY <1>1, <1>2, <1>5 DEF OwnerInv, TypeInv, PremisesTypeOK
    <2>2. Recorded' /\ Vacant'
      BY <1>5 DEF OwnerInv, Recorded, Vacant
    <2>3. Locked'
      BY <1>3, <1>4, <1>5 DEF Locked, Locks
    <2>4. Current'
      BY <1>3, <1>5 DEF OwnerInv, Current, InUpdate
    <2> QED
      BY <2>1, <2>2, <2>3, <2>4 DEF OwnerInv
  <1>6. CASE /\ t.unit \in Units
             /\ unit' = [unit EXCEPT ![t.unit] = row]
             /\ links' = [links EXCEPT
                  ![t.unit] = IF t.links = Keep THEN @ ELSE (@ \ t.unlinked) \cup t.links]
             /\ open' = [open EXCEPT ![t.unit] = Synced(t)]
    <2>1. /\ t.unit \in UnitId /\ (t.owner = Keep => Synced(t) = open[t.unit])
          /\ t.owner # Keep => Synced(t) = {t.owner} \ {Nil}
      BY <1>1, SyncedIsOwner
    <2>2. /\ unit \in [UnitId -> UnitRow] /\ open \in [UnitId -> SUBSET Owner]
          /\ links \in [UnitId -> SUBSET Amenity]
      BY DEF OwnerInv, TypeInv, PremisesTypeOK
    <2>3. /\ t.label \in OrNil(Label) \cup {Keep} /\ t.owner \in OrNil(Owner) \cup {Keep}
          /\ t.links \in {Keep} \cup SUBSET Amenity
      BY TaskFields DEF OwnerInv
    <2>4. t.label # Nil
      BY <1>1, TaskFields DEF OwnerInv, Prepared, InUpdate
    <2>5. unit[t.unit].label \in OrNil(Label) /\ unit[t.unit].owner \in OrNil(Owner)
      BY <2>1, <2>2 DEF UnitRow
    <2>6. row \in UnitRow
      BY <2>3, <2>5 DEF UnitRow
    <2>7. Synced(t) = {row.owner} \ {Nil} /\ Synced(t) \in SUBSET Owner
      BY <2>1, <2>3, <2>5 DEF OwnerInv, Recorded, OrNil
    <2>8. row.label # Nil
      BY <1>6, <2>4 DEF Units
    <2>9. \A w \in UnitId : unit'[w] = IF w = t.unit THEN row ELSE unit[w]
      BY <1>6, <2>2
    <2>10. \A w \in UnitId : open'[w] = IF w = t.unit THEN Synced(t) ELSE open[w]
      BY <1>6, <2>2
    <2>11. unit' \in [UnitId -> UnitRow] /\ open' \in [UnitId -> SUBSET Owner]
      BY <1>6, <2>1, <2>2, <2>6, <2>7
    <2>12. links' \in [UnitId -> SUBSET Amenity]
      BY <1>6, <2>1, <2>2, <2>3
    <2>13. TypeInv'
      BY <1>1, <1>2, <2>11, <2>12 DEF OwnerInv, TypeInv, PremisesTypeOK
    <2>14. Recorded'
      BY <2>7, <2>9, <2>10 DEF OwnerInv, Recorded
    <2>15. Vacant'
      BY <2>8, <2>9 DEF OwnerInv, Vacant
    <2>16. Locked'
      BY <1>3, <1>4, <2>8, <2>9 DEF Locked, Locks
    <2>17. Current'
      <3> SUFFICES ASSUME NEW k \in Clerks, task'[k].pc = "commit", task'[k].owner # Keep
                   PROVE  task'[k].active = open'[task'[k].unit]
        BY DEF Current
      <3>1. k # h /\ task'[k] = task[k]
        BY <1>3 DEF InUpdate
      <3>2. task[k].unit \in UnitId /\ lock[task[k].unit] = k
        BY <1>4, <3>1 DEF Locks, InUpdate
      <3>3. task[k].active = open[task[k].unit]
        BY <3>1 DEF OwnerInv, Current
      <3>4. t.owner # Keep => lock[t.unit] = h
        BY <1>1 DEF OwnerInv, Locked, Locks, InUpdate
      <3>5. t.owner # Keep => task[k].unit # t.unit
        BY <3>1, <3>2, <3>4
      <3> QED
        BY <2>1, <2>10, <3>1, <3>2, <3>3, <3>5
    <2> QED
      BY <2>13, <2>14, <2>15, <2>16, <2>17 DEF OwnerInv
  <1> QED
    BY <1>5, <1>6 DEF CommitUpdate

\* A request that dies gives its locks back.
LEMMA DieStep ==
    ASSUME OwnerInv, NEW h \in Clerks, Die(h)
    PROVE  OwnerInv'
  <1>1. /\ Done(h) /\ lock' = [u \in UnitId |-> IF lock[u] = h THEN Nil ELSE lock[u]]
        /\ UNCHANGED <<building, unit, open, links, amenity, ownerActive, visitVars>>
    BY DEF Die
  <1>2. /\ lock' \in [UnitId -> OrNil(Clerks)]
        /\ task' \in [Clerks -> Task] /\ \A k \in Clerks : Prepared(task'[k])
    BY <1>1, Released
  <1>3. \A k \in Clerks : task'[k].pc \in InUpdate => k # h /\ task'[k] = task[k]
    BY <1>1, Released
  <1>4. \A k \in Clerks : (k # h /\ task[k].pc \in InUpdate /\ Locks(task[k])) =>
           /\ lock'[task[k].unit] = k /\ unit[task[k].unit].label # Nil
    BY <1>1, Released
  <1>5. TypeInv'
    BY <1>1, <1>2 DEF OwnerInv, TypeInv, PremisesTypeOK
  <1>6. Recorded' /\ Vacant'
    BY <1>1 DEF OwnerInv, Recorded, Vacant
  <1>7. Locked'
    BY <1>1, <1>3, <1>4 DEF Locked, Locks
  <1>8. Current'
    BY <1>1, <1>3 DEF OwnerInv, Current, InUpdate
  <1> QED
    BY <1>5, <1>6, <1>7, <1>8 DEF OwnerInv

\* A building is deleted when no transaction holds one of its units, so that no request is
\* about to write an ownership.
LEMMA DeleteBuildingStep ==
    ASSUME OwnerInv, DeleteBuilding
    PROVE  OwnerInv'
  <1>1. /\ \A u \in UnitId : lock[u] = Nil
        /\ building' = FALSE /\ UNCHANGED <<lock, ownerActive, told, task>>
        /\ unit' = [u \in UnitId |-> NoUnit] /\ open' = [u \in UnitId |-> {}]
        /\ links' = [u \in UnitId |-> {}] /\ home' = [u \in UnitId |-> Nil]
        /\ amenity' = [a \in Amenity |-> [exists |-> FALSE, isActive |-> FALSE, isDefault |-> FALSE]]
        /\ visitor' = [v \in Visitor |-> NoVisitor]
    BY DEF DeleteBuilding
  <1>2. \A k \in Clerks : ~(task[k].pc \in InUpdate /\ Locks(task[k]))
    <2> SUFFICES ASSUME NEW k \in Clerks, task[k].pc \in InUpdate, Locks(task[k])
                 PROVE  FALSE
      OBVIOUS
    <2>1. task[k].unit \in UnitId /\ lock[task[k].unit] = k
      BY TaskFields DEF OwnerInv, Prepared, Locked
    <2> QED
      BY <1>1, <2>1, PremisesAssumption
  <1>3. TypeInv'
    BY <1>1 DEF OwnerInv, TypeInv, PremisesTypeOK, NoUnit, UnitRow, AmenityRow, NoVisitor,
                VisitorRow, OrNil
  <1>4. Recorded' /\ Vacant'
    BY <1>1 DEF Recorded, Vacant, NoUnit
  <1>5. Locked' /\ Current'
    BY <1>1, <1>2 DEF Locked, Current, Locks, InUpdate
  <1> QED
    BY <1>3, <1>4, <1>5 DEF OwnerInv

\* importCsv up to its transaction only prepares the request.
LEMMA ImportCsvStep ==
    ASSUME OwnerInv, NEW h \in Clerks, NEW file, NEW upsert \in BOOLEAN,
           NEW rows \in 0..MaxRows, file \in [1..rows -> CsvRow], ImportCsv(h, file, upsert)
    PROVE  OwnerInv'
  <1> DEFINE found == IF upsert THEN ExistingByLabel ELSE NoTask.known
             new == [NoTask EXCEPT !.pc = "import", !.labels = ParsedUnits(file),
                                   !.known = found, !.links = DefaultAmenities]
  <1>1. /\ Step(h, new) /\ NoErrors(file)
        /\ UNCHANGED <<unitVars, amenity, ownerActive, visitVars>>
    BY DEF ImportCsv, NoTask
  <1>2. ParsedUnits(file) \in SUBSET Label
    BY <1>1 DEF ParsedUnits, NoErrors, Filled, CsvRow, OrNil
  <1>3. found \in [Label -> OrNil(UnitId)]
    <2>1. ExistingByLabel \in [Label -> OrNil(UnitId)]
      <3> SUFFICES ASSUME NEW l \in Label
                   PROVE  (IF \E u \in Units : unit[u].label = l
                           THEN CHOOSE u \in Units : unit[u].label = l ELSE Nil) \in OrNil(UnitId)
        BY DEF ExistingByLabel
      <3>1. CASE \E u \in Units : unit[u].label = l
        <4>1. (CHOOSE u \in Units : unit[u].label = l) \in Units
          BY <3>1
        <4> QED
          BY <3>1, <4>1 DEF Units, OrNil
      <3>2. CASE ~\E u \in Units : unit[u].label = l
        BY <3>2 DEF OrNil
      <3> QED
        BY <3>1, <3>2
    <2>2. NoTask.known \in [Label -> OrNil(UnitId)]
      BY IdleTyped DEF Task
    <2> QED
      BY <2>1, <2>2
  <1>4. DefaultAmenities \in SUBSET Amenity
    BY DEF DefaultAmenities
  <1> HIDE DEF found
  <1>5. new \in Task /\ Prepared(new) /\ new.pc = "import"
    BY <1>2, <1>3, <1>4 DEF NoTask, Task, Prepared, InUpdate, OrNil, Status
  <1>6. TypeInv'
    BY <1>1, <1>5, StepTyped DEF OwnerInv, TypeInv, PremisesTypeOK
  <1> QED
    BY <1>1, <1>5, <1>6, QuietStep DEF InUpdate

\* The import creates units without an owner where none was, and keeps the owners of the
\* units it updates.
LEMMA ImportUnitsStep ==
    ASSUME OwnerInv, NEW h \in Clerks, ImportUnits(h)
    PROVE  OwnerInv'
  <1> DEFINE t == task[h]
             old == {l \in t.labels : t.known[l] # Nil}
             new == t.labels \ old
             updated == {t.known[l] : l \in old}
  <1>1. /\ t.pc = "import" /\ Done(h)
        /\ UNCHANGED <<building, open, lock, amenity, ownerActive, visitVars>>
    BY DEF ImportUnits
  <1>2. t.links \in SUBSET Amenity /\ t.labels \in SUBSET Label
    BY <1>1, TaskFields DEF OwnerInv, Prepared
  <1>3. task' \in [Clerks -> Task] /\ \A k \in Clerks : Prepared(task'[k])
    BY <1>1, IdleTyped, StepTyped DEF OwnerInv, Done
  <1>4. CASE UNCHANGED <<unit, links>>
    <2>1. TypeInv'
      BY <1>1, <1>3, <1>4 DEF OwnerInv, TypeInv, PremisesTypeOK
    <2> QED
      BY <1>1, <1>4, <2>1, IdleTyped, QuietStep DEF Done, InUpdate
  <1>5. CASE \E id \in [new -> UnitId \ Units] :
            /\ unit' = [u \in UnitId |->
                 IF \E l \in new : id[l] = u
                 THEN [label |-> CHOOSE l \in new : id[l] = u, owner |-> Nil]
                 ELSE IF u \in updated
                      THEN [unit[u] EXCEPT !.label = CHOOSE l \in old : t.known[l] = u]
                      ELSE unit[u]]
            /\ links' = [u \in UnitId |-> IF \E l \in new : id[l] = u THEN t.links ELSE links[u]]
    <2>1. PICK id \in [new -> UnitId \ Units] :
            /\ unit' = [u \in UnitId |->
                 IF \E l \in new : id[l] = u
                 THEN [label |-> CHOOSE l \in new : id[l] = u, owner |-> Nil]
                 ELSE IF u \in updated
                      THEN [unit[u] EXCEPT !.label = CHOOSE l \in old : t.known[l] = u]
                      ELSE unit[u]]
            /\ links' = [u \in UnitId |-> IF \E l \in new : id[l] = u THEN t.links ELSE links[u]]
      BY <1>5
    <2>2. /\ unit \in [UnitId -> UnitRow] /\ links \in [UnitId -> SUBSET Amenity]
      BY DEF OwnerInv, TypeInv, PremisesTypeOK
    <2>3. Nil \notin Label
      BY PremisesAssumption
    <2>4. ASSUME NEW u \in UnitId
          PROVE  /\ unit'[u] \in UnitRow /\ unit'[u].owner = unit[u].owner
                 /\ unit[u].label # Nil => unit'[u].label # Nil
      <3>1. CASE \E l \in new : id[l] = u
        <4>1. (CHOOSE l \in new : id[l] = u) \in Label
          BY <1>2, <3>1
        <4>2. unit[u].owner = Nil
          BY <2>1, <3>1 DEF OwnerInv, Vacant, Units
        <4>3. unit'[u] = [label |-> CHOOSE l \in new : id[l] = u, owner |-> Nil]
          BY <2>1, <3>1
        <4>4. PICK lab \in Label : unit'[u] = [label |-> lab, owner |-> Nil]
          BY <4>1, <4>3
        <4>5. [label |-> lab, owner |-> Nil] \in UnitRow
          BY DEF UnitRow, OrNil
        <4> QED
          BY <2>3, <4>2, <4>4, <4>5
      <3>2. CASE (~\E l \in new : id[l] = u) /\ u \in updated
        <4>1. (CHOOSE l \in old : t.known[l] = u) \in Label
          BY <1>2, <3>2
        <4>2. unit'[u] = [unit[u] EXCEPT !.label = CHOOSE l \in old : t.known[l] = u]
          BY <2>1, <3>2
        <4> HIDE DEF old
        <4>3. unit[u] \in UnitRow
          BY <2>2
        <4> QED
          BY <2>3, <4>1, <4>2, <4>3 DEF UnitRow, OrNil
      <3>3. CASE (~\E l \in new : id[l] = u) /\ u \notin updated
        BY <2>1, <2>2, <3>3
      <3> QED
        BY <3>1, <3>2, <3>3
    <2>5. unit' \in [UnitId -> UnitRow]
      <3>1. unit' = [u \in UnitId |-> unit'[u]]
        BY <2>1
      <3> QED
        BY <2>4, <3>1
    <2>6. links' \in [UnitId -> SUBSET Amenity]
      BY <1>2, <2>1, <2>2
    <2>7. TypeInv'
      BY <1>1, <1>3, <2>5, <2>6 DEF OwnerInv, TypeInv, PremisesTypeOK
    <2>8. Recorded'
      BY <1>1, <2>4 DEF OwnerInv, Recorded
    <2>9. Vacant'
      BY <2>4 DEF OwnerInv, Vacant
    <2>10. \A k \in Clerks : task'[k].pc \in InUpdate => task'[k] = task[k] /\ task[k].unit \in UnitId
      <3>1. \A k \in Clerks : task'[k] = IF k = h THEN NoTask ELSE task[k]
        BY <1>1 DEF OwnerInv, TypeInv, PremisesTypeOK, Done, Step
      <3> QED
        BY <3>1, IdleTyped, TaskFields DEF OwnerInv, Prepared, InUpdate
    <2>11. Locked'
      BY <1>1, <2>4, <2>10 DEF OwnerInv, Locked, Locks
    <2>12. Current'
      BY <1>1, <2>10 DEF OwnerInv, Current, InUpdate
    <2> QED
      BY <2>7, <2>8, <2>9, <2>11, <2>12 DEF OwnerInv
  <1> QED
    BY <1>4, <1>5 DEF ImportUnits

\* Every other step writes no unit, ownership or lock and its request, if it has one, is not
\* an update of a unit: what remains is that it keeps the types.
LEMMA VisitorStep ==
    ASSUME OwnerInv, NEW h \in Clerks, NEW new \in Task, Prepared(new), Step(h, new),
           new.pc \notin InUpdate, visitor' \in [Visitor -> VisitorRow],
           told' \subseteq Visitor \X Resident,
           UNCHANGED <<unitVars, amenity, ownerActive, home>>
    PROVE  OwnerInv'
  <1>1. TypeInv'
    BY StepTyped DEF OwnerInv, TypeInv, PremisesTypeOK
  <1> QED
    BY <1>1, QuietStep DEF InUpdate

\* The types of the rows of visitors and of what residents were told.
LEMMA VisitTypes ==
    ASSUME OwnerInv
    PROVE  /\ visitor \in [Visitor -> VisitorRow] /\ told \subseteq Visitor \X Resident
           /\ home \in [UnitId -> OrNil(Resident)]
  BY DEF OwnerInv, TypeInv, PremisesTypeOK

\* Visitors are announced, updated and cancelled without a write to a unit
\* (create, createResident, update, notifyResidentsOnArrival, cancelResident).
LEMMA VisitStepStep ==
    ASSUME OwnerInv, NEW h \in Clerks, VisitStep(h)
    PROVE  OwnerInv'
  <1> DEFINE t == task[h]
  <1>1. ASSUME NEW u \in UnitId, Step(h, [NoTask EXCEPT !.pc = "visit", !.unit = u]),
               UNCHANGED <<unitVars, amenity, ownerActive, visitVars>>
        PROVE  OwnerInv'
    <2> DEFINE new == [NoTask EXCEPT !.pc = "visit", !.unit = u]
    <2>1. new \in Task /\ Prepared(new) /\ new.pc \notin InUpdate
      BY DEF NoTask, Task, Prepared, InUpdate, OrNil, Status
    <2> QED
      BY <1>1, <2>1, VisitorStep, VisitTypes
  <1>2. ASSUME NEW u \in UnitId, CreateVisitor(h, u)
        PROVE  OwnerInv'
    BY <1>1, <1>2 DEF CreateVisitor
  <1>3. ASSUME NEW r \in Resident, CreateResidentVisitor(h, r)
        PROVE  OwnerInv'
    BY <1>1, <1>3 DEF CreateResidentVisitor
  <1>4. ASSUME InsertVisitor(h)
        PROVE  OwnerInv'
    <2>1. t.unit \in UnitId
      BY <1>4, TaskFields DEF InsertVisitor, OwnerInv, Prepared
    <2>2. [unit |-> t.unit, status |-> "EXPECTED"] \in VisitorRow
      BY <2>1 DEF VisitorRow, OrNil, Status
    <2>3. visitor' \in [Visitor -> VisitorRow]
      BY <1>4, <2>2, VisitTypes DEF InsertVisitor
    <2> QED
      BY <1>4, <2>3, IdleTyped, VisitTypes, VisitorStep DEF InsertVisitor, Done, InUpdate
  <1>5. ASSUME NEW v \in Visitor, UpdateVisitor(h, v)
        PROVE  OwnerInv'
    <2>1. PICK s \in Status \cup {Keep}, u \in Units \cup {Nil} :
            Step(h, [NoTask EXCEPT !.pc = "updateVisitor", !.visitor = v, !.unit = u,
                                   !.status = s, !.previous = visitor[v].status])
      BY <1>5 DEF UpdateVisitor
    <2> DEFINE new == [NoTask EXCEPT !.pc = "updateVisitor", !.visitor = v, !.unit = u,
                                     !.status = s, !.previous = visitor[v].status]
    <2>2. visitor[v].status \in OrNil(Status)
      BY VisitTypes DEF VisitorRow
    <2>3. u \in OrNil(UnitId)
      BY DEF Units, OrNil
    <2>4. new \in Task /\ Prepared(new) /\ new.pc \notin InUpdate
      BY <2>2, <2>3 DEF NoTask, Task, Prepared, InUpdate, OrNil
    <2> QED
      BY <1>5, <2>1, <2>4, VisitorStep, VisitTypes DEF UpdateVisitor
  <1>6. ASSUME NEW v \in Visitor, CancelResident(h, v)
        PROVE  OwnerInv'
    <2> DEFINE new == [NoTask EXCEPT !.pc = "cancel", !.visitor = v]
    <2>1. new \in Task /\ Prepared(new) /\ new.pc \notin InUpdate
      BY DEF NoTask, Task, Prepared, InUpdate, OrNil, Status
    <2> QED
      BY <1>6, <2>1, VisitorStep, VisitTypes DEF CancelResident
  <1>7. ASSUME WriteVisitor(h)
        PROVE  OwnerInv'
    <2> DEFINE row == [unit |-> IF t.unit = Nil THEN visitor[t.visitor].unit ELSE t.unit,
                       status |-> IF t.status = Keep THEN visitor[t.visitor].status ELSE t.status]
               new == [t EXCEPT !.pc = "announce", !.resident = home[row.unit]]
    <2>1. t.pc = "updateVisitor" /\ UNCHANGED <<unitVars, amenity, ownerActive, home, told>>
      BY <1>7 DEF WriteVisitor
    <2>2. /\ t \in Task /\ Prepared(t) /\ t.visitor \in Visitor
          /\ t.unit \in OrNil(UnitId) /\ t.status \in Status \cup {Keep}
      BY <2>1, TaskFields DEF OwnerInv, Prepared
    <2>3. visitor[t.visitor].unit \in OrNil(UnitId) /\ visitor[t.visitor].status \in OrNil(Status)
      BY <2>2, VisitTypes DEF VisitorRow
    <2>4. row \in VisitorRow /\ row.unit \in OrNil(UnitId)
      BY <2>2, <2>3 DEF VisitorRow, OrNil
    <2>5. visitor' = visitor \/ visitor' = [visitor EXCEPT ![t.visitor] = row]
      BY <1>7 DEF WriteVisitor
    <2>6. visitor' \in [Visitor -> VisitorRow]
      BY <2>2, <2>4, <2>5, VisitTypes
    <2>7. CASE Done(h)
      BY <2>1, <2>6, <2>7, IdleTyped, VisitTypes, VisitorStep DEF Done, InUpdate
    <2>8. CASE Step(h, new) /\ row.unit \in Units /\ home[row.unit] # Nil
      <3>1. home[row.unit] \in Resident
        BY <2>8, VisitTypes DEF Units, OrNil
      <3> HIDE DEF row
      <3>2. new \in Task /\ new.pc = "announce" /\ new.visitor = t.visitor
            /\ new.resident = home[row.unit]
        BY <2>2, <3>1 DEF Task, OrNil
      <3>3. Prepared(new)
        BY <2>2, <3>1, <3>2 DEF Prepared, InUpdate
      <3> QED
        BY <2>1, <2>6, <2>8, <3>2, <3>3, VisitTypes, VisitorStep DEF InUpdate
    <2> QED
      BY <1>7, <2>7, <2>8 DEF WriteVisitor
  <1>8. ASSUME NotifyResidentsOnArrival(h)
        PROVE  OwnerInv'
    <2>1. t.visitor \in Visitor /\ t.resident \in Resident
      BY <1>8, TaskFields DEF NotifyResidentsOnArrival, OwnerInv, Prepared
    <2>2. told' \subseteq Visitor \X Resident
      BY <1>8, <2>1, VisitTypes DEF NotifyResidentsOnArrival
    <2> QED
      BY <1>8, <2>2, IdleTyped, VisitTypes, VisitorStep DEF NotifyResidentsOnArrival, Done, InUpdate
  <1>9. ASSUME WriteCancelled(h)
        PROVE  OwnerInv'
    <2>1. t.visitor \in Visitor
      BY <1>9, TaskFields DEF WriteCancelled, OwnerInv, Prepared
    <2>2. visitor' = visitor \/ visitor' = [visitor EXCEPT ![t.visitor].status = "CANCELLED"]
      BY <1>9 DEF WriteCancelled
    <2>3. [visitor[t.visitor] EXCEPT !.status = "CANCELLED"] \in VisitorRow
      BY <2>1, VisitTypes DEF VisitorRow, OrNil, Status
    <2>4. visitor' \in [Visitor -> VisitorRow]
      BY <2>1, <2>2, <2>3, VisitTypes
    <2> QED
      BY <1>9, <2>4, IdleTyped, VisitTypes, VisitorStep DEF WriteCancelled, Done, InUpdate
  <1> QED
    BY <1>2, <1>3, <1>4, <1>5, <1>6, <1>7, <1>8, <1>9 DEF VisitStep

\* Amenities, occupancies and the activity of owners are no part of the two records
\* (building-amenities.service create and update, OwnersService.update).
LEMMA OtherStep ==
    ASSUME OwnerInv,
           \/ \E a \in Amenity : CreateAmenity(a) \/ UpdateAmenity(a)
           \/ \E o \in Owner : UpdateOwner(o)
           \/ \E u \in UnitId : Leave(u) \/ \E r \in Resident : MoveIn(u, r)
    PROVE  OwnerInv'
  <1>1. CASE \E a \in Amenity : CreateAmenity(a) \/ UpdateAmenity(a)
    <2>1. PICK a \in Amenity : CreateAmenity(a) \/ UpdateAmenity(a)
      BY <1>1
    <2>2. amenity \in [Amenity -> AmenityRow]
      BY DEF OwnerInv, TypeInv, PremisesTypeOK
    <2>3. PICK d \in BOOLEAN, i \in BOOLEAN :
            \/ amenity' = [amenity EXCEPT ![a] = [exists |-> TRUE, isActive |-> i, isDefault |-> d]]
            \/ amenity' = [amenity EXCEPT ![a].isActive = i, ![a].isDefault = d]
      BY <2>1 DEF CreateAmenity, UpdateAmenity
    <2>6. /\ [exists |-> TRUE, isActive |-> i, isDefault |-> d] \in AmenityRow
          /\ [amenity[a] EXCEPT !.isActive = i, !.isDefault = d] \in AmenityRow
      BY <2>2 DEF AmenityRow
    <2>7. amenity' \in [Amenity -> AmenityRow]
      BY <2>2, <2>3, <2>6
    <2>4. UNCHANGED <<unitVars, ownerActive, visitVars, task>>
      BY <2>1 DEF CreateAmenity, UpdateAmenity
    <2>5. TypeInv'
      BY <2>4, <2>7 DEF OwnerInv, TypeInv, PremisesTypeOK
    <2> QED
      BY <2>4, <2>5, IdleStep
  <1>2. CASE \E o \in Owner : UpdateOwner(o)
    <2>1. PICK o \in Owner : UpdateOwner(o)
      BY <1>2
    <2>2. TypeInv'
      BY <2>1 DEF OwnerInv, TypeInv, PremisesTypeOK, UpdateOwner
    <2> QED
      BY <2>1, <2>2, IdleStep DEF UpdateOwner
  <1>3. CASE \E u \in UnitId : Leave(u) \/ \E r \in Resident : MoveIn(u, r)
    <2>1. PICK u \in UnitId : Leave(u) \/ \E r \in Resident : MoveIn(u, r)
      BY <1>3
    <2>2. home' \in [UnitId -> OrNil(Resident)]
      BY <2>1, VisitTypes DEF Leave, MoveIn, OrNil
    <2>3. UNCHANGED <<unitVars, amenity, ownerActive, visitor, told, task>>
      BY <2>1 DEF Leave, MoveIn
    <2>4. TypeInv'
      BY <2>2, <2>3 DEF OwnerInv, TypeInv, PremisesTypeOK
    <2> QED
      BY <2>3, <2>4, IdleStep
  <1> QED
    BY <1>1, <1>2, <1>3

------------------------------------------------------------------------------
(* The theorem.                                                            *)

\* The empty building satisfies the inductive invariant.
LEMMA InitOwner ==
    ASSUME PremisesInit
    PROVE  OwnerInv
  <1>1. \A h \in Clerks : task[h] = NoTask
    BY DEF PremisesInit
  <1>2. TypeInv
    BY <1>1, IdleTyped DEF PremisesInit, TypeInv, PremisesTypeOK, NoUnit, UnitRow, AmenityRow,
                           NoVisitor, VisitorRow, OrNil
  <1>3. Recorded /\ Vacant
    BY DEF PremisesInit, Recorded, Vacant, NoUnit
  <1>4. Locked /\ Current
    BY <1>1, IdleTyped DEF Locked, Current, InUpdate
  <1> QED
    BY <1>2, <1>3, <1>4 DEF OwnerInv

\* Every step keeps it.
LEMMA NextOwner ==
    ASSUME OwnerInv, [PremisesNext]_premVars
    PROVE  OwnerInv'
  <1>1. ASSUME NEW h \in Clerks, PremisesStep(h)
        PROVE  OwnerInv'
    <2>1. CASE \E u \in UnitId : UpdateUnit(h, u)
      BY <2>1, UpdateUnitStep
    <2>2. CASE \E rows \in 0..MaxRows, upsert \in BOOLEAN : \E file \in [1..rows -> CsvRow] :
                 ImportCsv(h, file, upsert)
      BY <2>2, ImportCsvStep
    <2> QED
      BY <1>1, <2>1, <2>2, CreateUnitStep, InsertUnitStep, UpdateRowStep, UnlinkStep,
         SyncCurrentOwnerStep, CommitUpdateStep, ImportUnitsStep, DieStep DEF PremisesStep
  <1>2. ASSUME UNCHANGED premVars
        PROVE  OwnerInv'
    <2>1. TypeInv'
      BY <1>2 DEF premVars, OwnerInv, TypeInv, PremisesTypeOK
    <2> QED
      BY <1>2, <2>1, IdleStep DEF premVars
  <1> QED
    BY <1>1, <1>2, VisitStepStep, OtherStep, DeleteBuildingStep DEF PremisesNext

\* For any number of requests, units, owners and rows of a file: the two records of a
\* unit's owner agree in every reachable state, and messaging, notifications and the
\* owner portfolio name the same users (units.service, unit-ownership.service).
THEOREM OwnersAlwaysAgree == PremisesSpec => []OwnersAgree
  <1>1. PremisesInit => OwnerInv
    BY InitOwner
  <1>2. OwnerInv /\ [PremisesNext]_premVars => OwnerInv'
    BY NextOwner
  <1>3. OwnerInv => OwnersAgree
    BY ViewsAgree DEF OwnerInv
  <1> QED
    BY <1>1, <1>2, <1>3, PTL DEF PremisesSpec
=============================================================================
