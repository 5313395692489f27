----------------------------- MODULE CommsProofs -----------------------------
(***************************************************************************)
(* Proofs for Pages and Push, for any rows, pages, devices, tickets and    *)
(* polls, and for the composition of the two with Conversations and        *)
(* Premises.                                                               *)
(*                                                                         *)
(* Pages.  Of the rows the client is still owed, it has got exactly those  *)
(* that are not after its cursor (Split).  A page moves the cursor to its  *)
(* last row: the rows of the page are not after it, the rows got before    *)
(* are not because the order of value and id is transitive, and the others *)
(* still are because a page is what comes first.                           *)
(*                                                                         *)
(* Push.  Line is a strict total order of the pending receipts, those      *)
(* never looked up last (InLine) and in the order of creation              *)
(* (ByCreation); of these a poll has taken the first (PollOK), so the time *)
(* it writes makes none of them overtake one that it left.                 *)
(*                                                                         *)
(* The composition.  A step of one component leaves the variables of the   *)
(* others alone, and each component keeps its own invariant.               *)
(***************************************************************************)
EXTENDS MCComms, ConversationsProofs, PremisesProofs, TLAPS

------------------------------------------------------------------------------
(* Listings.                                                               *)

Split ==
    walk.exact => \A r \in walk.owed :
        /\ table[r] \in Values /\ r \notin walk.twice
        /\ walk.pc = "paging" => (r \in walk.got <=> ~After(r))
        /\ walk.pc = "done" => r \in walk.got

\* nothing is owed to a client that has not asked
Unasked == walk.pc = "idle" => walk.owed = {}

ListInv == PagesTypeOK /\ Split /\ Unasked

\* Values and ids are compared as integers, and none of them is null.
LEMMA Comparable == \A v \in Values \cup RowId \cup {EmptyString} : v \in Int /\ v # Null
  <1>1. RowId \subseteq Int /\ Values \subseteq Int /\ Null \notin Int
    BY PagesAssumption
  <1>2. EmptyString \in Int
    BY DEF EmptyString
  <1> QED
    BY <1>1, <1>2

\* What the fields of a walk can be.
LEMMA WalkFields ==
    ASSUME PagesTypeOK
    PROVE  /\ walk.pc \in {"idle", "paging", "done"} /\ walk.desc \in BOOLEAN
           /\ walk.cursor # Absent => walk.cursor.value \in Int /\ walk.cursor.id \in Int
           /\ walk.got \subseteq RowId /\ walk.twice \subseteq RowId /\ walk.owed \subseteq RowId
           /\ walk.exact \in BOOLEAN
  <1>1. walk \in Walk
    BY DEF PagesTypeOK
  <1>2. walk.cursor \in {Absent} \cup Cursor
    BY <1>1 DEF Walk
  <1>3. ASSUME walk.cursor # Absent
        PROVE  walk.cursor.value \in Int /\ walk.cursor.id \in Int
    <2>1. walk.cursor \in Cursor
      BY <1>2, <1>3
    <2>2. walk.cursor.value \in Values \cup {EmptyString} /\ walk.cursor.id \in RowId
      BY <2>1 DEF Cursor
    <2> QED
      BY <2>2, Comparable
  <1> QED
    BY <1>1, <1>3 DEF Walk

\* A client that has not asked has a typed, empty walk.
LEMMA NoWalkTyped == NoWalk \in Walk
  BY PagesAssumption DEF NoWalk, Walk

\* What happens to one row disturbs no other row the client is owed (inserts, updates and
\* deletes between two pages).
LEMMA RowStep ==
    ASSUME ListInv, NEW r \in RowId, NEW v \in Values \cup {Null, Absent},
           table' = [table EXCEPT ![r] = v], Disturb(r), UNCHANGED column
    PROVE  ListInv'
  <1>1. walk \in Walk /\ table \in [RowId -> Values \cup {Null, Absent}] /\ column \in Columns
    BY DEF ListInv, PagesTypeOK
  <1>2. /\ walk' \in Walk /\ walk'.owed = walk.owed \ {r}
        /\ walk'.pc = walk.pc /\ walk'.desc = walk.desc /\ walk'.cursor = walk.cursor
        /\ walk'.got = walk.got /\ walk'.twice = walk.twice /\ walk'.exact = walk.exact
    BY <1>1 DEF Disturb, Walk
  <1>3. \A s \in RowId \ {r} : table'[s] = table[s]
    BY <1>1
  <1>4. PagesTypeOK'
    BY <1>1, <1>2 DEF PagesTypeOK
  <1>5. \A s \in RowId \ {r} : After(s)' <=> After(s)
    BY <1>2, <1>3 DEF After, Before
  <1>6. walk'.owed \subseteq RowId \ {r}
    BY <1>2, WalkFields DEF ListInv
  <1>7. Split'
    BY <1>2, <1>3, <1>5, <1>6 DEF ListInv, Split
  <1>8. Unasked'
    BY <1>2 DEF ListInv, Unasked
  <1> QED
    BY <1>4, <1>7, <1>8 DEF ListInv

\* The first request of a listing: nothing is got, and every row is after the cursor that
\* is not there.
LEMMA StartStep ==
    ASSUME ListInv, NEW query, query.desc \in SUBSET BOOLEAN, Start(query)
    PROVE  ListInv'
  <1>1. PICK limit \in 1..MaxPage, desc \in query.desc :
          walk' = [NoWalk EXCEPT !.pc = "paging", !.desc = desc, !.limit = limit,
                                 !.owed = {r \in RowId : table[r] \in Values}]
    BY DEF Start
  <1>2. UNCHANGED <<column, table>>
    BY DEF Start
  <1>3. walk' \in Walk
    BY <1>1, NoWalkTyped DEF Walk
  <1>4. /\ walk'.pc = "paging" /\ walk'.cursor = Absent /\ walk'.got = {} /\ walk'.twice = {}
        /\ walk'.owed = {r \in RowId : table[r] \in Values}
    BY <1>1 DEF NoWalk
  <1>5. PagesTypeOK'
    BY <1>2, <1>3 DEF ListInv, PagesTypeOK
  <1>6. Split'
    BY <1>2, <1>4 DEF Split, After
  <1>7. Unasked'
    BY <1>4 DEF Unasked
  <1> QED
    BY <1>5, <1>6, <1>7 DEF ListInv

\* Each listing of the API is such a query.
LEMMA BeginListingStep ==
    ASSUME ListInv, BeginListing
    PROVE  ListInv'
  <1>1. ASSUME NEW c \in Columns, Start(Latest(c))
        PROVE  ListInv'
    BY <1>1, StartStep DEF Latest
  <1>2. ASSUME NEW cs \in SUBSET Columns, Start(Either(cs))
        PROVE  ListInv'
    BY <1>2, StartStep DEF Either
  <1> QED
    BY <1>1, <1>2
    DEF BeginListing, ListConversations, ListOwnerConversations, ListNotifications,
        ListNotificationsAcrossOrgs, ListBroadcasts, ListDeliveryTasks, ListResidentsInOrg,
        ListResidentInvitesInOrg, ListResidentDirectory, ListOccupancies, ListOrgLeases,
        ListResidentLeases, ListContracts, ListResidentContracts, ListResidentLeaseTimeline,
        GetLeaseTimeline, ConversationsForUser, ConversationsForUserAcrossOrgs,
        NotificationsForUser, NotificationsForUserAcrossOrgs, Broadcasts, DeliveryTasksByFilter,
        LeasesByOrg, LeasesByResident, HistoryByResident, OccupanciesByBuilding, Columns

\* A page: the cursor of its last row divides what the client is owed again.
LEMMA PageStep ==
    ASSUME ListInv, NextPage
    PROVE  ListInv'
  <1> DEFINE rows == {r \in RowId : table[r] # Absent /\ After(r)}
  <1>1. PICK page \in SUBSET rows :
          /\ FirstOf(page, rows)
          /\ LET seen == [walk EXCEPT !.got = @ \cup page, !.twice = @ \cup (walk.got \cap page)] IN
             \/ page = rows /\ walk' = [seen EXCEPT !.pc = "done"]
             \/ /\ page # rows
                /\ \E last \in page :
                     /\ FirstOf(page \ {last}, page)
                     /\ walk' = [seen EXCEPT !.cursor = Encode(last),
                                             !.exact = @ /\ table[last] # Null]
    BY DEF NextPage
  <1>2. walk.pc = "paging" /\ UNCHANGED <<column, table>>
    BY DEF NextPage
  <1>3. walk \in Walk /\ table \in [RowId -> Values \cup {Null, Absent}]
    BY DEF ListInv, PagesTypeOK
  <1> DEFINE seen == [walk EXCEPT !.got = @ \cup page, !.twice = @ \cup (walk.got \cap page)]
  <1>4. /\ seen \in Walk /\ seen.got = walk.got \cup page
        /\ seen.twice = walk.twice \cup (walk.got \cap page)
        /\ seen.owed = walk.owed /\ seen.exact = walk.exact /\ seen.pc = walk.pc
        /\ seen.desc = walk.desc
    BY <1>3 DEF Walk
  <1>5. ASSUME walk.exact, NEW r \in walk.owed
        PROVE  /\ r \in RowId /\ table[r] \in Values /\ r \notin seen.twice
               /\ (r \in rows <=> r \notin walk.got)
    <2>1. r \in RowId /\ table[r] \in Values /\ table[r] # Absent
      BY <1>5, WalkFields, PagesAssumption DEF ListInv, Split
    <2>2. r \in walk.got <=> ~After(r)
      BY <1>2, <1>5 DEF ListInv, Split
    <2>3. r \notin walk.twice
      BY <1>5 DEF ListInv, Split
    <2> QED
      BY <1>4, <2>1, <2>2, <2>3
  <1> HIDE DEF seen
  <1>6. CASE page = rows /\ walk' = [seen EXCEPT !.pc = "done"]
    <2>1. /\ walk' \in Walk /\ walk'.pc = "done" /\ walk'.got = seen.got
          /\ walk'.twice = seen.twice /\ walk'.owed = walk.owed /\ walk'.exact = walk.exact
      BY <1>4, <1>6 DEF Walk
    <2>2. PagesTypeOK'
      BY <1>2, <2>1 DEF ListInv, PagesTypeOK
    <2>3. Split'
      BY <1>2, <1>4, <1>5, <1>6, <2>1 DEF Split
    <2> QED
      BY <2>1, <2>2, <2>3 DEF ListInv, Unasked
  <1>7. CASE \E last \in page :
               /\ FirstOf(page \ {last}, page)
               /\ walk' = [seen EXCEPT !.cursor = Encode(last), !.exact = @ /\ table[last] # Null]
    <2>1. PICK last \in page :
               /\ FirstOf(page \ {last}, page)
               /\ walk' = [seen EXCEPT !.cursor = Encode(last), !.exact = @ /\ table[last] # Null]
      BY <1>7
    <2>2. last \in RowId /\ table[last] \in Values \cup {Null} /\ After(last)
      BY <1>3
    <2>3. Encode(last) \in Cursor
      BY <2>2 DEF Encode, Cursor
    <2>4. /\ walk' \in Walk /\ walk'.pc = "paging" /\ walk'.got = seen.got
          /\ walk'.twice = seen.twice /\ walk'.owed = walk.owed /\ walk'.desc = walk.desc
          /\ walk'.cursor = Encode(last) /\ walk'.exact = (walk.exact /\ table[last] # Null)
      <3> DEFINE e == seen.exact /\ table[last] # Null
      <3>1. e \in BOOLEAN
        OBVIOUS
      <3>2. walk' = [seen EXCEPT !.cursor = Encode(last), !.exact = e]
        BY <2>1
      <3>3. e = (walk.exact /\ table[last] # Null)
        BY <1>4
      <3> HIDE DEF e
      <3> QED
        BY <1>2, <1>4, <2>3, <3>1, <3>2, <3>3 DEF Walk
    <2>5. PagesTypeOK'
      BY <1>2, <2>4 DEF ListInv, PagesTypeOK
    <2>6. ASSUME walk.exact, table[last] # Null, NEW r \in walk.owed
          PROVE  r \in seen.got <=> ~After(r)'
      <3>1. r \in RowId /\ table[r] \in Values /\ (r \in rows <=> r \notin walk.got)
        BY <1>5, <2>6
      <3>2. table[last] \in Values /\ Encode(last) = [value |-> table[last], id |-> last]
        BY <2>2, <2>6 DEF Encode
      <3>3. Encode(last) # Absent
        BY <2>3, PagesAssumption
      <3>4. /\ table[last] \in Int /\ table[r] \in Int /\ last \in Int /\ r \in Int
            /\ table[last] # Null /\ table[r] # Null /\ last # Null /\ r # Null
        BY <2>2, <3>1, <3>2, Comparable
      <3>5. After(r)' <=> \/ Before(table[last], table[r])
                          \/ table[last] = table[r] /\ Before(last, r)
        BY <1>2, <2>4, <3>2, <3>3 DEF After, Before
      <3>6. CASE r \in walk.got
        <4>1. ~After(r) /\ walk.cursor # Absent
          BY <1>2, <2>6, <3>6 DEF ListInv, Split, After
        <4>2. walk.cursor.value \in Int /\ walk.cursor.id \in Int
          BY <4>1, WalkFields DEF ListInv
        <4>3. walk.cursor.value # Null /\ walk.cursor.id # Null
          BY <4>2, PagesAssumption
        <4>4. ~After(r)'
          BY <2>2, <3>4, <3>5, <4>1, <4>2, <4>3 DEF After, Before
        <4> QED
          BY <1>4, <3>6, <4>4
      <3>7. CASE r \in page
        <4>1. r # last => Precedes(r, last)
          BY <2>1, <3>7 DEF FirstOf
        <4>2. ~After(r)'
          BY <3>4, <3>5, <4>1 DEF Precedes, Before
        <4> QED
          BY <1>4, <3>7, <4>2
      <3>8. CASE r \notin walk.got /\ r \notin page
        <4>1. Precedes(last, r)
          BY <1>1, <3>1, <3>8 DEF FirstOf
        <4>2. After(r)'
          BY <3>4, <3>5, <4>1 DEF Precedes
        <4> QED
          BY <1>4, <3>8, <4>2
      <3> QED
        BY <3>6, <3>7, <3>8
    <2>7. Split'
      BY <1>2, <1>5, <2>4, <2>6 DEF Split
    <2> QED
      BY <2>4, <2>5, <2>7 DEF ListInv, Unasked
  <1> QED
    BY <1>1, <1>6, <1>7 DEF seen

\* Every step keeps the division.
LEMMA NextListed ==
    ASSUME ListInv, [PagesNext]_pageVars
    PROVE  ListInv'
  <1>1. ASSUME NEW r \in RowId, Appear(r) \/ Disappear(r) \/ Move(r)
        PROVE  ListInv'
    <2>1. PICK v \in Values \cup {Null, Absent} : table' = [table EXCEPT ![r] = v]
      BY <1>1 DEF Appear, Disappear, Move, Allowed
    <2> QED
      BY <1>1, <2>1, RowStep DEF Appear, Disappear, Move
  <1>2. ASSUME UNCHANGED pageVars
        PROVE  ListInv'
    BY <1>2 DEF pageVars, ListInv, PagesTypeOK, Split, Unasked, After, Before
  <1> QED
    BY <1>1, <1>2, BeginListingStep, PageStep DEF PagesNext

\* Nothing is listed at first.
LEMMA InitListed ==
    ASSUME PagesInit
    PROVE  ListInv
  BY NoWalkTyped DEF PagesInit, ListInv, PagesTypeOK, Split, Unasked, NoWalk

\* For any rows, values and sizes of a page, a client that asks for all pages gets every
\* row it is owed, and once (the cursors of all listings, in the repositories of messaging,
\* notifications, leases, occupancies, residents and delivery tasks).
THEOREM EveryRowListedOnce == PagesSpec => []ListedOnce
  <1>1. PagesInit => ListInv
    BY InitListed
  <1>2. ListInv /\ [PagesNext]_pageVars => ListInv'
    BY NextListed
  <1>3. ListInv => ListedOnce
    BY DEF ListInv, Split, ListedOnce
  <1> QED
    BY <1>1, <1>2, <1>3, PTL DEF PagesSpec

------------------------------------------------------------------------------
(* Push receipts.                                                          *)

\* line is a strict total order of the pending receipts, those never looked up last
InLine ==
    /\ line \subseteq Waiting \X Waiting
    /\ \A k \in Ticket : <<k, k>> \notin line
    /\ \A k, l, m \in Ticket : <<k, l>> \in line /\ <<l, m>> \in line => <<k, m>> \in line
    /\ \A k, l \in Waiting : k # l => <<k, l>> \in line \/ <<l, k>> \in line
    /\ fresh \subseteq Waiting
    /\ \A k \in Waiting \ fresh, l \in fresh : <<k, l>> \in line

\* receipts never looked up are in the order of creation, and the young are the last of them
ByCreation ==
    /\ \A k, l \in fresh : <<k, l>> \in line => k < l
    /\ young \subseteq fresh
    /\ \A k \in young, l \in Waiting : k < l => l \in young
    /\ \A k \in Ticket \ Unused, l \in Unused : k < l
    /\ \A k \in Ticket \ Unused : receipt[k].device \in Device

\* what a poll has taken: used tickets, and of the receipts never looked up the first
PollOK ==
    /\ poll.left \subseteq poll.ids /\ poll.ids \cap Unused = {} /\ poll.ids \cap young = {}
    /\ poll.pc = "settle" => poll.ids \cap fresh = {}
    /\ \A k \in poll.ids \cap fresh, l \in fresh \ poll.ids : k < l

\* what the receipts and the monitor say is what Expo answered
Truthful ==
    /\ \A k \in Ticket :
         /\ receipt[k].status = "DELIVERED" => answer[k] = "ok"
         /\ receipt[k].status = "ERROR" => answer[k] \in {"error", "gone"}
    /\ \A k \in poll.left : answer[k] \in {"ok", "error", "gone"}
    /\ \A d \in poll.gone : \E k \in Ticket : answer[k] = "gone" /\ receipt[k].device = d

PushInv == PushTypeOK /\ InLine /\ ByCreation /\ PollOK /\ Truthful

\* Steps that leave receipts and the monitor alone (devices, and the start of a send).
LEMMA DeviceSteps ==
    ASSUME PushInv, UNCHANGED <<receipt, line, young, fresh, answer, poll>>,
           device' \in [Device -> DeviceRow], update' \in Update, sender' \in Sender,
           faults' \in 0..MaxFaults
    PROVE  PushInv'
  <1>1. PushTypeOK'
    BY DEF PushInv, PushTypeOK
  <1>2. Waiting' = Waiting /\ Unused' = Unused
    BY DEF Waiting, Unused, Pending
  <1>3. InLine' /\ ByCreation' /\ PollOK' /\ Truthful'
    BY <1>2 DEF PushInv, InLine, ByCreation, PollOK, Truthful
  <1> QED
    BY <1>1, <1>3 DEF PushInv

\* Steps of the monitor that write no receipt.
LEMMA PollSteps ==
    ASSUME PushInv, UNCHANGED <<update, sender, receipt, line, young, fresh, answer>>,
           device' \in [Device -> DeviceRow], poll' \in Poll, faults' \in 0..MaxFaults,
           PollOK', \A k \in poll'.left : answer[k] \in {"ok", "error", "gone"}, poll'.gone \subseteq poll.gone
    PROVE  PushInv'
  <1>1. PushTypeOK'
    BY DEF PushInv, PushTypeOK
  <1>2. Waiting' = Waiting /\ Unused' = Unused
    BY DEF Waiting, Unused, Pending
  <1>3. InLine' /\ ByCreation' /\ Truthful'
    BY <1>2 DEF PushInv, InLine, ByCreation, Truthful
  <1> QED
    BY <1>1, <1>3 DEF PushInv

\* A monitor that does nothing.
LEMMA NoPollOK ==
    ASSUME PushInv, poll' = NoPoll
    PROVE  poll' \in Poll /\ PollOK' /\ poll'.left = {} /\ poll'.gone = {}
  BY DEF NoPoll, Poll, PollOK

\* A receipt that leaves the line, settled or purged.
LEMMA LeavesLine ==
    ASSUME PushInv, NEW k \in Ticket, line' = Without(k), fresh' = fresh \ {k},
           receipt' \in [Ticket -> Receipt], receipt'[k].status # "PENDING",
           \A l \in Ticket : receipt'[l].device = receipt[l].device /\ (l # k => receipt'[l] = receipt[l]),
           answer' = answer, young' = young \ {k}, k \notin Unused, answer[k] # "none"
    PROVE  /\ InLine' /\ ByCreation' /\ Unused' = Unused
           /\ line' \subseteq Ticket \X Ticket /\ young' \subseteq Ticket /\ fresh' \subseteq Ticket
  <1>1. Waiting' = Waiting \ {k} /\ Unused' = Unused
    BY DEF Waiting, Unused, Pending
  <1>2. \A a, b : <<a, b>> \in line' <=> <<a, b>> \in line /\ a # k /\ b # k
    BY DEF Without
  <1>3. line' \subseteq line
    BY DEF Without
  <1>4. line' \subseteq Waiting' \X Waiting'
    <2> SUFFICES ASSUME NEW p \in line' PROVE p \in Waiting' \X Waiting'
      OBVIOUS
    <2>1. p \in Waiting \X Waiting /\ p = <<p[1], p[2]>>
      BY <1>3 DEF PushInv, InLine
    <2> QED
      BY <1>1, <1>2, <2>1
  <1>5. Waiting \subseteq Ticket
    BY DEF Waiting
  <1>6. InLine'
    BY <1>1, <1>2, <1>4, <1>5 DEF PushInv, InLine
  <1>7. ByCreation'
    BY <1>1, <1>2, <1>5 DEF PushInv, InLine, ByCreation
  <1> QED
    BY <1>1, <1>3, <1>6, <1>7 DEF PushInv, PushTypeOK

\* Writing the rows of a message: the new receipts are the last in line.
LEMMA HandleExpoTicketsStep ==
    ASSUME PushInv, NEW ok \in SUBSET sender.devices, NEW gone \in SUBSET sender.devices,
           HandleExpoTickets(ok, gone)
    PROVE  PushInv'
  <1>1. sender \in Sender /\ sender.devices \subseteq Device /\ sender' \in Sender
    BY DEF HandleExpoTickets, PushInv, PushTypeOK, Sender
  <1>2. PICK tickets \in SUBSET Unused, of \in [Ticket -> ok \cup {Nobody}] :
         /\ {of[k] : k \in tickets} = ok
         /\ \A k \in Ticket : of[k] = Nobody <=> k \notin tickets
         /\ \A k \in tickets, l \in Unused \ tickets : k < l
         /\ receipt' = [k \in Ticket |-> IF k \in tickets THEN [status |-> "PENDING", device |-> of[k]]
                                         ELSE receipt[k]]
         /\ line' = line \cup (Waiting \X tickets) \cup {p \in tickets \X tickets : p[1] < p[2]}
         /\ young' = young \cup tickets
         /\ fresh' = fresh \cup tickets
    BY DEF HandleExpoTickets
  <1>3. tickets \subseteq Ticket /\ Waiting \subseteq Ticket /\ Ticket \subseteq Nat
    BY PushAssumption DEF Unused, Waiting
  <1>4. \A k \in tickets : of[k] \in Device
    BY <1>1, <1>2, <1>3
  <1>5. receipt' \in [Ticket -> Receipt]
    BY <1>2, <1>3, <1>4 DEF PushInv, PushTypeOK, Receipt
  <1>6. \A k \in Ticket : k \in tickets => receipt'[k].status = "PENDING" /\ receipt'[k].device = of[k]
    BY <1>2
  <1>7. \A k \in Ticket : k \notin tickets => receipt'[k] = receipt[k]
    BY <1>2
  <1>8. answer' = answer /\ poll' = poll /\ device' = device /\ update' = update /\ faults' = faults
    BY DEF HandleExpoTickets
  <1>9. Waiting' = Waiting \cup tickets /\ Unused' = Unused \ tickets /\ Waiting \cap tickets = {}
    BY <1>3, <1>6, <1>7, <1>8 DEF Waiting, Unused, Pending
  <1>10. \A a, b : <<a, b>> \in line' <=> \/ <<a, b>> \in line
                                          \/ a \in Waiting /\ b \in tickets
                                          \/ a \in tickets /\ b \in tickets /\ a < b
    BY <1>2
  <1>11. line' \subseteq Waiting' \X Waiting'
    BY <1>2, <1>9 DEF PushInv, InLine
  <1>12. \A a, b : <<a, b>> \in line => a \in Waiting /\ b \in Waiting
    BY DEF PushInv, InLine
  <1>13. fresh \subseteq Waiting /\ young \subseteq fresh
    BY DEF PushInv, InLine, ByCreation
  <1>14. \A k \in Waiting, l \in Unused : k < l
    BY DEF PushInv, ByCreation, Waiting, Unused, Pending
  <1>15. InLine'
    <2>1. \A k \in Ticket : <<k, k>> \notin line'
      <3> TAKE k \in Ticket
      <3>1. k \in Nat /\ <<k, k>> \notin line
        BY <1>3 DEF PushInv, InLine
      <3> QED
        BY <1>9, <1>10, <3>1
    <2>2. \A k, l, m \in Ticket : <<k, l>> \in line' /\ <<l, m>> \in line' => <<k, m>> \in line'
      <3> TAKE k, l, m \in Ticket
      <3>1. k \in Nat /\ l \in Nat /\ m \in Nat
        BY <1>3
      <3>2. <<k, l>> \in line /\ <<l, m>> \in line => <<k, m>> \in line
        BY DEF PushInv, InLine
      <3> QED
        BY <1>9, <1>10, <1>12, <3>1, <3>2
    <2>3. \A k, l \in Waiting' : k # l => <<k, l>> \in line' \/ <<l, k>> \in line'
      <3> SUFFICES ASSUME NEW k \in Waiting', NEW l \in Waiting', k # l
                   PROVE  <<k, l>> \in line' \/ <<l, k>> \in line'
        OBVIOUS
      <3>1. k \in Nat /\ l \in Nat
        BY <1>3, <1>9
      <3>2. k \in Waiting /\ l \in Waiting => <<k, l>> \in line \/ <<l, k>> \in line
        BY DEF PushInv, InLine
      <3> QED
        BY <1>9, <1>10, <3>1, <3>2
    <2>4. \A k \in Waiting' \ fresh', l \in fresh' : <<k, l>> \in line'
      BY <1>2, <1>9, <1>10 DEF PushInv, InLine
    <2> QED
      BY <1>2, <1>9, <1>11, <1>13, <2>1, <2>2, <2>3, <2>4 DEF InLine
  <1>16. ByCreation'
    <2>1. \A k, l \in fresh' : <<k, l>> \in line' => k < l
      BY <1>2, <1>10, <1>13, <1>12, <1>14, <1>9 DEF PushInv, ByCreation
    <2>2. \A k \in young', l \in Waiting' : k < l => l \in young'
      <3> SUFFICES ASSUME NEW k \in young', NEW l \in Waiting', k < l PROVE l \in young'
        OBVIOUS
      <3>1. CASE k \in tickets /\ l \in Waiting
        BY <1>3, <1>14, <3>1
      <3> QED
        BY <1>2, <1>9, <3>1 DEF PushInv, ByCreation
    <2>3. \A k \in Ticket \ Unused', l \in Unused' : k < l
      BY <1>2, <1>9 DEF PushInv, ByCreation
    <2>4. \A k \in Ticket \ Unused' : receipt'[k].device \in Device
      BY <1>4, <1>6, <1>7, <1>9 DEF PushInv, ByCreation
    <2> QED
      BY <1>2, <1>13, <2>1, <2>2, <2>3, <2>4 DEF ByCreation
  <1>17. PollOK'
    <2>1. poll.ids \subseteq Ticket
      BY DEF PushInv, PushTypeOK, Poll
    <2>2. poll.ids \cap tickets = {}
      BY <1>2 DEF PushInv, PollOK
    <2>3. \A k \in poll'.ids \cap fresh', l \in fresh' \ poll'.ids : k < l
      BY <1>2, <1>8, <1>13, <1>14, <2>2 DEF PushInv, PollOK
    <2> QED
      BY <1>2, <1>8, <1>9, <2>2, <2>3 DEF PushInv, PollOK
  <1>18. Truthful'
    <2>1. \A k \in Ticket : answer[k] = "gone" => k \notin tickets
      BY <1>2 DEF Unused
    <2> QED
      BY <1>6, <1>7, <1>8, <2>1 DEF PushInv, Truthful
  <1>19. PushTypeOK'
    BY <1>1, <1>2, <1>3, <1>5, <1>8, <1>11, <1>9 DEF PushInv, PushTypeOK
  <1> QED
    BY <1>15, <1>16, <1>17, <1>18, <1>19 DEF PushInv

\* Expo answers a pending ticket.
LEMMA ExpoAnswersStep ==
    ASSUME PushInv, NEW k \in Ticket, NEW a \in Answers \ {"none"}, ExpoAnswers(k, a)
    PROVE  PushInv'
  <1>1. /\ answer' \in [Ticket -> Answers] /\ receipt' = receipt /\ line' = line /\ young' = young
        /\ fresh' = fresh /\ poll' = poll /\ Pending(k) /\ answer[k] = "none"
        /\ \A l \in Ticket \ {k} : answer'[l] = answer[l]
    BY DEF ExpoAnswers, PushInv, PushTypeOK
  <1>2. PushTypeOK'
    BY <1>1 DEF PushInv, PushTypeOK, ExpoAnswers
  <1>3. Waiting' = Waiting /\ Unused' = Unused
    BY <1>1 DEF Waiting, Unused, Pending
  <1>4. InLine' /\ ByCreation' /\ PollOK'
    BY <1>1, <1>3 DEF PushInv, InLine, ByCreation, PollOK
  <1>5. k \notin poll.left /\ poll.left \subseteq Ticket
    BY <1>1 DEF PushInv, Truthful, PushTypeOK, Poll
  <1>6. Truthful'
    BY <1>1, <1>5 DEF PushInv, Truthful, Pending
  <1> QED
    BY <1>2, <1>4, <1>6 DEF PushInv

\* The look-up delay passes.
LEMMA DelayPassesStep ==
    ASSUME PushInv, DelayPasses
    PROVE  PushInv'
  <1>1. /\ young' = {} /\ receipt' = receipt /\ line' = line /\ fresh' = fresh /\ answer' = answer
        /\ poll' = poll
    BY DEF DelayPasses
  <1>2. PushTypeOK'
    BY DEF PushInv, PushTypeOK, DelayPasses
  <1>3. Waiting' = Waiting /\ Unused' = Unused
    BY <1>1 DEF Waiting, Unused, Pending
  <1>4. InLine' /\ ByCreation' /\ PollOK' /\ Truthful'
    BY <1>1, <1>3 DEF PushInv, InLine, ByCreation, PollOK, Truthful
  <1> QED
    BY <1>2, <1>4 DEF PushInv

\* The purge of an old task and its receipts.
LEMMA PurgeTaskStep ==
    ASSUME PushInv, NEW k \in Ticket, PurgeTask(k)
    PROVE  PushInv'
  <1>1. receipt' \in [Ticket -> Receipt]
    BY DEF PurgeTask, PushInv, PushTypeOK, Receipt
  <1>2. /\ receipt'[k].status = "none"
        /\ \A l \in Ticket : receipt'[l].device = receipt[l].device /\ (l # k => receipt'[l] = receipt[l])
    BY DEF PurgeTask, PushInv, PushTypeOK, Receipt
  <1>3. k \notin Unused /\ answer[k] # "none"
    BY DEF PurgeTask, Unused
  <1>4. /\ line' = Without(k) /\ young' = young \ {k} /\ fresh' = fresh \ {k}
        /\ answer' = answer /\ poll' = poll
    BY DEF PurgeTask
  <1>5. /\ InLine' /\ ByCreation' /\ Unused' = Unused
        /\ line' \subseteq Ticket \X Ticket /\ young' \subseteq Ticket /\ fresh' \subseteq Ticket
    BY <1>1, <1>2, <1>3, <1>4, LeavesLine
  <1>6. PushTypeOK'
    BY <1>1, <1>4, <1>5 DEF PushInv, PushTypeOK, PurgeTask
  <1>7. PollOK'
    BY <1>4, <1>5 DEF PushInv, PollOK
  <1>8. Truthful'
    BY <1>2, <1>4 DEF PushInv, Truthful
  <1> QED
    BY <1>5, <1>6, <1>7, <1>8 DEF PushInv

\* The monitor takes the first of the receipts due.
LEMMA ListPendingExpoReceiptsStep ==
    ASSUME PushInv, ListPendingExpoReceipts
    PROVE  PushInv'
  <1>1. PICK ids \in SUBSET (Waiting \ young) :
          /\ FirstInLine(ids, Waiting \ young)
          /\ poll' = [NoPoll EXCEPT !.pc = "fetch", !.ids = ids]
    BY DEF ListPendingExpoReceipts
  <1>2. Waiting \subseteq Ticket /\ fresh \subseteq Waiting /\ Ticket \subseteq Nat
    BY PushAssumption DEF Waiting, PushInv, InLine
  <1>3. /\ poll' \in Poll /\ poll'.pc = "fetch" /\ poll'.ids = ids /\ poll'.left = {}
        /\ poll'.gone = {}
    BY <1>1, <1>2 DEF NoPoll, Poll
  <1>4. UNCHANGED <<device, update, sender, receipt, line, young, fresh, answer, faults>>
    BY DEF ListPendingExpoReceipts, NotMonitor
  <1>5. Waiting' = Waiting /\ Unused' = Unused
    BY <1>4 DEF Waiting, Unused, Pending
  <1>6. ASSUME NEW k \in ids \cap fresh, NEW l \in fresh \ ids
        PROVE  k < l
    <2>1. k \in Waiting /\ l \in Waiting /\ k \notin young /\ k \in Nat /\ l \in Nat /\ k # l
      BY <1>1, <1>2, <1>6
    <2>2. CASE l \in young
      BY <2>1, <2>2 DEF PushInv, ByCreation
    <2>3. CASE l \notin young
      BY <1>1, <1>6, <2>1, <2>3 DEF FirstInLine, PushInv, ByCreation
    <2> QED
      BY <2>2, <2>3
  <1>7. Waiting \cap Unused = {}
    BY DEF Waiting, Unused, Pending
  <1>8. PollOK'
    BY <1>1, <1>3, <1>4, <1>5, <1>6, <1>7 DEF PollOK
  <1>9. device' \in [Device -> DeviceRow] /\ faults' \in 0..MaxFaults
    BY <1>4 DEF PushInv, PushTypeOK
  <1> QED
    BY <1>3, <1>4, <1>8, <1>9, PollSteps

\* Expo is asked about the receipts taken.
LEMMA GetReceiptsStep ==
    ASSUME PushInv, GetReceipts
    PROVE  PushInv'
  <1>1. poll \in Poll /\ poll.ids \subseteq Ticket
    BY DEF PushInv, PushTypeOK, Poll
  <1>2. /\ poll' \in Poll /\ poll'.pc = "mark" /\ poll'.ids = poll.ids /\ poll'.gone = poll.gone
        /\ poll'.left = {k \in poll.ids : answer[k] \notin {"none", "lost"}}
    BY <1>1 DEF GetReceipts, Poll
  <1>3. UNCHANGED <<device, update, sender, receipt, line, young, fresh, answer, faults>>
    BY DEF GetReceipts, NotMonitor
  <1>4. Unused' = Unused
    BY <1>3 DEF Unused
  <1>5. PollOK'
    BY <1>2, <1>3, <1>4 DEF PushInv, PollOK
  <1>6. \A k \in poll'.left : answer[k] \in {"ok", "error", "gone"}
    BY <1>1, <1>2 DEF PushInv, PushTypeOK, Answers
  <1>7. device' \in [Device -> DeviceRow] /\ faults' \in 0..MaxFaults
    BY <1>3 DEF PushInv, PushTypeOK
  <1> QED
    BY <1>2, <1>3, <1>5, <1>6, <1>7, PollSteps

\* What the order is once ids have been looked up.
LEMMA LookedUpLine ==
    ASSUME NEW ids, NEW a, NEW b
    PROVE  <<a, b>> \in LookedUp(ids) <=>
             \/ <<a, b>> \in line /\ a \notin ids /\ b \notin ids
             \/ a \in ids \cap Waiting /\ b \in ids \cap Waiting /\ a < b
             \/ a \in (Waiting \ ids) \ fresh /\ b \in ids \cap Waiting
             \/ a \in ids \cap Waiting /\ b \in (Waiting \ ids) \cap fresh
  BY DEF LookedUp

\* The receipts taken get the time of the poll.
LEMMA MarkLookupAttemptedStep ==
    ASSUME PushInv, MarkLookupAttempted
    PROVE  PushInv'
  <1> DEFINE ids == poll.ids
  <1>1. poll \in Poll /\ ids \subseteq Ticket /\ Ticket \subseteq Nat
    BY PushAssumption DEF PushInv, PushTypeOK, Poll
  <1>2. /\ poll' \in Poll /\ poll'.pc = "settle" /\ poll'.ids = ids /\ poll'.gone = poll.gone
        /\ poll'.left = poll.left
    BY <1>1 DEF MarkLookupAttempted, Poll
  <1>3. /\ UNCHANGED <<device, update, sender, receipt, young, answer, faults>>
        /\ line' = LookedUp(ids) /\ fresh' = fresh \ ids
    BY DEF MarkLookupAttempted
  <1>4. Waiting' = Waiting /\ Unused' = Unused /\ Waiting \subseteq Ticket
    BY <1>3 DEF Waiting, Unused, Pending
  <1>5. line' \subseteq Waiting' \X Waiting'
    BY <1>3, <1>4 DEF LookedUp, PushInv, InLine
  <1>6. \A a, b : <<a, b>> \in line' <=>
             \/ <<a, b>> \in line /\ a \notin ids /\ b \notin ids
             \/ a \in ids \cap Waiting /\ b \in ids \cap Waiting /\ a < b
             \/ a \in (Waiting \ ids) \ fresh /\ b \in ids \cap Waiting
             \/ a \in ids \cap Waiting /\ b \in (Waiting \ ids) \cap fresh
    BY <1>3, LookedUpLine
  <1>7. \A a, b : <<a, b>> \in line => a \in Waiting /\ b \in Waiting
    BY DEF PushInv, InLine
  <1>8. \A a, b : <<a, b>> \in line /\ a \in fresh => b \in fresh
    <2> SUFFICES ASSUME NEW a, NEW b, <<a, b>> \in line, a \in fresh, b \notin fresh PROVE FALSE
      OBVIOUS
    <2>1. a \in Waiting /\ b \in Waiting
      BY <1>7
    <2>2. <<b, a>> \in line
      BY <2>1 DEF PushInv, InLine
    <2>3. <<a, a>> \in line
      BY <1>4, <2>1, <2>2 DEF PushInv, InLine
    <2> QED
      BY <1>4, <2>1, <2>3 DEF PushInv, InLine
  <1> HIDE DEF ids
  <1>9. InLine'
    <2>1. \A k \in Ticket : <<k, k>> \notin line'
      <3> TAKE k \in Ticket
      <3>1. k \in Nat /\ <<k, k>> \notin line
        BY <1>1 DEF PushInv, InLine
      <3> QED
        BY <1>6, <3>1
    <2>2. \A k, l, m \in Ticket : <<k, l>> \in line' /\ <<l, m>> \in line' => <<k, m>> \in line'
      <3> TAKE k, l, m \in Ticket
      <3>1. k \in Nat /\ l \in Nat /\ m \in Nat
        BY <1>1
      <3>2. <<k, l>> \in line /\ <<l, m>> \in line => <<k, m>> \in line
        BY DEF PushInv, InLine
      <3>3. k \in Waiting \ fresh /\ m \in fresh => <<k, m>> \in line
        BY DEF PushInv, InLine
      <3> QED
        BY <1>6, <1>7, <1>8, <3>1, <3>2, <3>3
    <2>3. \A k, l \in Waiting' : k # l => <<k, l>> \in line' \/ <<l, k>> \in line'
      <3> SUFFICES ASSUME NEW k \in Waiting', NEW l \in Waiting', k # l
                   PROVE  <<k, l>> \in line' \/ <<l, k>> \in line'
        OBVIOUS
      <3>1. k \in Nat /\ l \in Nat /\ k \in Waiting /\ l \in Waiting
        BY <1>1, <1>4
      <3>2. <<k, l>> \in line \/ <<l, k>> \in line
        BY <3>1 DEF PushInv, InLine
      <3> QED
        BY <1>6, <3>1, <3>2
    <2>4. fresh' \subseteq Waiting'
      BY <1>3, <1>4 DEF PushInv, InLine
    <2>5. \A k \in Waiting' \ fresh', l \in fresh' : <<k, l>> \in line'
      BY <1>3, <1>4, <1>6, <2>4 DEF PushInv, InLine
    <2> QED
      BY <1>5, <2>1, <2>2, <2>3, <2>4, <2>5 DEF InLine
  <1>10. ids \cap young = {}
    BY DEF PushInv, PollOK, ids
  <1>11. ByCreation'
    BY <1>3, <1>4, <1>6, <1>10 DEF PushInv, InLine, ByCreation
  <1>12. PollOK'
    BY <1>2, <1>3, <1>4 DEF PushInv, PollOK, ids
  <1>13. Truthful'
    BY <1>2, <1>3 DEF PushInv, Truthful
  <1>14. PushTypeOK'
    BY <1>2, <1>3, <1>4, <1>5 DEF PushInv, PushTypeOK
  <1> QED
    BY <1>9, <1>11, <1>12, <1>13, <1>14 DEF PushInv

\* A receipt Expo has answered is written.
LEMMA SettleReceiptStep ==
    ASSUME PushInv, NEW k \in Ticket, SettleReceipt(k)
    PROVE  PushInv'
  <1> DEFINE status == IF answer[k] = "ok" THEN "DELIVERED" ELSE "ERROR"
  <1>1. poll \in Poll /\ poll.pc = "settle" /\ k \in poll.left /\ k \in poll.ids
    BY DEF SettleReceipt, PushInv, PushTypeOK, PollOK
  <1>2. answer[k] \in {"ok", "error", "gone"} /\ k \notin Unused /\ k \notin fresh /\ k \notin young
    BY <1>1 DEF PushInv, Truthful, PollOK, ByCreation
  <1>3. receipt' = [receipt EXCEPT ![k].status = status] /\ status \in {"DELIVERED", "ERROR"}
    BY DEF SettleReceipt
  <1>4. receipt' \in [Ticket -> Receipt]
    BY <1>3 DEF PushInv, PushTypeOK, Receipt
  <1>5. /\ receipt'[k].status = status
        /\ \A l \in Ticket : receipt'[l].device = receipt[l].device /\ (l # k => receipt'[l] = receipt[l])
    BY <1>3 DEF PushInv, PushTypeOK, Receipt
  <1>6. /\ line' = Without(k) /\ young' = young \ {k} /\ fresh' = fresh \ {k} /\ answer' = answer
    BY <1>2 DEF SettleReceipt
  <1>7. /\ InLine' /\ ByCreation' /\ Unused' = Unused
        /\ line' \subseteq Ticket \X Ticket /\ young' \subseteq Ticket /\ fresh' \subseteq Ticket
    <2>1. receipt'[k].status # "PENDING" /\ answer[k] # "none"
      BY <1>2, <1>5
    <2> QED
      BY <1>2, <1>4, <1>5, <1>6, <2>1, LeavesLine
  <1>8. receipt[k].device \in Device
    BY <1>2 DEF PushInv, ByCreation
  <1>9. /\ poll' \in Poll /\ poll'.pc = "settle" /\ poll'.ids = poll.ids /\ poll'.left = poll.left \ {k}
        /\ poll'.gone = IF answer[k] = "gone" THEN poll.gone \cup {receipt[k].device} ELSE poll.gone
    BY <1>1, <1>8 DEF SettleReceipt, Poll
  <1>10. PollOK'
    BY <1>1, <1>6, <1>7, <1>9 DEF PushInv, PollOK
  <1>11. Truthful'
    <2>1. \A l \in Ticket : /\ receipt'[l].status = "DELIVERED" => answer[l] = "ok"
                            /\ receipt'[l].status = "ERROR" => answer[l] \in {"error", "gone"}
      BY <1>2, <1>5 DEF PushInv, Truthful
    <2>2. \A d \in poll'.gone : \E l \in Ticket : answer[l] = "gone" /\ receipt'[l].device = d
      BY <1>5, <1>9 DEF PushInv, Truthful
    <2> QED
      BY <1>6, <1>9, <2>1, <2>2 DEF PushInv, Truthful
  <1>12. PushTypeOK'
    BY <1>4, <1>7, <1>9 DEF PushInv, PushTypeOK, SettleReceipt
  <1> QED
    BY <1>7, <1>10, <1>11, <1>12 DEF PushInv

\* Devices are deactivated one by one, each row keeping its type.
LEMMA DeactivatedTyped ==
    ASSUME PushTypeOK, NEW gone
    PROVE  Deactivated(gone) \in [Device -> DeviceRow]
  <1>1. ASSUME NEW d \in Device
        PROVE  [device[d] EXCEPT !.active = @ /\ d \notin gone] \in DeviceRow
    <2>1. device[d] \in DeviceRow
      BY DEF PushTypeOK
    <2>2. (device[d].active /\ d \notin gone) \in BOOLEAN
      OBVIOUS
    <2> QED
      BY <2>1, <2>2 DEF DeviceRow
  <1> QED
    BY <1>1 DEF Deactivated

\* The poll that ends, having deactivated the devices Expo does not know any more, or
\* having failed.
LEMMA PollEndsStep ==
    ASSUME PushInv, SettleFails \/ DeactivateGone \/ PollFails
    PROVE  PushInv'
  <1>1. poll' = NoPoll /\ UNCHANGED <<update, sender, receipt, line, young, fresh, answer>>
    BY DEF SettleFails, DeactivateGone, PollFails, NotMonitor
  <1>2. device' \in [Device -> DeviceRow]
    <2>1. CASE DeactivateGone
      BY <2>1, DeactivatedTyped DEF DeactivateGone, PushInv
    <2> QED
      BY <2>1 DEF SettleFails, PollFails, NotMonitor, PushInv, PushTypeOK
  <1>3. faults' \in 0..MaxFaults
    BY PushAssumption DEF SettleFails, DeactivateGone, PollFails, PushInv, PushTypeOK
  <1>4. poll' \in Poll /\ PollOK' /\ poll'.left = {} /\ poll'.gone = {}
    BY <1>1, NoPollOK
  <1> QED
    BY <1>1, <1>2, <1>3, <1>4, PollSteps

\* Registering, updating and removing a device, and a send up to its receipts.
LEMMA OutsideStep ==
    ASSUME PushInv,
           \/ \E u \in PushUser, d \in Device :
                \/ \E t \in Token : RegisterDevice(u, d, t) \/ UpdateDevice(u, d, t)
                \/ RemoveDevice(u, d)
           \/ UpdateForUser
           \/ \E users \in SUBSET PushUser : DeliverToUsersNow(users)
           \/ DeactivateRefused \/ SendExpoFails
    PROVE  PushInv'
  <1>1. UNCHANGED <<receipt, line, young, fresh, answer, poll, faults>>
    BY DEF RegisterDevice, UpdateDevice, RemoveDevice, UpdateForUser, DeliverToUsersNow,
           DeactivateRefused, SendExpoFails, Receipts
  <1>2. /\ device \in [Device -> DeviceRow] /\ update \in Update /\ sender \in Sender
        /\ faults' \in 0..MaxFaults
    BY <1>1 DEF PushInv, PushTypeOK
  <1>3. NoSender \in Sender /\ NoUpdate \in Update
    BY DEF NoSender, Sender, NoUpdate, Update
  <1>4. ASSUME NEW u \in PushUser, NEW d \in Device, NEW t \in Token, RegisterDevice(u, d, t)
        PROVE  PushInv'
    <2>1. device' \in [Device -> DeviceRow] /\ update' = update /\ sender' = sender
      BY <1>2, <1>4 DEF RegisterDevice, DeviceRow, Receipts
    <2> QED
      BY <1>1, <1>2, <2>1, DeviceSteps
  <1>5. ASSUME NEW u \in PushUser, NEW d \in Device, NEW t \in Token, UpdateDevice(u, d, t)
        PROVE  PushInv'
    <2>1. update' \in Update /\ device' = device /\ sender' = sender
      BY <1>5 DEF UpdateDevice, Update, Receipts
    <2> QED
      BY <1>1, <1>2, <2>1, DeviceSteps
  <1>6. ASSUME NEW u \in PushUser, NEW d \in Device, RemoveDevice(u, d)
        PROVE  PushInv'
    <2>1. device' \in [Device -> DeviceRow] /\ update' = update /\ sender' = sender
      BY <1>2, <1>6 DEF RemoveDevice, DeviceRow, Receipts
    <2> QED
      BY <1>1, <1>2, <2>1, DeviceSteps
  <1>7. ASSUME UpdateForUser
        PROVE  PushInv'
    <2>1. [user |-> update.user, token |-> update.token, active |-> TRUE] \in DeviceRow
      BY <1>2 DEF Update, DeviceRow
    <2>2. device' \in [Device -> DeviceRow] /\ update' = NoUpdate /\ sender' = sender
      BY <1>2, <1>7, <2>1 DEF UpdateForUser, Receipts
    <2> QED
      BY <1>1, <1>2, <1>3, <2>2, DeviceSteps
  <1>8. ASSUME NEW users \in SUBSET PushUser, DeliverToUsersNow(users)
        PROVE  PushInv'
    <2>1. sender' \in Sender /\ device' = device /\ update' = update
      BY <1>8 DEF DeliverToUsersNow, Sender
    <2> QED
      BY <1>1, <1>2, <2>1, DeviceSteps
  <1>9. ASSUME DeactivateRefused \/ SendExpoFails
        PROVE  PushInv'
    <2>1. device' \in [Device -> DeviceRow]
      BY <1>2, <1>9, DeactivatedTyped DEF DeactivateRefused, SendExpoFails, PushInv
    <2>2. sender' = NoSender /\ update' = update
      BY <1>9 DEF DeactivateRefused, SendExpoFails
    <2> QED
      BY <1>1, <1>2, <1>3, <2>1, <2>2, DeviceSteps
  <1> QED
    BY <1>4, <1>5, <1>6, <1>7, <1>8, <1>9

\* Every step keeps the invariant.
LEMMA NextPush ==
    ASSUME PushInv, [PushNext]_pushVars
    PROVE  PushInv'
  <1>1. CASE PushNext
    <2>1. CASE PollStep
      BY <2>1, ListPendingExpoReceiptsStep, GetReceiptsStep, MarkLookupAttemptedStep,
         SettleReceiptStep, PollEndsStep DEF PollStep
    <2>2. CASE \E ok, gone \in SUBSET sender.devices : ok \cap gone = {} /\ HandleExpoTickets(ok, gone)
      BY <2>2, HandleExpoTicketsStep
    <2>3. CASE ExpoSpeaks \/ DelayPasses \/ (\E k \in Ticket : PurgeTask(k)) \/ PollFails
      BY <2>3, ExpoAnswersStep, DelayPassesStep, PurgeTaskStep, PollEndsStep DEF ExpoSpeaks
    <2> QED
      BY <1>1, <2>1, <2>2, <2>3, OutsideStep DEF PushNext
  <1>2. CASE UNCHANGED pushVars
    BY <1>2, DeviceSteps DEF pushVars, PushInv, PushTypeOK
  <1> QED
    BY <1>1, <1>2

\* No device, no receipt, no poll.
LEMMA InitPush ==
    ASSUME PushInit
    PROVE  PushInv
  <1>1. PushTypeOK
    BY PushAssumption DEF PushInit, PushTypeOK, DeviceRow, NoUpdate, Update, NoSender, Sender, NoPoll,
       Poll, Receipt, Answers
  <1>2. Waiting = {} /\ Unused = Ticket
    BY DEF PushInit, Waiting, Unused, Pending
  <1>3. InLine /\ ByCreation
    BY <1>2 DEF PushInit, InLine, ByCreation
  <1>4. PollOK /\ Truthful
    BY DEF PushInit, PollOK, Truthful, NoPoll
  <1> QED
    BY <1>1, <1>3, <1>4 DEF PushInv

\* The parts of the invariant hold in every reachable state.
LEMMA PushHolds == PushSpec => []PushInv
  <1>1. PushInit => PushInv
    BY InitPush
  <1>2. PushInv /\ [PushNext]_pushVars => PushInv'
    BY NextPush
  <1> QED
    BY <1>1, <1>2, PTL DEF PushSpec

\* the pending receipts the monitor takes before k
InFront(k) == {l \in Ticket : <<l, k>> \in line}

\* nothing comes in front of k, unless it is the poll of k itself that puts k back
KeepsPlace(k) == InFront(k)' \subseteq InFront(k) \/ (poll.pc = "mark" /\ k \in poll.ids)

\* Whatever is sent, answered, purged or settled while a receipt is pending, and whichever
\* polls fail half way, nothing comes in front of it: only the poll that has looked it up
\* puts it behind others (listPendingExpoReceipts, markLookupAttempted).
NoOvertaking == [][\A k \in Ticket : Pending(k) => KeepsPlace(k)]_pushVars

\* A receipt that was written as delivered or failed says so until it is purged, although
\* markDelivered and markErrored do not look at what they overwrite.
SettledForGood ==
    [][\A k \in Ticket : receipt[k].status \in {"DELIVERED", "ERROR"} =>
         receipt'[k].status \in {receipt[k].status, "none"}]_pushVars

\* No step lets another receipt pass one that is pending.
LEMMA PlaceStep ==
    ASSUME PushInv, PushNext, NEW k \in Ticket, Pending(k)
    PROVE  KeepsPlace(k)
  <1>1. CASE line' \subseteq line
    BY <1>1 DEF KeepsPlace, InFront
  <1>2. CASE MarkLookupAttempted
    <2> SUFFICES ASSUME k \notin poll.ids, NEW l \in Ticket, <<l, k>> \in line', <<l, k>> \notin line
                 PROVE  FALSE
      BY <1>2 DEF KeepsPlace, InFront, MarkLookupAttempted
    <2>1. l \in poll.ids \cap Waiting /\ k \in Waiting /\ k \in fresh /\ k # l
      BY <1>2, LookedUpLine DEF MarkLookupAttempted
    <2>2. <<k, l>> \in line
      BY <2>1 DEF PushInv, InLine
    <2>3. l \in fresh
      <3>1. l \notin fresh => <<l, k>> \in line
        BY <2>1 DEF PushInv, InLine
      <3> QED
        BY <3>1
    <2>4. k < l /\ l < k
      BY <2>1, <2>2, <2>3 DEF PushInv, ByCreation, PollOK
    <2> QED
      BY <2>4, PushAssumption
  <1>3. ASSUME NEW ok, NEW gone, HandleExpoTickets(ok, gone)
        PROVE  KeepsPlace(k)
    <2>1. PICK tickets \in SUBSET Unused :
             line' = line \cup (Waiting \X tickets) \cup {p \in tickets \X tickets : p[1] < p[2]}
      BY <1>3 DEF HandleExpoTickets
    <2>2. k \notin tickets
      BY <2>1 DEF Unused, Pending
    <2> QED
      BY <2>1, <2>2 DEF KeepsPlace, InFront
  <1>4. CASE PollStep
    BY <1>1, <1>2, <1>4 DEF PollStep, ListPendingExpoReceipts, GetReceipts, SettleReceipt,
       SettleFails, DeactivateGone, NotMonitor, Without
  <1> QED
    BY <1>1, <1>3, <1>4 DEF PushNext, RegisterDevice, UpdateDevice, RemoveDevice, UpdateForUser,
       DeliverToUsersNow, DeactivateRefused, SendExpoFails, Receipts, ExpoSpeaks, ExpoAnswers,
       DelayPasses, PurgeTask, PollFails, NotMonitor, Without

\* For any number of receipts, tickets Expo never answers and failed polls, and any size of a
\* poll: no pending receipt is overtaken before it was looked up, so receipts that come
\* later cannot keep it from its turn (the safety half of AnsweredReceiptSettles).
THEOREM LookedUpInTurn == PushSpec => NoOvertaking
  <1>1. PushInv /\ [PushNext]_pushVars => [\A k \in Ticket : Pending(k) => KeepsPlace(k)]_pushVars
    BY PlaceStep
  <1> QED
    BY <1>1, PushHolds, PTL DEF PushSpec, NoOvertaking

\* No step rewrites what a settled receipt says.
LEMMA StaysSettled ==
    ASSUME PushInv, PushNext, NEW k \in Ticket, receipt[k].status \in {"DELIVERED", "ERROR"}
    PROVE  receipt'[k].status \in {receipt[k].status, "none"}
  <1>1. receipt \in [Ticket -> Receipt]
    BY DEF PushInv, PushTypeOK
  <1>2. CASE receipt' = receipt
    BY <1>2
  <1>3. ASSUME NEW l \in Ticket, SettleReceipt(l)
        PROVE  receipt'[k].status \in {receipt[k].status, "none"}
    <2>1. answer[l] \in {"ok", "error", "gone"}
      BY <1>3 DEF SettleReceipt, PushInv, Truthful
    <2>2. k = l => receipt'[k].status = IF answer[k] = "ok" THEN "DELIVERED" ELSE "ERROR"
      BY <1>1, <1>3 DEF SettleReceipt, Receipt
    <2>3. k # l => receipt'[k] = receipt[k]
      BY <1>1, <1>3 DEF SettleReceipt
    <2>4. /\ receipt[k].status = "DELIVERED" => answer[k] = "ok"
          /\ receipt[k].status = "ERROR" => answer[k] \in {"error", "gone"}
      BY DEF PushInv, Truthful
    <2> QED
      BY <2>1, <2>2, <2>3, <2>4
  <1>4. ASSUME NEW l \in Ticket, PurgeTask(l)
        PROVE  receipt'[k].status \in {receipt[k].status, "none"}
    BY <1>1, <1>4 DEF PurgeTask, Receipt
  <1>5. ASSUME NEW ok, NEW gone, HandleExpoTickets(ok, gone)
        PROVE  receipt'[k].status \in {receipt[k].status, "none"}
    BY <1>1, <1>5 DEF HandleExpoTickets, Unused
  <1>6. CASE PollStep
    BY <1>2, <1>3, <1>6 DEF PollStep, ListPendingExpoReceipts, GetReceipts, MarkLookupAttempted,
       SettleFails, DeactivateGone, NotMonitor
  <1> QED
    BY <1>2, <1>4, <1>5, <1>6 DEF PushNext, RegisterDevice, UpdateDevice, RemoveDevice, UpdateForUser,
       DeliverToUsersNow, DeactivateRefused, SendExpoFails, Receipts, ExpoSpeaks, ExpoAnswers,
       DelayPasses, PollFails, NotMonitor

\* For any number of receipts, polls and purges, a settled receipt is final.
THEOREM ReceiptsSettleOnce == PushSpec => SettledForGood
  <1>1. PushInv /\ [PushNext]_pushVars =>
          [\A k \in Ticket : receipt[k].status \in {"DELIVERED", "ERROR"} =>
              receipt'[k].status \in {receipt[k].status, "none"}]_pushVars
    BY StaysSettled
  <1> QED
    BY <1>1, PushHolds, PTL DEF PushSpec, SettledForGood

\* In every reachable state the receipts say what Expo answered, the monitor is about to
\* deactivate only devices of tickets Expo answered with DeviceNotRegistered, and the
\* pending receipts stand in one order with those never looked up last.
THEOREM ReceiptsTellTheAnswer == PushSpec => [](InLine /\ Truthful)
  BY PushHolds, PTL DEF PushInv

------------------------------------------------------------------------------
(* The composition.                                                        *)

CommsInv == Inv /\ ListInv /\ PushInv /\ OwnerInv

\* A step of one of the four components, or of none, keeps the invariants of all.
LEMMA NextComms ==
    ASSUME CommsInv, [MCNext]_<<vars, pageVars, pushVars, premVars, part>>
    PROVE  CommsInv'
  <1>1. [Next]_vars /\ [PagesNext]_pageVars /\ [PushNext]_pushVars /\ [PremisesNext]_premVars
    BY DEF MCNext
  <1>2. Inv'
    BY <1>1, NextInv DEF CommsInv
  <1>3. ListInv'
    BY <1>1, NextListed DEF CommsInv
  <1>4. PushInv'
    BY <1>1, NextPush DEF CommsInv
  <1>5. OwnerInv'
    BY <1>1, NextOwner DEF CommsInv
  <1> QED
    BY <1>2, <1>3, <1>4, <1>5 DEF CommsInv

\* For any values of the constants of the four components, the variables of messaging,
\* listings, push and premises keep their types whichever of them runs: every write of
\* a handler is a row the schema has.
THEOREM CommsTypeCorrect == MCSpec => []CommsTypeOK
  <1>1. MCInit => CommsInv
    BY InitInv, InitListed, InitPush, InitOwner DEF MCInit, CommsInv
  <1>2. CommsInv /\ [MCNext]_<<vars, pageVars, pushVars, premVars, part>> => CommsInv'
    BY NextComms
  <1>3. CommsInv => CommsTypeOK
    BY DEF CommsInv, CommsTypeOK, Inv, ListInv, PushInv, OwnerInv, TypeInv
  <1> QED
    BY <1>1, <1>2, <1>3, PTL DEF MCSpec
=============================================================================
