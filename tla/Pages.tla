-------------------------------- MODULE Pages --------------------------------
(***************************************************************************)
(* Reading a list page by page while other requests change it.  Every      *)
(* listing of the API orders its rows by a column and then by id, reads    *)
(* one row more than a page, and gives back the column and the id of the   *)
(* last row as a cursor; the next request asks for the rows after it.  The *)
(* API keeps nothing between two pages.                                    *)
(*                                                                         *)
(* One client walks one listing to its end.  Between two pages rows come   *)
(* (inserted, or their status changed so that they match the filter), go,  *)
(* and, where the column can be written, move.                             *)
(*                                                                         *)
(* Left out: what a filter tests, what a row shows, base64 and JSON of a   *)
(* cursor (times have milliseconds in the database and in ISO strings, so  *)
(* only a null changes on the way), and cursors the API did not write.     *)
(***************************************************************************)
EXTENDS Integers, FiniteSets

CONSTANTS
    RowId,         \* ids of rows
    Values,        \* values of the column
    MaxPage,       \* largest page a request gets
    Null,          \* value of an unset column
    Absent         \* no row, or a row the filter leaves out

EmptyString == 0
Cursor == [value: Values \cup {EmptyString}, id: RowId]

ASSUME PagesAssumption ==
    /\ RowId \subseteq Int /\ Values \subseteq Int
    /\ MaxPage \in Nat \ {0}
    /\ Null \notin Int /\ Absent \notin Int \cup {Null} \cup Cursor

Columns == {"updatedAt", "createdAt", "sentAt", "leaseStartDate", "startAt", "unitLabel", "residentName"}

\* columns some handler writes after the row was created
Written == {"updatedAt", "leaseStartDate", "unitLabel", "residentName"}

VARIABLES
    column,    \* the column the listing is ordered by
    table,     \* table[r]: value of the column of row r
    walk       \* the client and the rows it got

pageVars == <<column, table, walk>>

Walk == [pc: {"idle", "paging", "done"}, desc: BOOLEAN, limit: 1..MaxPage,
         cursor: {Absent} \cup Cursor,
         got: SUBSET RowId,      \* rows of the pages so far
         twice: SUBSET RowId,    \* rows that came more than once
         owed: SUBSET RowId,     \* rows there from the start and untouched since
         exact: BOOLEAN]         \* no cursor stands for a row without a value

PagesTypeOK ==
    /\ column \in Columns
    /\ table \in [RowId -> Values \cup {Null, Absent}]
    /\ walk \in Walk

NoWalk == [pc |-> "idle", desc |-> TRUE, limit |-> 1, cursor |-> Absent,
           got |-> {}, twice |-> {}, owed |-> {}, exact |-> TRUE]

PagesInit ==
    /\ column \in Columns
    /\ table = [r \in RowId |-> Absent]
    /\ walk = NoWalk

------------------------------------------------------------------------------
(* Rows.  Whatever happens to one, the client is no longer owed it.        *)

Allowed == IF column = "residentName" THEN Values \cup {Null} ELSE Values

Disturb(r) == walk' = [walk EXCEPT !.owed = @ \ {r}]

Appear(r) ==
    /\ table[r] = Absent
    /\ \E v \in Allowed : table' = [table EXCEPT ![r] = v]
    /\ Disturb(r) /\ UNCHANGED column

Disappear(r) ==
    /\ table[r] # Absent
    /\ table' = [table EXCEPT ![r] = Absent]
    /\ Disturb(r) /\ UNCHANGED column

Move(r) ==
    /\ column \in Written /\ table[r] # Absent
    /\ \E v \in Allowed \ {table[r]} : table' = [table EXCEPT ![r] = v]
    /\ Disturb(r) /\ UNCHANGED column

------------------------------------------------------------------------------
(* The listings.  A query orders by one of some columns, downwards or as    *)
(* the caller asks, and by id in the same direction.                        *)

Latest(c) == [by |-> {c}, desc |-> {TRUE}]
Either(columns) == [by |-> columns, desc |-> BOOLEAN]

ConversationsForUser == Latest("updatedAt")
ConversationsForUserAcrossOrgs == Latest("updatedAt")
NotificationsForUser == Latest("createdAt")
NotificationsForUserAcrossOrgs == Latest("createdAt")
Broadcasts == Latest("createdAt")
DeliveryTasksByFilter == Latest("createdAt")
LeasesByOrg == Either({"leaseStartDate"})
LeasesByResident == Either({"leaseStartDate"})
HistoryByResident == Either({"createdAt"})
OccupanciesByBuilding == Either({"createdAt", "startAt", "residentName", "unitLabel"})

Start(query) ==
    /\ walk.pc = "idle" /\ column \in query.by
    /\ \E limit \in 1..MaxPage, desc \in query.desc :
         walk' = [NoWalk EXCEPT !.pc = "paging", !.desc = desc, !.limit = limit,
                                !.owed = {r \in RowId : table[r] \in Values}]
    /\ UNCHANGED <<column, table>>

ListConversations == Start(ConversationsForUser)
ListOwnerConversations == Start(ConversationsForUserAcrossOrgs)
ListNotifications == Start(NotificationsForUser)
ListNotificationsAcrossOrgs == Start(NotificationsForUserAcrossOrgs)
ListBroadcasts == Start(Broadcasts)
ListDeliveryTasks == Start(DeliveryTasksByFilter)
ListResidentsInOrg == Start(Latest("createdAt"))
ListResidentInvitesInOrg == Start(Latest("sentAt"))
ListOrgLeases == Start(LeasesByOrg)
ListResidentLeases == Start(LeasesByResident)
ListContracts == Start(Either({"leaseStartDate"}))
ListResidentContracts == Start(Either({"leaseStartDate"}))
ListResidentLeaseTimeline == Start(HistoryByResident)

\* History and activity of one lease, merged and cut in memory; the id has the
\* source in front, so that it is one key.
GetLeaseTimeline == Start(Either({"createdAt"}))

ListResidentDirectory == Start(Either({"createdAt", "startAt", "residentName", "unitLabel"}))
ListOccupancies == Start(OccupanciesByBuilding)

BeginListing ==
    \/ ListConversations \/ ListOwnerConversations
    \/ ListNotifications \/ ListNotificationsAcrossOrgs
    \/ ListBroadcasts \/ ListDeliveryTasks
    \/ ListResidentsInOrg \/ ListResidentInvitesInOrg \/ ListResidentDirectory \/ ListOccupancies
    \/ ListOrgLeases \/ ListResidentLeases \/ ListContracts \/ ListResidentContracts
    \/ ListResidentLeaseTimeline \/ GetLeaseTimeline

------------------------------------------------------------------------------
(* One page.                                                               *)

\* v comes before w in the order asked for; false for a null, as in SQL
Before(v, w) ==
    v # Null /\ w # Null /\ IF walk.desc THEN v > w ELSE v < w

\* mutant: the cursor compares the column alone
AfterValueOnly(r) == walk.cursor # Absent => Before(walk.cursor.value, table[r])

\* the WHERE clause of a cursor
After(r) ==
    walk.cursor # Absent =>
        \/ Before(walk.cursor.value, table[r])
        \/ walk.cursor.value = table[r] /\ Before(walk.cursor.id, r)

\* ORDER BY column, id: nulls are last, and first in descending order
Precedes(r, s) ==
    \/ Before(table[r], table[s])
    \/ table[r] = table[s] /\ Before(r, s)
    \/ table[r] = Null /\ table[s] # Null /\ walk.desc
    \/ table[r] # Null /\ table[s] = Null /\ ~walk.desc

\* mutant: an unset name goes into the cursor as it is
EncodeUnset(r) == [value |-> table[r], id |-> r]

\* the cursor of row r: an unset name is written as the empty string
Encode(r) == [value |-> IF table[r] = Null THEN EmptyString ELSE table[r], id |-> r]

\* page is what comes first of rows; LIMIT is the size of a page and one more, and the
\* row too many only says that there is another page
FirstOf(page, rows) == \A r \in page, s \in rows \ page : Precedes(r, s)

NextPage ==
    LET rows == {r \in RowId : table[r] # Absent /\ After(r)} IN
    /\ walk.pc = "paging"
    /\ \E page \in SUBSET rows :
        /\ FirstOf(page, rows)
        /\ LET seen == [walk EXCEPT !.got = @ \cup page, !.twice = @ \cup (walk.got \cap page)] IN
           \/ /\ page = rows /\ Cardinality(page) <= walk.limit
              /\ walk' = [seen EXCEPT !.pc = "done"]
           \/ /\ page # rows /\ Cardinality(page) = walk.limit
              /\ \E last \in page :
                   /\ FirstOf(page \ {last}, page)
                   /\ walk' = [seen EXCEPT !.cursor = Encode(last),
                                           !.exact = @ /\ table[last] # Null]
    /\ UNCHANGED <<column, table>>

PagesNext ==
    \/ \E r \in RowId : Appear(r) \/ Disappear(r) \/ Move(r)
    \/ BeginListing
    \/ NextPage

PagesSpec == PagesInit /\ [][PagesNext]_pageVars

------------------------------------------------------------------------------
(* Properties.                                                             *)

\* Whoever asks for all pages gets every row that was there at the start, has a value in
\* the column and was left alone meanwhile, and gets it once, whatever comes, goes or
\* moves between two pages (the cursors of all listings).  It needs exact: the cursor of
\* a resident without a name is the empty string, which skips or repeats the others.
ListedOnce ==
    walk.exact =>
        /\ walk.pc = "done" => walk.owed \subseteq walk.got
        /\ walk.owed \cap walk.twice = {}
=============================================================================
