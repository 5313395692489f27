------------------------------ MODULE MCComms ------------------------------
(* Conversations, Pages, Push and Premises share no state: a behaviour is one of them, *)
(* chosen at the start, with the variables of the others left alone.                   *)
EXTENDS Conversations, Pages, Push, Premises
CONSTANTS First, Home

VARIABLE part

\* two requests that overlap within one millisecond, or one after another; notifications
\* are read and dismissed when the requests are over, and three talk in one message only
Untouched == \A m \in Message, u \in Users : notice[m][u].state # "read" /\ ~notice[m][u].dismissed
Pairs == \A c \in Conversation : Cardinality(conv[c].users) <= 2
Talking ==
    \/ now = 1 /\ resides = Tenants /\ whole /\ Untouched /\ Pairs
    \/ \A h \in Handlers : job[h].pc # "idle" =>
         h = First /\ whole /\ Untouched /\ (Pairs \/ job[h].pc \in {"markSender", "notify"})

\* two rows, or three where the column can be unset or written and the order chosen
Listing == column \in {"leaseStartDate", "residentName"} \/ \E r \in RowId : table[r] = Absent

\* one receipt and any change of the device, or three receipts of a device that stays
Used == {k \in Ticket : answer[k] # "none" \/ Pending(k)}
Pushing == \/ Used \subseteq {1} /\ faults = 0
           \/ /\ update = NoUpdate /\ \A d \in Device : device[d].active <=> d = Home
              /\ \A k \in Used : answer[k] \notin {"error", "gone"} /\ receipt[k].status # "none"
              /\ sender.pc = "deactivate" => sender.devices = {}

\* ids are given in order; owners are switched on and off between requests, amenities serve
\* one ownerless unit, visitors come to ownerless units and their requests do not overlap
\* those of units; two requests overlap on one unit, and not when amenities are given or a
\* visitor changes the unit; each owner has a representative of its own
MCOwnerAccess == CHOOSE access \in [Owner -> {{p} : p \in PortalUser}] :
    \A o, w \in Owner : access[o] = access[w] => o = w
Busy == {h \in Clerks : task[h].pc # "idle"}
Quiet == home = [u \in UnitId |-> Nil] /\ told = {} /\ \A v \in Visitor : visitor[v] = NoVisitor
Bare == \A a \in Amenity : ~amenity[a].exists
Ownerless == \A u \in UnitId : open[u] = {}
Visiting == \A h \in Busy : task[h].pc \in {"visit", "updateVisitor", "announce", "cancel"}
Housing ==
    /\ \A u \in Units : 1..u \subseteq Units
    /\ ownerActive = Owner \/ (Quiet /\ Bare /\ Busy = {})
    /\ Quiet \/ (Bare /\ Ownerless /\ Visiting)
    /\ Bare \/ (Cardinality(Busy) <= 1 /\ Cardinality(Units) <= 1 /\ Ownerless)
    /\ \/ Cardinality(Busy) <= 1
       \/ /\ Cardinality(Units) <= 1
          /\ \A h \in Busy : task[h].pc \in {"create", "import"} \/ task[h].links = Keep
          /\ \A h \in Busy : task[h].pc = "updateVisitor" => task[h].unit = Nil

MCInit ==
    /\ Init /\ PagesInit /\ PushInit /\ PremisesInit
    /\ part \in {"conversations", "pages", "push", "premises"}
    /\ part = "pages" \/ column = "createdAt"

MCNext ==
    /\ UNCHANGED part
    /\ \/ part = "conversations" /\ Next /\ Talking' /\ UNCHANGED <<pageVars, pushVars, premVars>>
       \/ part = "pages" /\ PagesNext /\ Listing' /\ UNCHANGED <<vars, pushVars, premVars>>
       \/ part = "push" /\ PushNext /\ Pushing' /\ UNCHANGED <<vars, pageVars, premVars>>
       \/ part = "premises" /\ PremisesNext /\ Housing' /\ UNCHANGED <<vars, pageVars, pushVars>>

MCSpec == MCInit /\ [][MCNext]_<<vars, pageVars, pushVars, premVars, part>> /\ PushFairness

\* The variables of the four modules have their types.
CommsTypeOK == TypeOK /\ PagesTypeOK /\ PushTypeOK /\ PremisesTypeOK
=============================================================================
