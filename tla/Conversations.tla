---------------------------- MODULE Conversations ----------------------------
(***************************************************************************)
(* Conversations between staff, residents and unit owners (modules/        *)
(* messaging) and the notifications they cause (modules/notifications), in *)
(* one organisation with one building.                                     *)
(*                                                                         *)
(* Every statement of a request commits on its own: the message, the time  *)
(* the conversation was updated, the time its author has read up to, and   *)
(* then one notification per recipient.  A time written is one read from   *)
(* the clock some time after the statement before.                         *)
(*                                                                         *)
(* Left out: contents and titles, sockets (a publication changes no row),  *)
(* the push of a notification (DeliveryTasks, Push) and the listing of      *)
(* conversations (Pages).                                                  *)
(***************************************************************************)
EXTENDS Naturals, FiniteSets

CONSTANTS
    Handlers,          \* concurrent API requests
    Staff,             \* have a role with messaging.write
    OrgWide,           \* have messaging.write in the organisation, by role or override
    Tenants,           \* have lived in the building
    OwnerUsers,        \* have an ACTIVE grant of the owner of the unit
    Conversation,      \* ids of conversations
    Message,           \* ids of messages
    MaxTime,           \* bound on the clock
    NoId

Types == {"MANAGEMENT_INTERNAL", "MANAGEMENT_TENANT", "MANAGEMENT_OWNER", "OWNER_TENANT"}

ASSUME ConversationsAssumption ==
    /\ Conversation \subseteq Nat /\ Message \subseteq Nat
    /\ MaxTime \in Nat \ {0}
    /\ NoId \notin Types
    /\ NoId \notin Staff \cup Tenants \cup OwnerUsers \cup Nat

Users == Staff \cup Tenants \cup OwnerUsers
\* users with the orgId of the organisation; owners are accounts of the portal
OrgUsers == Staff \cup Tenants
Time == 0..MaxTime

VARIABLES
    now,        \* the clock, in milliseconds
    resides,    \* tenants with an ACTIVE occupancy (Tenancy)
    conv,       \* conv[c]: Conversation row with its participants
    message,    \* message[m]: Message row
    lastRead,   \* lastRead[c][u]: lastReadAt of a participant, 0 for null
    notice,     \* notice[m][u]: Notification row about m for u
    job,        \* job[h]: progress of request h
    calm,       \* history: no two requests overlapped
    whole       \* history: no request died half way

vars == <<now, resides, conv, message, lastRead, notice, job, calm, whole>>

Nullable(S) == S \cup {NoId}
Row == [type: Nullable(Types), users: SUBSET Users, updated: Time]
Text == [conv: Nullable(Conversation), sender: Nullable(Users), at: Time]
Notice == [state: {"none", "unread", "read"}, dismissed: BOOLEAN]
Job == [pc: {"idle", "create", "markSender", "insert", "touch", "senderRead", "notify", "markRead"},
        user: Nullable(Users), conv: Nullable(Conversation), message: Nullable(Message),
        type: Nullable(Types), users: SUBSET Users, stamp: Time]

\* Rows and requests have their types.
TypeOK ==
    /\ now \in Time /\ resides \subseteq Tenants
    /\ conv \in [Conversation -> Row]
    /\ message \in [Message -> Text]
    /\ lastRead \in [Conversation -> [Users -> Time]]
    /\ notice \in [Message -> [Users -> Notice]]
    /\ job \in [Handlers -> Job]
    /\ calm \in BOOLEAN /\ whole \in BOOLEAN

Idle == [pc |-> "idle", user |-> NoId, conv |-> NoId, message |-> NoId, type |-> NoId,
         users |-> {}, stamp |-> 0]

Init ==
    /\ now = 1 /\ resides = Tenants
    /\ conv = [c \in Conversation |-> [type |-> NoId, users |-> {}, updated |-> 0]]
    /\ message = [m \in Message |-> [conv |-> NoId, sender |-> NoId, at |-> 0]]
    /\ lastRead = [c \in Conversation |-> [u \in Users |-> 0]]
    /\ notice = [m \in Message |-> [u \in Users |-> [state |-> "none", dismissed |-> FALSE]]]
    /\ job = [h \in Handlers |-> Idle]
    /\ calm = TRUE /\ whole = TRUE

Begin(h, new) ==
    /\ job[h].pc = "idle"
    /\ job' = [job EXCEPT ![h] = [new EXCEPT !.stamp = now]]
    /\ calm' = (calm /\ \A k \in Handlers : job[k].pc = "idle")
    /\ UNCHANGED whole
Continue(h, new) == job' = [job EXCEPT ![h] = [new EXCEPT !.stamp = now]] /\ UNCHANGED <<calm, whole>>
Finish(h) == job' = [job EXCEPT ![h] = Idle] /\ UNCHANGED <<calm, whole>>

\* A new Date() of request h: read after the statement before and before this one.
Stamps(h) == job[h].stamp..now

Tick ==
    /\ now < MaxTime
    /\ now' = now + 1
    /\ UNCHANGED <<resides, conv, message, lastRead, notice, job, calm, whole>>

MoveOut(u) ==
    /\ u \in resides
    /\ resides' = resides \ {u}
    /\ UNCHANGED <<now, conv, message, lastRead, notice, job, calm, whole>>

------------------------------------------------------------------------------
(* Who talks to whom.                                                      *)

\* inferConversationClassification over getConversationParticipantRoleBuckets
Classification(users) ==
    LET staff  == users \cap Staff # {}
        tenant == users \cap resides # {}
        owner  == users \cap OwnerUsers # {} IN
    CASE staff /\ ~tenant /\ ~owner -> "MANAGEMENT_INTERNAL"
      [] staff /\ tenant /\ ~owner  -> "MANAGEMENT_TENANT"
      [] staff /\ ~tenant /\ owner  -> "MANAGEMENT_OWNER"
      [] ~staff /\ tenant /\ owner  -> "OWNER_TENANT"
      [] OTHER                      -> NoId

\* assertOrgConversationAccess: a former resident without a role is turned away
OrgAccess(u) == u \in OrgUsers /\ (u \in Staff \/ u \in resides \/ u \notin Tenants)

Creates(h, u, type, users) ==
    /\ Begin(h, [Idle EXCEPT !.pc = "create", !.user = u, !.type = type, !.users = users])
    /\ UNCHANGED <<now, resides, conv, message, lastRead, notice>>

\* Those whose permission is limited to the building may address its residents only.
CreateConversation(h, u, asked) ==
    LET valid == asked \cap OrgUsers
        users == valid \cup {u} IN
    /\ u \in OrgWide \/ u \in Staff
    /\ valid # {}
    /\ u \in OrgWide \/ valid \ {u} \subseteq resides
    /\ Classification(users) # NoId
    /\ Creates(h, u, Classification(users), users)

\* all of the management, or the one selected
CreateResidentConversationWithManagement(h, u, selected) ==
    /\ u \in resides
    /\ Staff \ {u} # {}
    /\ selected \in Nullable(Staff \ {u})
    /\ Creates(h, u, "MANAGEMENT_TENANT", {u} \cup IF selected = NoId THEN Staff ELSE {selected})

CreateResidentConversationWithOwner(h, u) ==
    /\ u \in resides
    /\ OwnerUsers \ {u} # {}
    /\ Creates(h, u, "OWNER_TENANT", {u} \cup OwnerUsers)

CreateOwnerConversationWithManagement(h, u) ==
    /\ u \in OwnerUsers
    /\ Staff \ {u} # {}
    /\ Creates(h, u, "MANAGEMENT_OWNER", {u} \cup Staff)

\* two participants, so the tenant is somebody else (the rows have a unique key)
CreateOwnerConversationWithTenant(h, u, tenant) ==
    /\ u \in OwnerUsers
    /\ tenant \in resides \ {u}
    /\ Creates(h, u, "OWNER_TENANT", {u, tenant})

------------------------------------------------------------------------------
(* Creation of a conversation, with its first message.                     *)

\* the next id (the ids of messages are compared with nothing)
NewMessage(m) ==
    message[m].conv = NoId /\ \A k \in Message : k < m => message[k].conv # NoId

InsertConversation(h, c, m) ==
    LET j == job[h] IN
    /\ j.pc = "create"
    /\ conv[c].type = NoId /\ NewMessage(m)
    /\ conv' = [conv EXCEPT ![c] = [type |-> j.type, users |-> j.users, updated |-> now]]
    /\ message' = [message EXCEPT ![m] = [conv |-> c, sender |-> j.user, at |-> now]]
    /\ \E stamp \in Stamps(h) : lastRead' = [lastRead EXCEPT ![c][j.user] = stamp]
    /\ Continue(h, [j EXCEPT !.pc = "markSender", !.conv = c, !.message = m])
    /\ UNCHANGED <<now, resides, notice>>

\* The other participants that are still to be notified.
Recipients(c, u) == conv[c].users \ {u}

\* createForUsers returns at once when there is nobody to notify.
StartNotifying(h) ==
    LET j == job[h]
        users == Recipients(j.conv, j.user) IN
    IF users = {} THEN Finish(h) ELSE Continue(h, [j EXCEPT !.pc = "notify", !.users = users])

\* mutant: the time before the insert is kept
MarkSenderNot(h) ==
    /\ job[h].pc = "markSender"
    /\ StartNotifying(h)
    /\ UNCHANGED <<now, resides, conv, message, lastRead, notice>>

\* The author has read up to the message.
MarkSender(h) ==
    LET j == job[h] IN
    /\ j.pc = "markSender"
    /\ lastRead' = [lastRead EXCEPT ![j.conv][j.user] = message[j.message].at]
    /\ StartNotifying(h)
    /\ UNCHANGED <<now, resides, conv, message, notice>>

\* createForUsers: one insert after the other
Notify(h, u) ==
    LET j == job[h]
        rest == j.users \ {u} IN
    /\ j.pc = "notify" /\ u \in j.users
    /\ notice' = [notice EXCEPT ![j.message][u] = [state |-> "unread", dismissed |-> FALSE]]
    /\ IF rest = {} THEN Finish(h) ELSE Continue(h, [j EXCEPT !.users = rest])
    /\ UNCHANGED <<now, resides, conv, message, lastRead>>

------------------------------------------------------------------------------
(* Messages and reading.                                                   *)

\* sendMessage of the organisation and sendOwnerMessage of the portal
MayUse(u, c) == u \in conv[c].users /\ (OrgAccess(u) \/ u \in OwnerUsers)

SendMessage(h, u, c) ==
    /\ MayUse(u, c)
    /\ Begin(h, [Idle EXCEPT !.pc = "insert", !.user = u, !.conv = c])
    /\ UNCHANGED <<now, resides, conv, message, lastRead, notice>>

InsertMessage(h, m) ==
    LET j == job[h] IN
    /\ j.pc = "insert"
    /\ NewMessage(m)
    /\ message' = [message EXCEPT ![m] = [conv |-> j.conv, sender |-> j.user, at |-> now]]
    /\ Continue(h, [j EXCEPT !.pc = "touch", !.message = m])
    /\ UNCHANGED <<now, resides, conv, lastRead, notice>>

TouchConversation(h) ==
    LET j == job[h] IN
    /\ j.pc = "touch"
    /\ \E stamp \in Stamps(h) : conv' = [conv EXCEPT ![j.conv].updated = stamp]
    /\ Continue(h, [j EXCEPT !.pc = "senderRead"])
    /\ UNCHANGED <<now, resides, message, lastRead, notice>>

SenderRead(h) ==
    LET j == job[h] IN
    /\ j.pc = "senderRead"
    /\ \E stamp \in Stamps(h) : lastRead' = [lastRead EXCEPT ![j.conv][j.user] = stamp]
    /\ StartNotifying(h)
    /\ UNCHANGED <<now, resides, conv, message, notice>>

MarkAsRead(h, u, c) ==
    /\ MayUse(u, c)
    /\ Begin(h, [Idle EXCEPT !.pc = "markRead", !.user = u, !.conv = c])
    /\ UNCHANGED <<now, resides, conv, message, lastRead, notice>>

MarkConversationAsRead(h) ==
    LET j == job[h] IN
    /\ j.pc = "markRead"
    /\ \E stamp \in Stamps(h) : lastRead' = [lastRead EXCEPT ![j.conv][j.user] = stamp]
    /\ Finish(h)
    /\ UNCHANGED <<now, resides, conv, message, notice>>

\* countUnreadMessagesFromConversations, message by message
Unread(m, u) == message[m].at > lastRead[message[m].conv][u]

Abandon(h) ==
    /\ job[h].pc # "idle"
    /\ job' = [job EXCEPT ![h] = Idle]
    /\ whole' = FALSE
    /\ UNCHANGED <<now, resides, conv, message, lastRead, notice, calm>>

------------------------------------------------------------------------------
(* Notifications of a user.  Each check is repeated by the WHERE clause of *)
(* the update that follows it, so the two are one step.  Members of the    *)
(* organisation have one set of routes and owners another one, which looks *)
(* in all the organisations the owner has a grant of.                      *)

Fresh == [state |-> "unread", dismissed |-> FALSE]
Others == <<now, resides, conv, message, lastRead, job, calm, whole>>

\* markRead, markAllRead, markDismissed and clearDismissed of the repository
ReadOne(m, u) ==
    /\ notice[m][u] = Fresh
    /\ notice' = [notice EXCEPT ![m][u].state = "read"]
    /\ UNCHANGED Others

ReadAll(u) ==
    /\ notice' = [m \in Message |-> IF notice[m][u] = Fresh THEN [notice[m] EXCEPT ![u].state = "read"]
                                    ELSE notice[m]]
    /\ notice' # notice
    /\ UNCHANGED Others

MarkDismissed(m, u) ==
    /\ notice[m][u].state # "none" /\ ~notice[m][u].dismissed
    /\ notice' = [notice EXCEPT ![m][u].dismissed = TRUE]
    /\ UNCHANGED Others

ClearDismissed(m, u) ==
    /\ notice[m][u].dismissed
    /\ notice' = [notice EXCEPT ![m][u].dismissed = FALSE]
    /\ UNCHANGED Others

MarkRead(m, u) == u \in OrgUsers /\ ReadOne(m, u)
MarkAllRead(u) == u \in OrgUsers /\ ReadAll(u)
Dismiss(m, u) == u \in OrgUsers /\ MarkDismissed(m, u)
Undismiss(m, u) == u \in OrgUsers /\ ClearDismissed(m, u)

MarkReadAcrossOrgs(m, u) == u \in OwnerUsers /\ ReadOne(m, u)
MarkAllReadAcrossOrgs(u) == u \in OwnerUsers /\ ReadAll(u)
DismissAcrossOrgs(m, u) == u \in OwnerUsers /\ MarkDismissed(m, u)
UndismissAcrossOrgs(m, u) == u \in OwnerUsers /\ ClearDismissed(m, u)

NoticeStep ==
    \E u \in Users :
        \/ MarkAllRead(u) \/ MarkAllReadAcrossOrgs(u)
        \/ \E m \in Message :
             \/ MarkRead(m, u) \/ Dismiss(m, u) \/ Undismiss(m, u)
             \/ MarkReadAcrossOrgs(m, u) \/ DismissAcrossOrgs(m, u) \/ UndismissAcrossOrgs(m, u)

------------------------------------------------------------------------------
Request(h) ==
    \/ \E u \in Users :
         \/ \E asked \in SUBSET Users : CreateConversation(h, u, asked)
         \/ \E selected \in Nullable(Staff) : CreateResidentConversationWithManagement(h, u, selected)
         \/ CreateResidentConversationWithOwner(h, u)
         \/ CreateOwnerConversationWithManagement(h, u)
         \/ \E tenant \in Tenants : CreateOwnerConversationWithTenant(h, u, tenant)
         \/ \E c \in Conversation : SendMessage(h, u, c) \/ MarkAsRead(h, u, c)
         \/ Notify(h, u)
    \/ \E c \in Conversation, m \in Message : InsertConversation(h, c, m)
    \/ \E m \in Message : InsertMessage(h, m)
    \/ MarkSender(h) \/ TouchConversation(h) \/ SenderRead(h) \/ MarkConversationAsRead(h)
    \/ Abandon(h)

Next ==
    \/ \E h \in Handlers : Request(h)
    \/ \E u \in Tenants : MoveOut(u)
    \/ NoticeStep
    \/ Tick

Spec == Init /\ [][Next]_vars

------------------------------------------------------------------------------
(* Properties.                                                             *)

\* Once the request that wrote a message is over, each of the other participants, and
\* nobody else, has a notification of it, however requests overlap; and its author does
\* not see it as unread (createConversation, addMessage, createForUsers).  A request that
\* dies leaves recipients without a notification, hence whole; a mark whose time was read
\* before another one's may be written after it, hence calm.
CaughtUp ==
    whole => \A m \in Message :
        (message[m].conv # NoId /\ \A h \in Handlers : job[h].message # m) =>
            /\ \A u \in Users : notice[m][u].state # "none" <=>
                                  u \in conv[message[m].conv].users \ {message[m].sender}
            /\ calm => ~Unread(m, message[m].sender)
=============================================================================
