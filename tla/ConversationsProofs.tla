------------------------- MODULE ConversationsProofs -------------------------
(***************************************************************************)
(* Proofs for Conversations, for any number of requests, people,           *)
(* conversations and messages.                                             *)
(*                                                                         *)
(* The request that wrote a message owes its notifications: as long as it  *)
(* is at work nobody, or everybody it has come to, is notified (JobOK),    *)
(* and two requests never owe for one message (Apart).  Without overlaps   *)
(* every message is older than the last statement of the request at work   *)
(* (Ahead), so the time it writes as read covers all of them.              *)
(***************************************************************************)
EXTENDS Conversations, TLAPS

Writing == {"markSender", "touch", "senderRead"}

ConvsOK == \A c \in Conversation : conv[c].type = NoId => conv[c].users = {}

TextsOK == \A m \in Message :
    /\ message[m].conv = NoId => \A u \in Users : notice[m][u].state = "none"
    /\ message[m].conv # NoId => conv[message[m].conv].type # NoId /\ message[m].sender \in Users
    /\ message[m].at <= now

\* what the program points say about the fields they use
JobOK(j) ==
    /\ j.pc # "idle" => j.user \in Users
    /\ j.pc = "create" => j.type \in Types
    /\ j.pc \notin {"idle", "create"} => j.conv \in Conversation /\ conv[j.conv].type # NoId
    /\ j.pc \in Writing \cup {"notify"} <=> j.message # NoId
    /\ j.message # NoId => message[j.message].conv = j.conv /\ message[j.message].sender = j.user
    /\ j.pc \in Writing => \A u \in Users : notice[j.message][u].state = "none"
    /\ j.pc = "notify" =>
         /\ j.users \subseteq Recipients(j.conv, j.user)
         /\ \A u \in Users : notice[j.message][u].state # "none" <=>
                               u \in Recipients(j.conv, j.user) \ j.users
    /\ j.stamp <= now
    /\ j.pc = "markSender" => message[j.message].at = j.stamp

Apart == \A h, k \in Handlers :
    (job[h].message # NoId /\ job[h].message = job[k].message) => h = k

Notified(m) == \A u \in Users : notice[m][u].state # "none" <=>
                                  u \in conv[message[m].conv].users \ {message[m].sender}

Told == whole => \A m \in Message :
    (message[m].conv # NoId /\ \A h \in Handlers : job[h].message # m) => Notified(m)

Lone == \A h, k \in Handlers : (job[h].pc # "idle" /\ job[k].pc # "idle") => h = k

Ahead == \A h \in Handlers : job[h].pc # "idle" =>
    \A m \in Message : message[m].conv # NoId => message[m].at <= job[h].stamp

Caught == whole => \A m \in Message : message[m].conv # NoId =>
    \/ ~Unread(m, message[m].sender)
    \/ \E h \in Handlers : job[h].message = m /\ job[h].pc \in Writing

Inv ==
    /\ TypeOK /\ ConvsOK /\ TextsOK /\ Apart /\ Told
    /\ \A h \in Handlers : JobOK(job[h])
    /\ calm => Lone /\ Ahead /\ Caught

------------------------------------------------------------------------------
(* Steps in general.                                                       *)

ConvKept == \A c \in Conversation : conv[c].type # NoId =>
    conv'[c].type # NoId /\ conv'[c].users = conv[c].users

TextKept == \A m \in Message : message[m].conv # NoId => message'[m] = message[m]

\* whoever is notified of m
NoticeKept(m) == \A u \in Users : notice'[m][u].state # "none" <=> notice[m][u].state # "none"

\* only request h moved, and a calm history had no other
Alone(h) ==
    /\ \A k \in Handlers \ {h} : job'[k] = job[k]
    /\ calm' => calm /\ \A k \in Handlers \ {h} : job[k].pc = "idle"
    /\ whole' => whole

LEMMA TypeFacts ==
    ASSUME TypeOK
    PROVE  /\ now \in Nat /\ now \in Time
           /\ \A h \in Handlers : job[h] \in Job /\ job[h].stamp \in Nat /\ job[h].stamp \in Time
           /\ \A m \in Message : message[m].at \in Nat /\ message[m].conv \in Nullable(Conversation)
           /\ \A c \in Conversation : conv[c] \in Row
           /\ \A c \in Conversation, u \in Users : lastRead[c][u] \in Nat
  <1>1. \A x \in Time : x \in Nat
    BY ConversationsAssumption DEF Time
  <1>2. now \in Time /\ \A h \in Handlers : job[h] \in Job
    BY DEF TypeOK
  <1>3. \A h \in Handlers : job[h].stamp \in Time
    BY <1>2 DEF Job
  <1>4. \A m \in Message : message[m].at \in Time /\ message[m].conv \in Nullable(Conversation)
    BY DEF TypeOK, Text
  <1>5. \A c \in Conversation : conv[c] \in Row
    BY DEF TypeOK
  <1>6. \A c \in Conversation, u \in Users : lastRead[c][u] \in Time
    BY DEF TypeOK
  <1> QED
    BY <1>1, <1>2, <1>3, <1>4, <1>5, <1>6

\* What a request remembers stays true while others write.
LEMMA JobKept ==
    ASSUME TypeOK, TypeOK', ConvKept, TextKept, now <= now', ConvsOK, TextsOK,
           NEW j \in Job, JobOK(j), j.message # NoId => NoticeKept(j.message), j.stamp \in Nat
    PROVE  JobOK(j)'
  <1>1. j.message \in Nullable(Message) /\ j.users \subseteq Users
    BY DEF Job
  <1>2. now \in Nat /\ now' \in Nat
    BY TypeFacts DEF TypeOK, Time
  <1>3. j.stamp <= now'
    BY <1>2 DEF JobOK
  <1>4. j.pc \notin {"idle", "create"} => /\ conv'[j.conv].type # NoId
                                          /\ conv'[j.conv].users = conv[j.conv].users
    BY DEF JobOK, ConvKept
  <1>5. j.message # NoId => message'[j.message] = message[j.message]
    <2> SUFFICES ASSUME j.message # NoId PROVE message'[j.message] = message[j.message]
      OBVIOUS
    <2>1. j.message \in Message /\ message[j.message].conv = j.conv /\ j.conv \in Conversation
      BY <1>1 DEF JobOK, Writing, Nullable
    <2>2. j.conv # NoId
      BY <2>1, ConversationsAssumption
    <2> QED
      BY <2>1, <2>2 DEF TextKept
  <1>6. j.pc \in Writing => \A u \in Users : notice'[j.message][u].state = "none"
    BY DEF JobOK, NoticeKept, Writing
  <1>7. j.pc = "notify" =>
         /\ j.users \subseteq conv'[j.conv].users \ {j.user}
         /\ \A u \in Users : notice'[j.message][u].state # "none" <=>
                               u \in (conv'[j.conv].users \ {j.user}) \ j.users
    BY <1>4 DEF JobOK, NoticeKept, Recipients
  <1> QED
    BY <1>3, <1>4, <1>5, <1>6, <1>7 DEF JobOK, Recipients, Writing

\* A step of one request keeps the invariant if the rows stay in order, the request
\* remembers what it should and has notified everybody of a message it lets go.
LEMMA StepInv ==
    ASSUME Inv, TypeOK', ConvsOK', TextsOK', ConvKept, TextKept, now' = now,
           NEW h \in Handlers, Alone(h), JobOK(job[h])',
           \A m \in Message : m # job[h].message => NoticeKept(m),
           \A m \in Message : (message[m].conv = NoId /\ message'[m].conv # NoId) => job'[h].message = m,
           job'[h].message \in {NoId, job[h].message} \/ message[job'[h].message].conv = NoId,
           \A m \in Message : (whole' /\ m = job[h].message /\ m # job'[h].message) => Notified(m)',
           calm' => Ahead' /\ Caught'
    PROVE  Inv'
  <1> USE DEF Alone
  <1>1. now \in Nat /\ now <= now'
    BY TypeFacts DEF Inv
  <1>2. \A k \in Handlers : job[k].message # NoId =>
          /\ job[k].message \in Message /\ message[job[k].message].conv \in Conversation
          /\ message[job[k].message].conv # NoId
    <2> SUFFICES ASSUME NEW k \in Handlers, job[k].message # NoId
                 PROVE  /\ job[k].message \in Message /\ message[job[k].message].conv \in Conversation
                        /\ message[job[k].message].conv # NoId
      OBVIOUS
    <2>1. job[k] \in Job /\ JobOK(job[k])
      BY TypeFacts DEF Inv
    <2>2. job[k].message \in Message
      BY <2>1 DEF Job, Nullable
    <2>3. job[k].pc \notin {"idle", "create"} /\ message[job[k].message].conv = job[k].conv
      BY <2>1 DEF JobOK, Writing
    <2>4. job[k].conv \in Conversation
      BY <2>1, <2>3 DEF JobOK
    <2> QED
      BY <2>2, <2>3, <2>4, ConversationsAssumption
  <1>3. \A k \in Handlers : JobOK(job[k])'
    <2> SUFFICES ASSUME NEW k \in Handlers, k # h PROVE JobOK(job[k])'
      OBVIOUS
    <2>1. PICK j \in Job : j = job[k] /\ JobOK(job[k]) /\ j.stamp \in Nat
      BY TypeFacts DEF Inv
    <2>2. j.message # NoId => NoticeKept(j.message)
      <3>1. j.message # NoId => j.message # job[h].message
        BY <2>1 DEF Inv, Apart
      <3> QED
        BY <1>2, <2>1, <3>1
    <2>3. JobOK(j)'
      BY <1>1, <2>1, <2>2, JobKept DEF Inv, JobOK, Recipients
    <2> QED
      BY <2>1, <2>3 DEF JobOK, Recipients
  <1>4. Apart'
    BY <1>2 DEF Inv, Apart
  <1>5. Told'
    <2> SUFFICES ASSUME whole', NEW m \in Message, message'[m].conv # NoId,
                        \A k \in Handlers : job'[k].message # m
                 PROVE  Notified(m)'
      BY DEF Told, Notified
    <2>1. CASE m = job[h].message
      BY <2>1
    <2>2. CASE m # job[h].message
      <3>1. message[m].conv # NoId /\ message'[m] = message[m]
        BY DEF TextKept
      <3>2. Notified(m)
        BY <2>2, <3>1 DEF Inv, Told
      <3>3. message[m].conv \in Conversation /\ conv[message[m].conv].type # NoId
        BY <3>1, TypeFacts DEF Inv, TextsOK, Nullable
      <3> QED
        BY <2>2, <3>1, <3>2, <3>3 DEF Notified, NoticeKept, ConvKept
    <2> QED
      BY <2>1, <2>2
  <1>6. calm' => Lone'
    BY DEF Lone
  <1> QED
    BY <1>3, <1>4, <1>5, <1>6 DEF Inv

\* the fields of a request that has just made a statement
Stamped(j, new) ==
    /\ j \in Job /\ j.pc = new.pc /\ j.user = new.user /\ j.conv = new.conv
    /\ j.message = new.message /\ j.type = new.type /\ j.users = new.users /\ j.stamp = now

LEMMA StampedOK ==
    ASSUME TypeOK, NEW new \in Job
    PROVE  Stamped([new EXCEPT !.stamp = now], new)
  BY TypeFacts DEF Stamped, Job

LEMMA BeginStep ==
    ASSUME Inv, NEW h \in Handlers, NEW new \in Job, Begin(h, new)
    PROVE  /\ Alone(h) /\ job' \in [Handlers -> Job] /\ calm' \in BOOLEAN /\ whole' \in BOOLEAN
           /\ Stamped(job'[h], new) /\ job[h].pc = "idle"
  <1>1. job \in [Handlers -> Job] /\ calm \in BOOLEAN /\ whole \in BOOLEAN
    BY DEF Inv, TypeOK
  <1>2. Stamped([new EXCEPT !.stamp = now], new)
    BY StampedOK DEF Inv
  <1> DEFINE j == [new EXCEPT !.stamp = now]
  <1>3. j \in Job /\ job' = [job EXCEPT ![h] = j]
    BY <1>2 DEF Begin, Stamped
  <1> HIDE DEF j
  <1>4. job' \in [Handlers -> Job] /\ job'[h] = j /\ \A k \in Handlers \ {h} : job'[k] = job[k]
    BY <1>1, <1>3
  <1> QED
    BY <1>1, <1>2, <1>4 DEF Begin, Alone, j

LEMMA ContinueStep ==
    ASSUME Inv, NEW h \in Handlers, NEW new \in Job, Continue(h, new), job[h].pc # "idle"
    PROVE  /\ Alone(h) /\ job' \in [Handlers -> Job] /\ calm' = calm /\ whole' = whole
           /\ Stamped(job'[h], new)
  <1>1. job \in [Handlers -> Job] /\ (calm => Lone)
    BY DEF Inv, TypeOK
  <1>2. Stamped([new EXCEPT !.stamp = now], new)
    BY StampedOK DEF Inv
  <1> DEFINE j == [new EXCEPT !.stamp = now]
  <1>3. j \in Job /\ job' = [job EXCEPT ![h] = j]
    BY <1>2 DEF Continue, Stamped
  <1> HIDE DEF j
  <1>4. job' \in [Handlers -> Job] /\ job'[h] = j /\ \A k \in Handlers \ {h} : job'[k] = job[k]
    BY <1>1, <1>3
  <1>5. calm' = calm /\ whole' = whole
    BY DEF Continue
  <1>6. Alone(h)
    BY <1>1, <1>4, <1>5 DEF Alone, Lone
  <1> QED
    BY <1>2, <1>4, <1>5, <1>6 DEF j

LEMMA IdleOK ==
    /\ Idle \in Job /\ Idle.pc = "idle" /\ Idle.message = NoId /\ Idle.users = {} /\ Idle.stamp = 0
    /\ Idle.conv = NoId /\ Idle.type = NoId /\ Idle.user = NoId
  <1>1. 0 \in Time
    BY ConversationsAssumption DEF Time
  <1> QED
    BY <1>1 DEF Idle, Job, Nullable

LEMMA FinishStep ==
    ASSUME Inv, NEW h \in Handlers, Finish(h), job[h].pc # "idle"
    PROVE  /\ Alone(h) /\ job' \in [Handlers -> Job] /\ calm' = calm /\ whole' = whole
           /\ job'[h] = Idle
  <1>1. job \in [Handlers -> Job] /\ (calm => Lone)
    BY DEF Inv, TypeOK
  <1>2. /\ job' \in [Handlers -> Job] /\ job'[h] = Idle
        /\ \A k \in Handlers \ {h} : job'[k] = job[k]
    BY <1>1, IdleOK DEF Finish
  <1> QED
    BY <1>1, <1>2 DEF Finish, Alone, Lone

LEMMA IdleJobOK ==
    ASSUME NEW h \in Handlers, job'[h] = Idle, TypeOK'
    PROVE  JobOK(job[h])'
  <1>1. now' \in Nat
    BY ConversationsAssumption DEF TypeOK, Time
  <1>2. 0 <= now'
    BY <1>1
  <1> QED
    BY <1>2, IdleOK DEF JobOK, Writing

\* Without overlaps, all there is was written before a statement that is made now.
LEMMA AheadNow ==
    ASSUME Inv, NEW h \in Handlers, Alone(h), calm', TextsOK', TypeOK',
           job'[h].stamp = now' \/ job'[h].pc = "idle"
    PROVE  Ahead'
  BY DEF Alone, Ahead, TextsOK

\* Rows that nobody wrote are in order.
LEMMA RowsSame ==
    ASSUME Inv, UNCHANGED <<now, conv, message, notice>>
    PROVE  /\ ConvsOK' /\ TextsOK' /\ ConvKept /\ TextKept /\ \A m \in Message : NoticeKept(m)
  BY DEF Inv, ConvsOK, TextsOK, ConvKept, TextKept, NoticeKept

\* A request that starts by reading.
LEMMA BeginInv ==
    ASSUME Inv, NEW h \in Handlers, NEW new \in Job, Begin(h, new),
           UNCHANGED <<now, resides, conv, message, lastRead, notice>>,
           new.message = NoId, new.pc \in {"create", "insert", "markRead"}, new.user \in Users,
           new.pc = "create" => new.type \in Types,
           new.pc # "create" => new.conv \in Conversation /\ conv[new.conv].type # NoId
    PROVE  Inv'
  <1>1. /\ Alone(h) /\ job' \in [Handlers -> Job] /\ calm' \in BOOLEAN /\ whole' \in BOOLEAN
        /\ Stamped(job'[h], new) /\ job[h].pc = "idle"
    BY BeginStep
  <1>2. TypeOK'
    BY <1>1 DEF Inv, TypeOK
  <1>3. ConvsOK' /\ TextsOK' /\ ConvKept /\ TextKept /\ \A m \in Message : NoticeKept(m)
    BY RowsSame
  <1>4. job[h].message = NoId
    BY <1>1 DEF Inv, JobOK, Writing
  <1>5. JobOK(job[h])'
    <2>1. now \in Nat /\ now <= now
      BY TypeFacts DEF Inv
    <2> QED
      BY <1>1, <2>1 DEF JobOK, Writing, Stamped
  <1>6. calm' => Ahead'
    BY <1>1, <1>2, <1>3, AheadNow DEF Stamped
  <1>7. calm' => Caught'
    BY <1>1, <1>4 DEF Inv, Caught, Unread, Alone, Writing
  <1>8. \A m \in Message : m # NoId
    BY ConversationsAssumption
  <1> QED
    BY <1>1, <1>2, <1>3, <1>4, <1>5, <1>6, <1>7, <1>8, StepInv DEF Stamped

LEMMA CreatesInv ==
    ASSUME Inv, NEW h \in Handlers, NEW u \in Users, NEW type \in Types, NEW users \in SUBSET Users,
           Creates(h, u, type, users)
    PROVE  Inv'
  <1> DEFINE new == [Idle EXCEPT !.pc = "create", !.user = u, !.type = type, !.users = users]
  <1>1. /\ new \in Job /\ new.pc = "create" /\ new.user = u /\ new.message = NoId /\ new.type = type
    BY IdleOK DEF Idle, Job, Nullable
  <1>2. Begin(h, new) /\ UNCHANGED <<now, resides, conv, message, lastRead, notice>>
    BY DEF Creates
  <1> HIDE DEF new
  <1> QED
    BY <1>1, <1>2, BeginInv

\* Every way to start a conversation gives it a type and participants.
LEMMA CreationInv ==
    ASSUME Inv, NEW h \in Handlers, NEW u \in Users,
           \/ \E asked \in SUBSET Users : CreateConversation(h, u, asked)
           \/ \E selected \in Nullable(Staff) : CreateResidentConversationWithManagement(h, u, selected)
           \/ CreateResidentConversationWithOwner(h, u)
           \/ CreateOwnerConversationWithManagement(h, u)
           \/ \E tenant \in Tenants : CreateOwnerConversationWithTenant(h, u, tenant)
    PROVE  Inv'
  <1>1. resides \subseteq Tenants /\ Staff \subseteq Users /\ Tenants \subseteq Users /\ OwnerUsers \subseteq Users
    BY DEF Inv, TypeOK, Users
  <1>2. \E type \in Types, users \in SUBSET Users : Creates(h, u, type, users)
    <2>1. ASSUME NEW asked \in SUBSET Users, CreateConversation(h, u, asked)
          PROVE  \E type \in Types, users \in SUBSET Users : Creates(h, u, type, users)
      <3> DEFINE users == (asked \cap OrgUsers) \cup {u}
      <3>1. Classification(users) # NoId => Classification(users) \in Types
        BY DEF Classification, Types
      <3>2. Creates(h, u, Classification(users), users) /\ Classification(users) # NoId
        BY <2>1 DEF CreateConversation
      <3>3. users \in SUBSET Users
        OBVIOUS
      <3> HIDE DEF users
      <3> QED
        BY <3>1, <3>2, <3>3
    <2>2. ASSUME NEW selected \in Nullable(Staff), CreateResidentConversationWithManagement(h, u, selected)
          PROVE  \E type \in Types, users \in SUBSET Users : Creates(h, u, type, users)
      <3> DEFINE users == {u} \cup IF selected = NoId THEN Staff ELSE {selected}
      <3>1. Creates(h, u, "MANAGEMENT_TENANT", users)
        BY <2>2 DEF CreateResidentConversationWithManagement
      <3>2. users \in SUBSET Users /\ "MANAGEMENT_TENANT" \in Types
        BY <1>1, <2>2 DEF Nullable, Types
      <3> HIDE DEF users
      <3> QED
        BY <3>1, <3>2
    <2>3. ASSUME CreateResidentConversationWithOwner(h, u)
          PROVE  \E type \in Types, users \in SUBSET Users : Creates(h, u, type, users)
      <3>1. Creates(h, u, "OWNER_TENANT", {u} \cup OwnerUsers)
        BY <2>3 DEF CreateResidentConversationWithOwner
      <3>2. {u} \cup OwnerUsers \in SUBSET Users /\ "OWNER_TENANT" \in Types
        BY <1>1 DEF Types
      <3> QED
        BY <3>1, <3>2
    <2>4. ASSUME CreateOwnerConversationWithManagement(h, u)
          PROVE  \E type \in Types, users \in SUBSET Users : Creates(h, u, type, users)
      <3>1. Creates(h, u, "MANAGEMENT_OWNER", {u} \cup Staff)
        BY <2>4 DEF CreateOwnerConversationWithManagement
      <3>2. {u} \cup Staff \in SUBSET Users /\ "MANAGEMENT_OWNER" \in Types
        BY <1>1 DEF Types
      <3> QED
        BY <3>1, <3>2
    <2>5. ASSUME NEW tenant \in Tenants, CreateOwnerConversationWithTenant(h, u, tenant)
          PROVE  \E type \in Types, users \in SUBSET Users : Creates(h, u, type, users)
      <3>1. Creates(h, u, "OWNER_TENANT", {u, tenant})
        BY <2>5 DEF CreateOwnerConversationWithTenant
      <3>2. {u, tenant} \in SUBSET Users /\ "OWNER_TENANT" \in Types
        BY <1>1 DEF Types
      <3> QED
        BY <3>1, <3>2
    <2> QED
      BY <2>1, <2>2, <2>3, <2>4, <2>5
  <1> QED
    BY <1>2, CreatesInv

\* A message is sent to a conversation, or the conversation read, by a participant.
LEMMA UseInv ==
    ASSUME Inv, NEW h \in Handlers, NEW u \in Users, NEW c \in Conversation,
           SendMessage(h, u, c) \/ MarkAsRead(h, u, c)
    PROVE  Inv'
  <1> DEFINE send == [Idle EXCEPT !.pc = "insert", !.user = u, !.conv = c]
             mark == [Idle EXCEPT !.pc = "markRead", !.user = u, !.conv = c]
  <1>1. send \in Job /\ send.pc = "insert" /\ send.user = u /\ send.message = NoId /\ send.conv = c
    BY IdleOK DEF Idle, Job, Nullable
  <1>2. mark \in Job /\ mark.pc = "markRead" /\ mark.user = u /\ mark.message = NoId /\ mark.conv = c
    BY IdleOK DEF Idle, Job, Nullable
  <1>3. /\ Begin(h, send) \/ Begin(h, mark)
        /\ UNCHANGED <<now, resides, conv, message, lastRead, notice>> /\ u \in conv[c].users
    BY DEF SendMessage, MarkAsRead, MayUse
  <1>4. conv[c].type # NoId
    BY <1>3 DEF Inv, ConvsOK
  <1> HIDE DEF send, mark
  <1> QED
    BY <1>1, <1>2, <1>3, <1>4, BeginInv

------------------------------------------------------------------------------
(* Requests that write.                                                    *)

LEMMA StampTyped ==
    ASSUME Inv, NEW h \in Handlers, NEW stamp \in Stamps(h)
    PROVE  stamp \in Time /\ stamp \in Nat /\ job[h].stamp <= stamp /\ stamp <= now
  <1>1. now \in Nat /\ now \in 0..MaxTime /\ job[h].stamp \in Nat
    BY TypeFacts DEF Inv, Time
  <1> QED
    BY <1>1, ConversationsAssumption DEF Stamps, Time

\* A message that is new is owed by the request that wrote it.
LEMMA InsertInv ==
    ASSUME Inv, NEW h \in Handlers, job[h].message = NoId, job[h].pc # "idle",
           NEW c \in Conversation, NEW m \in Message, message[m].conv = NoId,
           message' = [message EXCEPT ![m] = [conv |-> c, sender |-> job[h].user, at |-> now]],
           UNCHANGED <<now, resides, notice>>, conv' \in [Conversation -> Row],
           lastRead' \in [Conversation -> [Users -> Time]], ConvsOK', ConvKept, conv'[c].type # NoId,
           \A x \in Conversation, u \in Users : conv[x].type # NoId => lastRead'[x][u] = lastRead[x][u],
           NEW new \in Job, Continue(h, new), new.pc \in {"markSender", "touch"}, new.user = job[h].user,
           new.conv = c, new.message = m
    PROVE  Inv'
  <1> DEFINE row == [conv |-> c, sender |-> job[h].user, at |-> now]
  <1>1. Alone(h) /\ job' \in [Handlers -> Job] /\ calm' = calm /\ whole' = whole /\ Stamped(job'[h], new)
    BY ContinueStep
  <1>2. JobOK(job[h]) /\ job[h].user \in Users /\ now \in Time /\ now \in Nat /\ NoId \notin Conversation
    BY TypeFacts, ConversationsAssumption DEF Inv, JobOK
  <1>3. row \in Text /\ row.conv = c /\ row.sender = job[h].user /\ row.at = now
    BY <1>2 DEF Text, Nullable
  <1> HIDE DEF row
  <1>4. /\ message' \in [Message -> Text] /\ message'[m] = row
        /\ \A x \in Message \ {m} : message'[x] = message[x]
    BY <1>3 DEF Inv, TypeOK, row
  <1>5. TypeOK'
    BY <1>1, <1>4 DEF Inv, TypeOK
  <1>6. TextKept /\ \A x \in Message : NoticeKept(x)
    BY <1>4 DEF TextKept, NoticeKept
  <1>7. TextsOK'
    <2> SUFFICES ASSUME NEW x \in Message
                 PROVE  /\ message'[x].conv = NoId => \A u \in Users : notice'[x][u].state = "none"
                        /\ message'[x].conv # NoId => /\ conv'[message'[x].conv].type # NoId
                                                      /\ message'[x].sender \in Users
                        /\ message'[x].at <= now'
      BY DEF TextsOK
    <2>1. CASE x = m
      BY <1>2, <1>3, <1>4, <2>1
    <2>2. CASE x # m
      <3>1. /\ message'[x] = message[x] /\ message[x].at <= now
            /\ message[x].conv = NoId => \A u \in Users : notice[x][u].state = "none"
            /\ message[x].conv # NoId => conv[message[x].conv].type # NoId /\ message[x].sender \in Users
        BY <1>4, <2>2 DEF Inv, TextsOK
      <3>2. message[x].conv # NoId => message[x].conv \in Conversation
        BY TypeFacts DEF Inv, Nullable
      <3> QED
        BY <3>1, <3>2 DEF ConvKept
    <2> QED
      BY <2>1, <2>2
  <1>8. JobOK(job[h])'
    <2>1. \A u \in Users : notice'[m][u].state = "none"
      BY DEF Inv, TextsOK
    <2>2. now <= now /\ now' = now
      BY <1>2
    <2>3. /\ job'[h].pc \in {"markSender", "touch"} /\ job'[h].conv = c /\ job'[h].message = m
          /\ job'[h].user = job[h].user /\ job'[h].stamp = now
      BY <1>1 DEF Stamped
    <2>4. message'[m].conv = c /\ message'[m].sender = job[h].user /\ message'[m].at = now
      BY <1>3, <1>4
    <2>5. m # NoId
      BY ConversationsAssumption
    <2> QED
      BY <1>2, <2>1, <2>2, <2>3, <2>4, <2>5 DEF JobOK, Writing
  <1>9. calm' => Ahead'
    BY <1>1, <1>5, <1>7, AheadNow DEF Stamped
  <1>10. calm' => Caught'
    <2> SUFFICES ASSUME calm', whole', NEW x \in Message, message'[x].conv # NoId, x # m
                 PROVE  ~Unread(x, message[x].sender)'
      BY <1>1 DEF Caught, Stamped, Writing
    <2>1. message'[x] = message[x] /\ message[x].conv # NoId
      BY <1>4
    <2>2. Caught /\ whole /\ \A k \in Handlers \ {h} : job[k].pc = "idle"
      BY <1>1 DEF Inv, Alone
    <2>3. \A k \in Handlers : job[k].message # x
      BY <2>2, ConversationsAssumption DEF Inv, JobOK, Writing
    <2>4. ~Unread(x, message[x].sender)
      BY <2>1, <2>2, <2>3 DEF Caught
    <2>5. /\ message[x].conv \in Conversation /\ conv[message[x].conv].type # NoId
          /\ message[x].sender \in Users
      BY <2>1, TypeFacts DEF Inv, TextsOK, Nullable
    <2> QED
      BY <2>1, <2>4, <2>5 DEF Unread
  <1>11. \A x \in Message : (message[x].conv = NoId /\ message'[x].conv # NoId) => job'[h].message = x
    BY <1>1, <1>4 DEF Stamped
  <1>12. \A x \in Message : x # NoId
    BY ConversationsAssumption
  <1>13. message[job'[h].message].conv = NoId
    BY <1>1 DEF Stamped
  <1> QED
    BY <1>1, <1>5, <1>6, <1>7, <1>8, <1>9, <1>10, <1>11, <1>12, <1>13, StepInv

LEMMA InsertConversationInv ==
    ASSUME Inv, NEW h \in Handlers, NEW c \in Conversation, NEW m \in Message,
           InsertConversation(h, c, m)
    PROVE  Inv'
  <1> DEFINE j == job[h]
             row == [type |-> j.type, users |-> j.users, updated |-> now]
             new == [j EXCEPT !.pc = "markSender", !.conv = c, !.message = m]
  <1>1. j \in Job /\ JobOK(j) /\ j.pc = "create" /\ conv[c].type = NoId /\ message[m].conv = NoId
    BY TypeFacts DEF Inv, InsertConversation, NewMessage
  <1>2. j.type \in Types /\ j.user \in Users /\ j.users \subseteq Users /\ j.message = NoId /\ now \in Time
    BY <1>1, TypeFacts DEF JobOK, Job, Writing, Inv
  <1>3. row \in Row /\ row.type = j.type /\ j.type # NoId
    BY <1>2, ConversationsAssumption DEF Row, Nullable
  <1>4. new \in Job /\ new.pc = "markSender" /\ new.user = j.user /\ new.conv = c /\ new.message = m
    BY <1>1 DEF Job, Nullable
  <1>5. PICK stamp \in Stamps(h) : lastRead' = [lastRead EXCEPT ![c][j.user] = stamp]
    BY DEF InsertConversation
  <1>6. /\ conv' = [conv EXCEPT ![c] = row] /\ Continue(h, new) /\ UNCHANGED <<now, resides, notice>>
        /\ message' = [message EXCEPT ![m] = [conv |-> c, sender |-> j.user, at |-> now]]
    BY DEF InsertConversation
  <1>7. conv \in [Conversation -> Row] /\ lastRead \in [Conversation -> [Users -> Time]]
    BY DEF Inv, TypeOK
  <1> HIDE DEF new, row
  <1>8. /\ conv' \in [Conversation -> Row] /\ conv'[c] = row
        /\ \A x \in Conversation \ {c} : conv'[x] = conv[x]
    BY <1>3, <1>6, <1>7
  <1>9. /\ lastRead' \in [Conversation -> [Users -> Time]]
        /\ \A x \in Conversation \ {c} : lastRead'[x] = lastRead[x]
    BY <1>2, <1>5, <1>7, StampTyped
  <1>10. ConvsOK' /\ ConvKept
    BY <1>1, <1>3, <1>8 DEF Inv, ConvsOK, ConvKept
  <1>11. conv'[c].type # NoId
    BY <1>3, <1>8
  <1>12. \A x \in Conversation, u \in Users : conv[x].type # NoId => lastRead'[x][u] = lastRead[x][u]
    BY <1>1, <1>9
  <1> QED
    BY <1>1, <1>2, <1>4, <1>6, <1>8, <1>9, <1>10, <1>11, <1>12, InsertInv

LEMMA InsertMessageInv ==
    ASSUME Inv, NEW h \in Handlers, NEW m \in Message, InsertMessage(h, m)
    PROVE  Inv'
  <1> DEFINE j == job[h]
             new == [j EXCEPT !.pc = "touch", !.message = m]
  <1>1. j \in Job /\ JobOK(j) /\ j.pc = "insert" /\ message[m].conv = NoId
    BY TypeFacts DEF Inv, InsertMessage, NewMessage
  <1>2. j.conv \in Conversation /\ conv[j.conv].type # NoId /\ j.message = NoId
    BY <1>1 DEF JobOK, Writing
  <1>3. new \in Job /\ new.pc = "touch" /\ new.user = j.user /\ new.conv = j.conv /\ new.message = m
    BY <1>1 DEF Job, Nullable
  <1>4. /\ Continue(h, new) /\ UNCHANGED <<now, resides, conv, lastRead, notice>>
        /\ message' = [message EXCEPT ![m] = [conv |-> j.conv, sender |-> j.user, at |-> now]]
    BY DEF InsertMessage
  <1> HIDE DEF new
  <1>5. conv' \in [Conversation -> Row] /\ lastRead' \in [Conversation -> [Users -> Time]]
    BY <1>4 DEF Inv, TypeOK
  <1>6. ConvsOK' /\ ConvKept
    BY <1>4 DEF Inv, ConvsOK, ConvKept
  <1> QED
    BY <1>1, <1>2, <1>3, <1>4, <1>5, <1>6, InsertInv

LEMMA TouchConversationInv ==
    ASSUME Inv, NEW h \in Handlers, TouchConversation(h)
    PROVE  Inv'
  <1> DEFINE j == job[h]
             new == [j EXCEPT !.pc = "senderRead"]
  <1>1. j \in Job /\ JobOK(j) /\ j.pc = "touch"
    BY TypeFacts DEF Inv, TouchConversation
  <1>2. j.conv \in Conversation /\ conv[j.conv].type # NoId
    BY <1>1 DEF JobOK
  <1>3. /\ new \in Job /\ new.pc = "senderRead" /\ new.user = j.user /\ new.conv = j.conv
        /\ new.message = j.message
    BY <1>1 DEF Job
  <1>4. PICK stamp \in Stamps(h) : conv' = [conv EXCEPT ![j.conv].updated = stamp]
    BY DEF TouchConversation
  <1>5. Continue(h, new) /\ UNCHANGED <<now, resides, message, lastRead, notice>>
    BY DEF TouchConversation
  <1>6. conv \in [Conversation -> Row]
    BY DEF Inv, TypeOK
  <1> HIDE DEF new
  <1>7. /\ conv' \in [Conversation -> Row]
        /\ \A x \in Conversation : conv'[x].type = conv[x].type /\ conv'[x].users = conv[x].users
    BY <1>2, <1>4, <1>6, StampTyped DEF Row
  <1>8. Alone(h) /\ job' \in [Handlers -> Job] /\ calm' = calm /\ whole' = whole /\ Stamped(job'[h], new)
    BY <1>1, <1>3, <1>5, ContinueStep
  <1>9. TypeOK'
    BY <1>5, <1>7, <1>8 DEF Inv, TypeOK
  <1>10. ConvsOK' /\ ConvKept /\ TextKept /\ \A m \in Message : NoticeKept(m)
    BY <1>5, <1>7 DEF Inv, ConvsOK, ConvKept, TextKept, NoticeKept
  <1>11. TextsOK'
    <2>1. \A m \in Message : message[m].conv # NoId => message[m].conv \in Conversation
      BY TypeFacts DEF Inv, Nullable
    <2> QED
      BY <1>5, <1>7, <2>1 DEF Inv, TextsOK
  <1>12. JobOK(job[h])'
    <2>1. now \in Nat /\ now <= now
      BY TypeFacts DEF Inv
    <2> QED
      BY <1>1, <1>2, <1>3, <1>5, <1>7, <1>8, <2>1 DEF JobOK, Writing, Stamped
  <1>13. calm' => Ahead'
    BY <1>5, <1>8, <1>9, <1>11, AheadNow DEF Stamped
  <1>14. calm' => Caught'
    BY <1>1, <1>3, <1>5, <1>8 DEF Inv, Caught, Unread, Alone, Writing, Stamped
  <1>15. job'[h].message = job[h].message
    BY <1>3, <1>8 DEF Stamped
  <1> QED
    BY <1>5, <1>8, <1>9, <1>10, <1>11, <1>12, <1>13, <1>14, <1>15, StepInv

\* The time a request at work writes as read covers every message.
LEMMA ReadCaught ==
    ASSUME Inv, NEW h \in Handlers, job[h].pc \notin {"idle", "create"}, NEW s \in Time, job[h].stamp <= s,
           lastRead' = [lastRead EXCEPT ![job[h].conv][job[h].user] = s], UNCHANGED message, Alone(h)
    PROVE  calm' => Caught'
  <1> SUFFICES ASSUME calm', whole', NEW m \in Message, message[m].conv # NoId
               PROVE  ~Unread(m, message[m].sender)'
    BY DEF Caught
  <1>1. PICK c \in Conversation, u \in Users : c = job[h].conv /\ u = job[h].user
    BY DEF Inv, JobOK
  <1>2. /\ message[m].conv \in Conversation /\ message[m].sender \in Users
        /\ message[m].at \in Nat /\ job[h].stamp \in Nat /\ s \in Nat
    BY TypeFacts DEF Inv, TextsOK, Nullable, Time
  <1>3. lastRead \in [Conversation -> [Users -> Time]]
    BY DEF Inv, TypeOK
  <1>4. /\ lastRead'[c][u] = s
        /\ \A x \in Conversation, v \in Users : (x # c \/ v # u) => lastRead'[x][v] = lastRead[x][v]
    BY <1>1, <1>3
  <1>5. calm /\ whole /\ Ahead /\ Caught /\ \A k \in Handlers \ {h} : job[k].pc = "idle"
    BY DEF Inv, Alone
  <1>6. CASE message[m].conv = c /\ message[m].sender = u
    <2>1. message[m].at <= job[h].stamp
      BY <1>5 DEF Ahead
    <2>2. ~(message[m].at > s)
      BY <1>2, <2>1
    <2> QED
      BY <1>4, <1>6, <2>2 DEF Unread
  <1>7. CASE ~(message[m].conv = c /\ message[m].sender = u)
    <2>1. \A k \in Handlers : ~(job[k].message = m /\ job[k].pc \in Writing)
      <3> SUFFICES ASSUME NEW k \in Handlers, job[k].message = m, job[k].pc \in Writing PROVE FALSE
        OBVIOUS
      <3>1. k = h
        BY <1>5 DEF Writing
      <3>2. m # NoId
        BY ConversationsAssumption
      <3> QED
        BY <1>1, <1>7, <3>1, <3>2 DEF Inv, JobOK
    <2>2. ~Unread(m, message[m].sender)
      BY <1>5, <2>1 DEF Caught
    <2> QED
      BY <1>2, <1>4, <1>7, <2>2 DEF Unread
  <1> QED
    BY <1>6, <1>7

\* The author's own mark is written, and the others are told from now on.
LEMMA SenderInv ==
    ASSUME Inv, NEW h \in Handlers, job[h].pc \in {"markSender", "senderRead"},
           NEW s \in Time, job[h].stamp <= s,
           lastRead' = [lastRead EXCEPT ![job[h].conv][job[h].user] = s],
           StartNotifying(h), UNCHANGED <<now, resides, conv, message, notice>>
    PROVE  Inv'
  <1> DEFINE users == Recipients(job[h].conv, job[h].user)
             new == [job[h] EXCEPT !.pc = "notify", !.users = users]
  <1>1. job[h] \in Job /\ JobOK(job[h]) /\ job[h].pc \in Writing
    BY TypeFacts DEF Inv, Writing
  <1>2. PICK c \in Conversation, u \in Users, m \in Message :
          /\ c = job[h].conv /\ u = job[h].user /\ m = job[h].message /\ m # NoId
          /\ conv[c].type # NoId /\ message[m].conv = c /\ message[m].sender = u
          /\ \A v \in Users : notice[m][v].state = "none"
    BY <1>1 DEF JobOK, Job, Nullable, Writing
  <1>3. users \subseteq Users /\ users = conv[c].users \ {u}
    BY <1>2, TypeFacts DEF Recipients, Row, Inv
  <1>4. new \in Job /\ new.pc = "notify" /\ new.users = users /\ new.conv = c /\ new.user = u /\ new.message = m
    BY <1>1, <1>2, <1>3 DEF Job
  <1>5. IF users = {} THEN Finish(h) ELSE Continue(h, new)
    BY DEF StartNotifying
  <1>6. lastRead' \in [Conversation -> [Users -> Time]]
    BY <1>2 DEF Inv, TypeOK
  <1>7. ConvsOK' /\ TextsOK' /\ ConvKept /\ TextKept /\ \A x \in Message : NoticeKept(x)
    BY RowsSame
  <1>8. now \in Nat /\ now <= now
    BY TypeFacts DEF Inv
  <1> HIDE DEF users, new
  <1>9. CASE users = {}
    <2>1. Alone(h) /\ job' \in [Handlers -> Job] /\ calm' = calm /\ whole' = whole /\ job'[h] = Idle
      BY <1>1, <1>5, <1>9, FinishStep DEF Writing
    <2>2. TypeOK'
      BY <1>6, <2>1 DEF Inv, TypeOK
    <2>3. JobOK(job[h])'
      BY <2>1, <2>2, IdleJobOK
    <2>4. Notified(m)'
      BY <1>2, <1>3, <1>9 DEF Notified
    <2>5. calm' => Ahead' /\ Caught'
      BY <1>1, <1>7, <2>1, <2>2, IdleOK, AheadNow, ReadCaught DEF Writing
    <2>6. \A x \in Message : (whole' /\ x = job[h].message /\ x # job'[h].message) => Notified(x)'
      BY <1>2, <2>4
    <2> QED
      BY <1>7, <2>1, <2>2, <2>3, <2>5, <2>6, IdleOK, StepInv
  <1>10. CASE users # {}
    <2>1. Alone(h) /\ job' \in [Handlers -> Job] /\ calm' = calm /\ whole' = whole /\ Stamped(job'[h], new)
      BY <1>1, <1>4, <1>5, <1>10, ContinueStep DEF Writing
    <2>2. TypeOK'
      BY <1>6, <2>1 DEF Inv, TypeOK
    <2>3. /\ job'[h].pc = "notify" /\ job'[h].conv = c /\ job'[h].user = u /\ job'[h].message = m
          /\ job'[h].users = users /\ job'[h].stamp = now
      BY <1>4, <2>1 DEF Stamped
    <2>4. JobOK(job[h])'
      BY <1>2, <1>3, <1>8, <2>3 DEF JobOK, Writing, Recipients
    <2>5. calm' => Ahead' /\ Caught'
      BY <1>1, <1>7, <2>1, <2>2, <2>3, AheadNow, ReadCaught DEF Writing
    <2>6. job'[h].message = job[h].message
      BY <1>2, <2>3
    <2> QED
      BY <1>7, <2>1, <2>2, <2>4, <2>5, <2>6, StepInv
  <1> QED
    BY <1>9, <1>10

LEMMA SenderStepsInv ==
    ASSUME Inv, NEW h \in Handlers, MarkSender(h) \/ SenderRead(h)
    PROVE  Inv'
  <1>1. CASE MarkSender(h)
    <2> DEFINE s == message[job[h].message].at
    <2>1. /\ job[h].pc = "markSender" /\ lastRead' = [lastRead EXCEPT ![job[h].conv][job[h].user] = s]
          /\ StartNotifying(h) /\ UNCHANGED <<now, resides, conv, message, notice>>
      BY <1>1 DEF MarkSender
    <2>2. s = job[h].stamp /\ s \in Time /\ s \in Nat
      BY <2>1, TypeFacts DEF Inv, JobOK
    <2>3. job[h].stamp <= s
      BY <2>2
    <2> HIDE DEF s
    <2> QED
      BY <2>1, <2>2, <2>3, SenderInv
  <1>2. CASE SenderRead(h)
    <2>1. PICK s \in Stamps(h) : lastRead' = [lastRead EXCEPT ![job[h].conv][job[h].user] = s]
      BY <1>2 DEF SenderRead
    <2>2. /\ job[h].pc = "senderRead" /\ StartNotifying(h)
          /\ UNCHANGED <<now, resides, conv, message, notice>>
      BY <1>2 DEF SenderRead
    <2> QED
      BY <2>1, <2>2, StampTyped, SenderInv
  <1> QED
    BY <1>1, <1>2

LEMMA MarkConversationAsReadInv ==
    ASSUME Inv, NEW h \in Handlers, MarkConversationAsRead(h)
    PROVE  Inv'
  <1>1. PICK s \in Stamps(h) : lastRead' = [lastRead EXCEPT ![job[h].conv][job[h].user] = s]
    BY DEF MarkConversationAsRead
  <1>2. s \in Time /\ job[h].stamp <= s
    BY StampTyped
  <1>3. job[h].pc = "markRead" /\ Finish(h) /\ UNCHANGED <<now, resides, conv, message, notice>>
    BY DEF MarkConversationAsRead
  <1>4. job[h].conv \in Conversation /\ job[h].user \in Users /\ job[h].message = NoId
    BY <1>3 DEF Inv, JobOK, Writing
  <1>5. Alone(h) /\ job' \in [Handlers -> Job] /\ calm' = calm /\ whole' = whole /\ job'[h] = Idle
    BY <1>3, FinishStep
  <1>6. lastRead' \in [Conversation -> [Users -> Time]]
    BY <1>1, <1>2, <1>4 DEF Inv, TypeOK
  <1>7. TypeOK'
    BY <1>3, <1>5, <1>6 DEF Inv, TypeOK
  <1>8. ConvsOK' /\ TextsOK' /\ ConvKept /\ TextKept /\ \A x \in Message : NoticeKept(x)
    BY <1>3, RowsSame
  <1>9. JobOK(job[h])'
    BY <1>5, <1>7, IdleJobOK
  <1>10. calm' => Ahead' /\ Caught'
    BY <1>1, <1>2, <1>3, <1>5, <1>7, <1>8, IdleOK, AheadNow, ReadCaught
  <1>11. \A x \in Message : x # NoId
    BY ConversationsAssumption
  <1> QED
    BY <1>3, <1>4, <1>5, <1>7, <1>8, <1>9, <1>10, <1>11, IdleOK, StepInv

\* One more recipient has the notification; the last one ends the request.
LEMMA NotifyInv ==
    ASSUME Inv, NEW h \in Handlers, NEW u \in Users, Notify(h, u)
    PROVE  Inv'
  <1> DEFINE rest == job[h].users \ {u}
             new == [job[h] EXCEPT !.users = rest]
  <1>1. job[h] \in Job /\ JobOK(job[h]) /\ job[h].pc = "notify" /\ u \in job[h].users
    BY TypeFacts DEF Inv, Notify
  <1>2. PICK c \in Conversation, a \in Users, m \in Message :
          /\ c = job[h].conv /\ a = job[h].user /\ m = job[h].message /\ m # NoId
          /\ conv[c].type # NoId /\ message[m].conv = c /\ message[m].sender = a
          /\ job[h].users \subseteq conv[c].users \ {a}
          /\ \A v \in Users : notice[m][v].state # "none" <=> v \in (conv[c].users \ {a}) \ job[h].users
    BY <1>1 DEF JobOK, Job, Nullable, Writing, Recipients
  <1>3. /\ new \in Job /\ new.pc = "notify" /\ new.users = rest /\ new.conv = c /\ new.user = a
        /\ new.message = m
    BY <1>1, <1>2 DEF Job
  <1>4. /\ IF rest = {} THEN Finish(h) ELSE Continue(h, new)
        /\ notice' = [notice EXCEPT ![m][u] = [state |-> "unread", dismissed |-> FALSE]]
        /\ UNCHANGED <<now, resides, conv, message, lastRead>>
    BY <1>2 DEF Notify
  <1>5. notice \in [Message -> [Users -> Notice]] /\ [state |-> "unread", dismissed |-> FALSE] \in Notice
    BY DEF Inv, TypeOK, Notice
  <1>6. /\ notice' \in [Message -> [Users -> Notice]] /\ notice'[m][u].state = "unread"
        /\ \A v \in Users \ {u} : notice'[m][v] = notice[m][v]
        /\ \A x \in Message \ {m} : notice'[x] = notice[x]
    BY <1>4, <1>5
  <1>7. \A x \in Message : x # m => NoticeKept(x)
    BY <1>6 DEF NoticeKept
  <1>8. ConvsOK' /\ ConvKept /\ TextKept
    BY <1>4 DEF Inv, ConvsOK, ConvKept, TextKept
  <1>9. TextsOK'
    <2>1. message[m].conv # NoId
      BY <1>2, ConversationsAssumption
    <2> QED
      BY <1>4, <1>6, <2>1 DEF Inv, TextsOK
  <1>10. \A v \in Users : notice'[m][v].state # "none" <=> v \in (conv[c].users \ {a}) \ rest
    BY <1>1, <1>2, <1>6
  <1>11. now \in Nat /\ now <= now
    BY TypeFacts DEF Inv
  <1>12. Alone(h) /\ calm' => Caught'
    <2> SUFFICES ASSUME Alone(h), calm', whole', NEW x \in Message, message[x].conv # NoId
                 PROVE  ~Unread(x, message[x].sender)'
      BY <1>4 DEF Caught
    <2>1. Caught /\ whole /\ \A k \in Handlers \ {h} : job[k].pc = "idle"
      BY DEF Inv, Alone
    <2>2. \A k \in Handlers : job[k].pc \notin Writing
      BY <1>1, <2>1 DEF Writing
    <2> QED
      BY <1>4, <2>1, <2>2 DEF Caught, Unread
  <1> HIDE DEF rest, new
  <1>13. CASE rest = {}
    <2>1. Alone(h) /\ job' \in [Handlers -> Job] /\ calm' = calm /\ whole' = whole /\ job'[h] = Idle
      BY <1>1, <1>4, <1>13, FinishStep
    <2>2. TypeOK'
      BY <1>4, <1>6, <2>1 DEF Inv, TypeOK
    <2>3. JobOK(job[h])'
      BY <2>1, <2>2, IdleJobOK
    <2>4. Notified(m)'
      BY <1>2, <1>4, <1>10, <1>13 DEF Notified
    <2>5. calm' => Ahead' /\ Caught'
      BY <1>9, <1>12, <2>1, <2>2, IdleOK, AheadNow
    <2>6. \A x \in Message : (whole' /\ x = job[h].message /\ x # job'[h].message) => Notified(x)'
      BY <1>2, <2>4
    <2> QED
      BY <1>2, <1>4, <1>7, <1>8, <1>9, <2>1, <2>2, <2>3, <2>5, <2>6, IdleOK, StepInv
  <1>14. CASE rest # {}
    <2>1. Alone(h) /\ job' \in [Handlers -> Job] /\ calm' = calm /\ whole' = whole /\ Stamped(job'[h], new)
      BY <1>1, <1>3, <1>4, <1>14, ContinueStep
    <2>2. TypeOK'
      BY <1>4, <1>6, <2>1 DEF Inv, TypeOK
    <2>3. /\ job'[h].pc = "notify" /\ job'[h].conv = c /\ job'[h].user = a /\ job'[h].message = m
          /\ job'[h].users = rest /\ job'[h].stamp = now
      BY <1>3, <2>1 DEF Stamped
    <2>4. rest \subseteq conv[c].users \ {a}
      BY <1>2 DEF rest
    <2>5. JobOK(job[h])'
      BY <1>2, <1>4, <1>10, <1>11, <2>3, <2>4 DEF JobOK, Writing, Recipients
    <2>6. calm' => Ahead' /\ Caught'
      BY <1>4, <1>9, <1>12, <2>1, <2>2, <2>3, AheadNow
    <2>7. job'[h].message = job[h].message
      BY <1>2, <2>3
    <2> QED
      BY <1>2, <1>4, <1>7, <1>8, <1>9, <2>1, <2>2, <2>5, <2>6, <2>7, StepInv
  <1> QED
    BY <1>13, <1>14

LEMMA AbandonInv ==
    ASSUME Inv, NEW h \in Handlers, Abandon(h)
    PROVE  Inv'
  <1>1. /\ job[h].pc # "idle" /\ job' = [job EXCEPT ![h] = Idle] /\ whole' = FALSE
        /\ UNCHANGED <<now, resides, conv, message, lastRead, notice, calm>>
    BY DEF Abandon
  <1>2. job \in [Handlers -> Job] /\ (calm => Lone)
    BY DEF Inv, TypeOK
  <1>3. job' \in [Handlers -> Job] /\ job'[h] = Idle /\ \A k \in Handlers \ {h} : job'[k] = job[k]
    BY <1>1, <1>2, IdleOK
  <1>4. Alone(h)
    BY <1>1, <1>2, <1>3 DEF Alone, Lone
  <1>5. TypeOK'
    BY <1>1, <1>3 DEF Inv, TypeOK
  <1>6. ConvsOK' /\ TextsOK' /\ ConvKept /\ TextKept /\ \A m \in Message : NoticeKept(m)
    BY <1>1, RowsSame
  <1>7. JobOK(job[h])'
    BY <1>3, <1>5, IdleJobOK
  <1>8. calm' => Ahead' /\ Caught'
    BY <1>1, <1>3, <1>4, <1>5, <1>6, IdleOK, AheadNow DEF Caught
  <1> QED
    BY <1>1, <1>3, <1>4, <1>5, <1>6, <1>7, <1>8, IdleOK, ConversationsAssumption, StepInv

------------------------------------------------------------------------------
(* Steps of no request: the clock, a tenant moving out and what people do  *)
(* with their notifications.                                               *)

LEMMA ElsewhereInv ==
    ASSUME Inv, TypeOK', now <= now', UNCHANGED <<conv, message, lastRead, job, calm, whole>>,
           \A m \in Message : NoticeKept(m)
    PROVE  Inv'
  <1>1. now \in Nat /\ now' \in Nat
    BY TypeFacts DEF Inv, TypeOK, Time
  <1>2. ConvsOK' /\ ConvKept /\ TextKept
    BY DEF Inv, ConvsOK, ConvKept, TextKept
  <1>3. TextsOK'
    <2> SUFFICES ASSUME NEW m \in Message
                 PROVE  /\ message[m].conv = NoId => \A u \in Users : notice'[m][u].state = "none"
                        /\ message[m].conv # NoId => conv[message[m].conv].type # NoId /\ message[m].sender \in Users
                        /\ message[m].at <= now'
      BY DEF TextsOK
    <2>1. message[m].at \in Nat /\ message[m].at <= now
      BY TypeFacts DEF Inv, TextsOK
    <2>2. message[m].at <= now'
      BY <1>1, <2>1
    <2> QED
      BY <2>2 DEF Inv, TextsOK, NoticeKept
  <1>4. \A k \in Handlers : JobOK(job[k])'
    <2> SUFFICES ASSUME NEW k \in Handlers PROVE JobOK(job[k])'
      OBVIOUS
    <2>1. PICK j \in Job : j = job[k] /\ JobOK(job[k]) /\ j.stamp \in Nat
      BY TypeFacts DEF Inv
    <2>2. j.message # NoId => NoticeKept(j.message)
      BY DEF Job, Nullable
    <2>3. JobOK(j)'
      BY <1>2, <2>1, <2>2, JobKept DEF Inv, JobOK, Recipients
    <2> QED
      BY <2>1, <2>3 DEF JobOK, Recipients
  <1>5. Told'
    BY DEF Inv, Told, Notified, NoticeKept
  <1>6. Apart' /\ (calm' => Lone' /\ Ahead' /\ Caught')
    BY DEF Inv, Apart, Lone, Ahead, Caught, Unread
  <1> QED
    BY <1>2, <1>3, <1>4, <1>5, <1>6 DEF Inv

LEMMA NoticeInv ==
    ASSUME Inv, NoticeStep
    PROVE  Inv'
  <1>1. PICK u \in Users :
          ReadAll(u) \/ \E m \in Message : ReadOne(m, u) \/ MarkDismissed(m, u) \/ ClearDismissed(m, u)
    BY DEF NoticeStep, MarkAllRead, MarkAllReadAcrossOrgs, MarkRead, MarkReadAcrossOrgs, Dismiss,
           DismissAcrossOrgs, Undismiss, UndismissAcrossOrgs
  <1>2. UNCHANGED <<now, resides, conv, message, lastRead, job, calm, whole>>
    BY <1>1 DEF ReadAll, ReadOne, MarkDismissed, ClearDismissed, Others
  <1>3. notice \in [Message -> [Users -> Notice]]
    BY DEF Inv, TypeOK
  <1>4. notice' \in [Message -> [Users -> Notice]] /\ \A x \in Message : NoticeKept(x)
    <2>1. CASE ReadAll(u)
      <3>1. \A x \in Message :
              /\ [notice[x] EXCEPT ![u].state = "read"] \in [Users -> Notice]
              /\ [notice[x] EXCEPT ![u].state = "read"][u].state = "read"
              /\ \A v \in Users \ {u} : [notice[x] EXCEPT ![u].state = "read"][v] = notice[x][v]
        BY <1>3 DEF Notice
      <3>2. notice' = [x \in Message |-> IF notice[x][u] = Fresh THEN [notice[x] EXCEPT ![u].state = "read"]
                                         ELSE notice[x]]
        BY <2>1 DEF ReadAll
      <3>3. \A x \in Message : notice[x][u] = Fresh => notice[x][u].state # "none"
        BY DEF Fresh
      <3>4. notice' \in [Message -> [Users -> Notice]]
        BY <1>3, <3>1, <3>2
      <3>5. ASSUME NEW x \in Message PROVE NoticeKept(x)
        <4>1. CASE notice[x][u] = Fresh
          <5>1. notice'[x] = [notice[x] EXCEPT ![u].state = "read"]
            BY <3>2, <4>1
          <5>2. notice'[x][u].state = "read" /\ \A v \in Users \ {u} : notice'[x][v] = notice[x][v]
            BY <3>1, <5>1
          <5> QED
            BY <3>3, <4>1, <5>2 DEF NoticeKept
        <4>2. CASE notice[x][u] # Fresh
          <5>1. notice'[x] = notice[x]
            BY <3>2, <4>2
          <5> QED
            BY <5>1 DEF NoticeKept
        <4> QED
          BY <4>1, <4>2
      <3> QED
        BY <3>4, <3>5
    <2>2. ASSUME NEW m \in Message, ReadOne(m, u) \/ MarkDismissed(m, u) \/ ClearDismissed(m, u)
          PROVE  notice' \in [Message -> [Users -> Notice]] /\ \A x \in Message : NoticeKept(x)
      <3>1. PICK n \in Notice :
              notice' = [notice EXCEPT ![m][u] = n] /\ (n.state # "none" <=> notice[m][u].state # "none")
        <4>1. notice[m][u] \in Notice
          BY <1>3
        <4>2. CASE ReadOne(m, u)
          <5> DEFINE n == [notice[m][u] EXCEPT !.state = "read"]
          <5>1. notice[m][u] = Fresh /\ Fresh.state = "unread"
            BY <4>2 DEF ReadOne, Fresh
          <5>2. n \in Notice /\ n.state = "read"
            BY <4>1 DEF Notice
          <5>3. n.state # "none" /\ notice[m][u].state # "none"
            BY <5>1, <5>2
          <5>4. notice' = [notice EXCEPT ![m][u] = n]
            BY <4>2 DEF ReadOne
          <5> HIDE DEF n
          <5> QED
            BY <5>2, <5>3, <5>4
        <4>3. CASE MarkDismissed(m, u)
          <5> DEFINE n == [notice[m][u] EXCEPT !.dismissed = TRUE]
          <5>1. n \in Notice /\ n.state = notice[m][u].state
            BY <4>1 DEF Notice
          <5>2. notice' = [notice EXCEPT ![m][u] = n]
            BY <4>3 DEF MarkDismissed
          <5> QED
            BY <5>1, <5>2
        <4>4. CASE ClearDismissed(m, u)
          <5> DEFINE n == [notice[m][u] EXCEPT !.dismissed = FALSE]
          <5>1. n \in Notice /\ n.state = notice[m][u].state
            BY <4>1 DEF Notice
          <5>2. notice' = [notice EXCEPT ![m][u] = n]
            BY <4>4 DEF ClearDismissed
          <5> QED
            BY <5>1, <5>2
        <4> QED
          BY <2>2, <4>2, <4>3, <4>4
      <3>2. /\ notice' \in [Message -> [Users -> Notice]] /\ notice'[m][u] = n
            /\ \A v \in Users \ {u} : notice'[m][v] = notice[m][v]
            /\ \A x \in Message \ {m} : notice'[x] = notice[x]
        BY <1>3, <3>1
      <3> QED
        BY <3>1, <3>2 DEF NoticeKept
    <2> QED
      BY <1>1, <2>1, <2>2
  <1>5. TypeOK'
    BY <1>2, <1>4 DEF Inv, TypeOK
  <1>6. now \in Nat /\ now <= now'
    BY <1>2, TypeFacts DEF Inv
  <1> QED
    BY <1>2, <1>4, <1>5, <1>6, ElsewhereInv

LEMMA OutsideInv ==
    ASSUME Inv, Tick \/ (\E u \in Tenants : MoveOut(u)) \/ UNCHANGED vars
    PROVE  Inv'
  <1>1. /\ UNCHANGED <<conv, message, lastRead, notice, job, calm, whole>>
        /\ now' = now \/ (now < MaxTime /\ now' = now + 1)
        /\ resides' \subseteq resides
    BY DEF Tick, MoveOut, vars
  <1>2. now \in Nat /\ now \in 0..MaxTime
    BY TypeFacts DEF Inv, Time
  <1>3. now' \in Time /\ now <= now'
    BY <1>1, <1>2, ConversationsAssumption DEF Time
  <1>4. TypeOK'
    BY <1>1, <1>3 DEF Inv, TypeOK
  <1>5. \A m \in Message : NoticeKept(m)
    BY <1>1 DEF NoticeKept
  <1> QED
    BY <1>1, <1>3, <1>4, <1>5, ElsewhereInv

------------------------------------------------------------------------------
(* Results.                                                                *)

LEMMA InitInv == Init => Inv
  <1> SUFFICES ASSUME Init PROVE Inv
    OBVIOUS
  <1>1. 0 \in Time /\ 1 \in Time /\ 0 <= 1
    BY ConversationsAssumption DEF Time
  <1>2. TypeOK
    <2>1. [type |-> NoId, users |-> {}, updated |-> 0] \in Row
      BY <1>1 DEF Row, Nullable
    <2>2. [conv |-> NoId, sender |-> NoId, at |-> 0] \in Text
      BY <1>1 DEF Text, Nullable
    <2>3. [state |-> "none", dismissed |-> FALSE] \in Notice
      BY DEF Notice
    <2>4. conv \in [Conversation -> Row] /\ message \in [Message -> Text]
      BY <2>1, <2>2 DEF Init
    <2>5. lastRead \in [Conversation -> [Users -> Time]] /\ notice \in [Message -> [Users -> Notice]]
      BY <1>1, <2>3 DEF Init
    <2>6. job \in [Handlers -> Job]
      BY IdleOK DEF Init
    <2> QED
      BY <1>1, <2>4, <2>5, <2>6 DEF Init, TypeOK
  <1>3. \A h \in Handlers : job[h] = Idle
    BY DEF Init
  <1>4. ConvsOK /\ TextsOK
    BY <1>1 DEF Init, ConvsOK, TextsOK
  <1>5. \A h \in Handlers : JobOK(job[h])
    <2>1. now = 1 /\ 0 <= now
      BY <1>1 DEF Init
    <2> QED
      BY <1>3, <2>1, IdleOK DEF JobOK, Writing
  <1>6. \A m \in Message : message[m].conv = NoId
    BY DEF Init
  <1> QED
    BY <1>2, <1>3, <1>4, <1>5, <1>6, IdleOK DEF Inv, Apart, Told, Lone, Ahead, Caught

LEMMA NextInv ==
    ASSUME Inv, [Next]_vars
    PROVE  Inv'
  <1>1. ASSUME NEW h \in Handlers, Request(h) PROVE Inv'
    <2>1. ASSUME NEW u \in Users,
                 \/ \E asked \in SUBSET Users : CreateConversation(h, u, asked)
                 \/ \E selected \in Nullable(Staff) : CreateResidentConversationWithManagement(h, u, selected)
                 \/ CreateResidentConversationWithOwner(h, u)
                 \/ CreateOwnerConversationWithManagement(h, u)
                 \/ \E tenant \in Tenants : CreateOwnerConversationWithTenant(h, u, tenant)
          PROVE  Inv'
      BY <2>1, CreationInv
    <2>2. ASSUME NEW u \in Users, NEW c \in Conversation, SendMessage(h, u, c) \/ MarkAsRead(h, u, c)
          PROVE  Inv'
      BY <2>2, UseInv
    <2>3. ASSUME NEW u \in Users, Notify(h, u) PROVE Inv'
      BY <2>3, NotifyInv
    <2>4. ASSUME NEW c \in Conversation, NEW m \in Message, InsertConversation(h, c, m) PROVE Inv'
      BY <2>4, InsertConversationInv
    <2>5. ASSUME NEW m \in Message, InsertMessage(h, m) PROVE Inv'
      BY <2>5, InsertMessageInv
    <2>6. CASE MarkSender(h) \/ SenderRead(h)
      BY <2>6, SenderStepsInv
    <2>7. CASE TouchConversation(h)
      BY <2>7, TouchConversationInv
    <2>8. CASE MarkConversationAsRead(h)
      BY <2>8, MarkConversationAsReadInv
    <2>9. CASE Abandon(h)
      BY <2>9, AbandonInv
    <2> QED
      BY <1>1, <2>1, <2>2, <2>3, <2>4, <2>5, <2>6, <2>7, <2>8, <2>9 DEF Request
  <1>2. CASE NoticeStep
    BY <1>2, NoticeInv
  <1>3. CASE Tick \/ (\E u \in Tenants : MoveOut(u)) \/ UNCHANGED vars
    BY <1>3, OutsideInv
  <1> QED
    BY <1>1, <1>2, <1>3 DEF Next

LEMMA InvHolds == Spec => []Inv
  <1>1. Init => Inv
    BY InitInv
  <1>2. Inv /\ [Next]_vars => Inv'
    BY NextInv
  <1> QED
    BY <1>1, <1>2, PTL DEF Spec

\* Rows and requests always have their types (Conversation, ConversationParticipant,
\* Message and Notification rows as the requests of messaging.service.ts leave them).
THEOREM TypeCorrect == Spec => []TypeOK
  <1>1. Inv => TypeOK
    BY DEF Inv
  <1> QED
    BY <1>1, InvHolds, PTL

\* When the request that wrote a message is over and none has died, exactly the other
\* participants have a notification of it, however requests overlap; and where they did
\* not overlap its author does not see it as unread (createConversation, addMessage,
\* createForUsers).
THEOREM EveryoneCaughtUp == Spec => []CaughtUp
  <1>1. Inv => CaughtUp
    <2> SUFFICES ASSUME Inv, whole, NEW m \in Message, message[m].conv # NoId,
                        \A h \in Handlers : job[h].message # m
                 PROVE  Notified(m) /\ (calm => ~Unread(m, message[m].sender))
      BY DEF CaughtUp, Notified
    <2>1. Notified(m)
      BY DEF Inv, Told
    <2>2. calm => ~Unread(m, message[m].sender)
      BY DEF Inv, Caught
    <2> QED
      BY <2>1, <2>2
  <1> QED
    BY <1>1, InvHolds, PTL
=============================================================================
