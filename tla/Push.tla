-------------------------------- MODULE Push ---------------------------------
(***************************************************************************)
(* Push notifications below a delivery task: registered devices, the       *)
(* tickets Expo gives for a message, and the monitor that looks up the     *)
(* receipts of those tickets later (modules/notifications).                *)
(*                                                                         *)
(* The monitor polls on a timer.  It takes the oldest pending receipts, in *)
(* the order of the last look-up and then of creation; PostgreSQL puts the *)
(* ones never looked up last.  That order is the relation line.            *)
(*                                                                         *)
(* Expo is external: it answers a ticket some time later, or never.        *)
(* Left out: texts, masked tokens, platforms, and other providers than     *)
(* Expo (nothing is sent to them).                                         *)
(***************************************************************************)
EXTENDS Naturals, FiniteSets

CONSTANTS
    PushUser,      \* users with a phone
    Token,         \* Expo push tokens
    Device,        \* ids of PushDevice rows
    Ticket,        \* tickets of Expo, numbered in the order they are given
    Take,          \* pending receipts of one poll
    MaxLost,       \* bound on the tickets Expo never answers
    MaxFaults,     \* bound on failed look-ups and monitors that stop half way
    Nobody

ASSUME PushAssumption ==
    /\ Ticket \subseteq Nat
    /\ Take \in Nat \ {0} /\ MaxLost \in Nat /\ MaxFaults \in Nat
    /\ MaxLost < Take
    /\ Nobody \notin PushUser \cup Token \cup Device

VARIABLES
    device,     \* device[d]: PushDevice row
    update,     \* an updateDevice that has read its device
    sender,     \* deliverToUsersNow of one task
    receipt,    \* receipt[k]: PushDeliveryReceipt row with ticket k
    line,       \* <<k, l>>: listPendingExpoReceipts has the pending k before the pending l
    young,      \* receipts created less than the look-up delay ago
    fresh,      \* receipts never looked up
    answer,     \* answer[k]: what Expo says of ticket k
    poll,       \* pollPendingReceipts
    faults      \* failed or unfinished polls so far

pushVars == <<device, update, sender, receipt, line, young, fresh, answer, poll, faults>>

DeviceRow == [user: PushUser \cup {Nobody}, token: Token \cup {Nobody}, active: BOOLEAN]
Update == [user: PushUser \cup {Nobody}, device: Device \cup {Nobody}, token: Token \cup {Nobody}]
Sender == [pc: {"idle", "send", "deactivate"}, devices: SUBSET Device]
Receipt == [status: {"none", "PENDING", "DELIVERED", "ERROR"}, device: Device \cup {Nobody}]
Answers == {"none", "lost", "ok", "error", "gone"}
Poll == [pc: {"idle", "fetch", "mark", "settle"}, ids: SUBSET Ticket, left: SUBSET Ticket,
         gone: SUBSET Device]

PushTypeOK ==
    /\ device \in [Device -> DeviceRow] /\ update \in Update /\ sender \in Sender
    /\ receipt \in [Ticket -> Receipt] /\ answer \in [Ticket -> Answers]
    /\ line \subseteq Ticket \X Ticket /\ young \subseteq Ticket /\ fresh \subseteq Ticket
    /\ poll \in Poll /\ faults \in 0..MaxFaults

NoUpdate == [user |-> Nobody, device |-> Nobody, token |-> Nobody]
NoSender == [pc |-> "idle", devices |-> {}]
NoPoll == [pc |-> "idle", ids |-> {}, left |-> {}, gone |-> {}]

PushInit ==
    /\ device = [d \in Device |-> [user |-> Nobody, token |-> Nobody, active |-> FALSE]]
    /\ update = NoUpdate /\ sender = NoSender /\ poll = NoPoll
    /\ receipt = [k \in Ticket |-> [status |-> "none", device |-> Nobody]]
    /\ answer = [k \in Ticket |-> "none"]
    /\ line = {} /\ young = {} /\ fresh = {} /\ faults = 0

------------------------------------------------------------------------------
(* Devices.                                                                *)

Receipts == <<sender, receipt, line, young, fresh, answer, poll, faults>>

\* upsert by token: a token that is known moves to whoever registers it
RegisterDevice(u, d, t) ==
    /\ device[d].token = t \/ (device[d].token = Nobody /\ \A e \in Device : device[e].token # t)
    /\ device' = [device EXCEPT ![d] = [user |-> u, token |-> t, active |-> TRUE]]
    /\ UNCHANGED <<update, Receipts>>

\* the token is the new one or the one that was read
UpdateDevice(u, d, t) ==
    /\ update = NoUpdate /\ device[d].user = u
    /\ update' = [user |-> u, device |-> d, token |-> t]
    /\ UNCHANGED <<device, Receipts>>

\* by id alone, whoever has the device by now; tokens are unique
UpdateForUser ==
    LET d == update.device
        free == \A e \in Device \ {d} : device[e].token # update.token IN
    /\ update # NoUpdate
    /\ device' = IF free THEN [device EXCEPT ![d] = [user |-> update.user, token |-> update.token,
                                                     active |-> TRUE]]
                 ELSE device
    /\ update' = NoUpdate
    /\ UNCHANGED Receipts

\* unregisterDevice by token, removeDevice by id: both only for the user's own row
RemoveDevice(u, d) ==
    /\ device[d].user = u /\ device[d].active
    /\ device' = [device EXCEPT ![d].active = FALSE]
    /\ UNCHANGED <<update, Receipts>>

------------------------------------------------------------------------------
(* Sending.                                                                *)

Deactivated(gone) == [d \in Device |-> [device[d] EXCEPT !.active = @ /\ d \notin gone]]

\* listActiveForAudience
DeliverToUsersNow(users) ==
    LET devices == {d \in Device : device[d].user \in users /\ device[d].active} IN
    /\ sender.pc = "idle" /\ devices # {}
    /\ sender' = [pc |-> "send", devices |-> devices]
    /\ UNCHANGED <<device, update, receipt, line, young, fresh, answer, poll, faults>>

Pending(k) == receipt[k].status = "PENDING"
Waiting == {k \in Ticket : Pending(k)}
Unused == {k \in Ticket : receipt[k].status = "none" /\ answer[k] = "none"}

\* Expo takes the message for the devices ok, and refuses it for those in gone because
\* the app is no longer installed; refused ones get rows that nobody looks up.  All
\* receipts are written by one statement.
HandleExpoTickets(ok, gone) ==
    /\ sender.pc = "send"
    /\ \E tickets \in SUBSET Unused, of \in [Ticket -> ok \cup {Nobody}] :
         /\ {of[k] : k \in tickets} = ok
         /\ \A k \in Ticket : of[k] = Nobody <=> k \notin tickets
         /\ \A k, l \in tickets : of[k] = of[l] => k = l
         /\ \A k \in tickets, l \in Unused \ tickets : k < l
         /\ receipt' = [k \in Ticket |-> IF k \in tickets THEN [status |-> "PENDING", device |-> of[k]]
                                         ELSE receipt[k]]
         /\ line' = line \cup (Waiting \X tickets) \cup {p \in tickets \X tickets : p[1] < p[2]}
         /\ young' = young \cup tickets
         /\ fresh' = fresh \cup tickets
    /\ sender' = [pc |-> "deactivate", devices |-> gone]
    /\ UNCHANGED <<device, update, answer, poll, faults>>

DeactivateRefused ==
    /\ sender.pc = "deactivate"
    /\ device' = Deactivated(sender.devices)
    /\ sender' = NoSender
    /\ UNCHANGED <<update, receipt, line, young, fresh, answer, poll, faults>>

\* Expo cannot be reached, or the worker dies; the task may be tried again
SendExpoFails ==
    /\ sender.pc # "idle"
    /\ sender' = NoSender
    /\ UNCHANGED <<device, update, receipt, line, young, fresh, answer, poll, faults>>

------------------------------------------------------------------------------
(* Expo, time, and the purge of old tasks with their receipts.             *)

ExpoAnswers(k, a) ==
    /\ Pending(k) /\ answer[k] = "none"
    /\ a = "lost" => Cardinality({l \in Ticket : answer[l] = "lost"}) < MaxLost
    /\ answer' = [answer EXCEPT ![k] = a]
    /\ UNCHANGED <<device, update, sender, receipt, line, young, fresh, poll, faults>>

DelayPasses ==
    /\ young # {}
    /\ young' = {}
    /\ UNCHANGED <<device, update, sender, receipt, line, fresh, answer, poll, faults>>

Without(k) == {p \in line : p[1] # k /\ p[2] # k}

PurgeTask(k) ==
    /\ receipt[k].status # "none" /\ answer[k] # "none"
    /\ receipt' = [receipt EXCEPT ![k].status = "none"]
    /\ line' = Without(k)
    /\ young' = young \ {k} /\ fresh' = fresh \ {k}
    /\ UNCHANGED <<device, update, sender, answer, poll, faults>>

------------------------------------------------------------------------------
(* The monitor.                                                            *)

NotMonitor == <<device, update, sender, receipt, line, young, fresh, answer>>

\* the pending receipts once ids have the time of this poll: after all that were looked
\* up earlier, in the order of creation, and before those that never were
LookedUp(ids) ==
    LET mine == ids \cap Waiting
        others == Waiting \ ids IN
    {p \in line : p[1] \notin ids /\ p[2] \notin ids}
        \cup {p \in mine \X mine : p[1] < p[2]}
        \cup ((others \ fresh) \X mine) \cup (mine \X (others \cap fresh))

\* ORDER BY and LIMIT: the first of the receipts due
FirstInLine(ids, due) ==
    /\ Cardinality(ids) = IF Cardinality(due) < Take THEN Cardinality(due) ELSE Take
    /\ \A k \in ids, l \in due \ ids : <<k, l>> \in line

\* mutant: only receipts that were never looked up
ListPendingNeverChecked ==
    LET due == fresh \ young IN
    /\ poll.pc = "idle" /\ due # {}
    /\ \E ids \in SUBSET due :
         /\ FirstInLine(ids, due)
         /\ poll' = [NoPoll EXCEPT !.pc = "fetch", !.ids = ids]
    /\ UNCHANGED <<NotMonitor, faults>>

ListPendingExpoReceipts ==
    LET due == Waiting \ young IN
    /\ poll.pc = "idle" /\ due # {}
    /\ \E ids \in SUBSET due :
         /\ FirstInLine(ids, due)
         /\ poll' = [NoPoll EXCEPT !.pc = "fetch", !.ids = ids]
    /\ UNCHANGED <<NotMonitor, faults>>

GetReceipts ==
    /\ poll.pc = "fetch"
    /\ poll' = [poll EXCEPT !.pc = "mark", !.left = {k \in poll.ids : answer[k] \notin {"none", "lost"}}]
    /\ UNCHANGED <<NotMonitor, faults>>

MarkLookupAttempted ==
    /\ poll.pc = "mark"
    /\ line' = LookedUp(poll.ids)
    /\ fresh' = fresh \ poll.ids
    /\ poll' = [poll EXCEPT !.pc = "settle"]
    /\ UNCHANGED <<device, update, sender, receipt, young, answer, faults>>

\* markDelivered or markErrored
SettleReceipt(k) ==
    /\ poll.pc = "settle" /\ k \in poll.left
    /\ receipt[k].status # "none"
    /\ receipt' = [receipt EXCEPT ![k].status = IF answer[k] = "ok" THEN "DELIVERED" ELSE "ERROR"]
    /\ line' = Without(k)
    /\ poll' = [poll EXCEPT !.left = @ \ {k},
                            !.gone = IF answer[k] = "gone" THEN @ \cup {receipt[k].device} ELSE @]
    /\ UNCHANGED <<device, update, sender, young, fresh, answer, faults>>

\* the row of a ticket is gone: the update throws, and the poll ends there
SettleFails ==
    /\ poll.pc = "settle"
    /\ \E k \in poll.left : receipt[k].status = "none"
    /\ poll' = NoPoll
    /\ UNCHANGED <<NotMonitor, faults>>

DeactivateGone ==
    /\ poll.pc = "settle" /\ poll.left = {}
    /\ device' = Deactivated(poll.gone)
    /\ poll' = NoPoll
    /\ UNCHANGED <<update, sender, receipt, line, young, fresh, answer, faults>>

\* the look-up fails, or the worker is restarted
PollFails ==
    /\ poll.pc # "idle" /\ faults < MaxFaults
    /\ poll' = NoPoll
    /\ faults' = faults + 1
    /\ UNCHANGED NotMonitor

PollStep ==
    \/ ListPendingExpoReceipts \/ GetReceipts \/ MarkLookupAttempted
    \/ (\E k \in Ticket : SettleReceipt(k)) \/ SettleFails \/ DeactivateGone

ExpoSpeaks == \E k \in Ticket, a \in Answers \ {"none"} : ExpoAnswers(k, a)

PushNext ==
    \/ \E u \in PushUser, d \in Device :
         \/ \E t \in Token : RegisterDevice(u, d, t) \/ UpdateDevice(u, d, t)
         \/ RemoveDevice(u, d)
    \/ UpdateForUser
    \/ \E users \in SUBSET PushUser : DeliverToUsersNow(users)
    \/ \E ok, gone \in SUBSET sender.devices : ok \cap gone = {} /\ HandleExpoTickets(ok, gone)
    \/ DeactivateRefused \/ SendExpoFails
    \/ ExpoSpeaks \/ DelayPasses
    \/ \E k \in Ticket : PurgeTask(k)
    \/ PollStep \/ PollFails

\* The timer of the monitor keeps running, time passes, and Expo decides about a ticket.
PushFairness == WF_pushVars(PollStep) /\ WF_pushVars(DelayPasses) /\ WF_pushVars(ExpoSpeaks)

PushSpec == PushInit /\ [][PushNext]_pushVars /\ PushFairness

------------------------------------------------------------------------------
(* Properties.                                                             *)

\* A receipt Expo has answered does not stay PENDING, although unanswered ones are looked
\* up again and again before it, as long as fewer of them are lost than one poll takes
\* (listPendingExpoReceipts, markLookupAttempted, pollPendingReceipts).
AnsweredReceiptSettles ==
    \A k \in Ticket : (Pending(k) /\ answer[k] \in {"ok", "error", "gone"}) ~> ~Pending(k)
=============================================================================
