----------------------------- MODULE Maintenance -----------------------------
(***************************************************************************)
(* Maintenance requests: modules/maintenance-requests and the owner's      *)
(* decisions in modules/owner-portfolio.                                   *)
(*                                                                         *)
(* A handler reads the request, checks it, and commits an UPDATE by id     *)
(* later; PostgreSQL runs at READ COMMITTED and no handler locks the row   *)
(* or repeats its checks, so the columns a handler writes are computed     *)
(* from the row it read (pend) and overwrite the row it finds (Commit).    *)
(* Columns it does not name keep what others wrote.  The reminder monitor  *)
(* lists overdue estimates, marks each one with a conditional UPDATE and   *)
(* then emits an event.                                                    *)
(*                                                                         *)
(* Left out: authorization, comments, attachments, wording, currencies.    *)
(* Every request has a unit: residents create them for their occupancy.    *)
(***************************************************************************)
EXTENDS Integers

CONSTANTS
    Handlers,    \* concurrent API requests
    Monitors,    \* concurrent scans of the estimate monitor
    Reqs,        \* MaintenanceRequest rows
    Providers, Workers, Members,    \* Members: pairs <<provider, worker>>
    Amounts,     \* estimated amounts
    Deadlines,   \* dates an owner's decision can be asked for by
    Intakes,     \* what the resident's text and signals say
    Flags,       \* values a body can give isEmergency
    ScopesGiven, \* what a body can say about the scope of the work
    MaxRounds,   \* bound: estimates asked for per request
    NoId         \* SQL NULL; in a request body, a field that is not given

ASSUME MaintenanceAssumption ==
    /\ Members \subseteq Providers \X Workers
    /\ Amounts \subseteq Nat
    /\ Intakes \subseteq {"plain", "minor", "emergency"}
    /\ Flags \subseteq {"yes", "no"}
    /\ ScopesGiven \subseteq {"unknown", "like", "owner"}
    /\ MaxRounds \in Nat
    /\ NoId \notin Reqs \cup Providers \cup Workers \cup Deadlines
    /\ NoId \notin Amounts

VARIABLES
    row,        \* MaintenanceRequest rows
    lastAudit,  \* toStatus of the newest MaintenanceRequestOwnerApprovalAudit row
    pend,       \* pend[c]: what the handler c will write
    mon,        \* mon[m]: rows the scan m has listed, and the one to emit for
    past,       \* deadlines that have passed
    rounds,     \* history: how often an estimate was asked for
    sent        \* history: reminder events emitted, as pairs <<request, round>>

vars == <<row, lastAudit, pend, mon, past, rounds, sent>>

Nullable(S) == S \cup {NoId}
Closed == {"COMPLETED", "CANCELED"}
Assignable == {"OPEN", "ASSIGNED"}
Statuses == Assignable \cup {"IN_PROGRESS"} \cup Closed
Sources == {"OWNER", "MANAGEMENT_OVERRIDE", "EMERGENCY_OVERRIDE"}
\* isUpgrade, isMajorReplacement, isResponsibilityDisputed and isLikeForLike:
\* "owner" when one of the first three is set or the last one is false
Scopes == {"unknown", "like", "owner"}

\* a column of which only matters whether it is NULL
Stamp == {"null", "set"}

\* columns and their types
Column == [
    status    |-> Statuses \cup {"NONE"},
    intake    |-> {"plain", "minor", "emergency"},
    emergency |-> {"yes", "no"},
    scope     |-> Scopes,
    amount    |-> Nullable(Amounts),
    approval  |-> {"NOT_REQUIRED", "PENDING", "APPROVED", "REJECTED"},
    asked     |-> Stamp,                    \* ownerApprovalRequestedAt
    deadline  |-> Nullable(Deadlines),
    source    |-> Sources \cup {"none"},
    decider   |-> {"none", "owner", "override"},
    estimate  |-> {"NOT_REQUESTED", "REQUESTED", "SUBMITTED"},
    due       |-> {"none", "future", "past"},
    reminded  |-> Stamp,                    \* estimateReminderSentAt
    staff     |-> Stamp,                    \* assignedToUserId
    provider  |-> Nullable(Providers),
    worker    |-> Nullable(Workers)]

NewRow == [
    status |-> "NONE", intake |-> "plain", emergency |-> "no", scope |-> "unknown",
    amount |-> NoId, approval |-> "NOT_REQUIRED", asked |-> "null", deadline |-> NoId,
    source |-> "none", decider |-> "none", estimate |-> "NOT_REQUESTED",
    due |-> "none", reminded |-> "null", staff |-> "null", provider |-> NoId,
    worker |-> NoId]

Audited == {"PENDING", "APPROVED", "REJECTED"}
NoPatch == [none |-> TRUE]
Idle == [req |-> NoId, patch |-> NoPatch, audit |-> "none"]

\* the columns p gives are columns of the table and have their types
WellTyped(p) == /\ DOMAIN p \subseteq DOMAIN Column
                /\ \A f \in DOMAIN p : p[f] \in Column[f]

\* Every row has every column, and rows and pending writes are well typed.
TypeOK ==
    /\ DOMAIN row = Reqs
    /\ \A r \in Reqs : DOMAIN row[r] = DOMAIN Column /\ WellTyped(row[r])
    /\ lastAudit \in [Reqs -> Audited \cup {"none"}]
    /\ DOMAIN pend = Handlers
    /\ \A c \in Handlers : pend[c] # Idle =>
           /\ pend[c].req \in Reqs
           /\ WellTyped(pend[c].patch)
           /\ pend[c].audit \in Audited \cup {"none"}
    /\ mon \in [Monitors -> [todo: SUBSET (Reqs \X Nat), emit: Nullable(Reqs \X Nat)]]
    /\ past \subseteq Deadlines
    /\ rounds \in [Reqs -> Nat]
    /\ sent \subseteq Reqs \X Nat

Init ==
    /\ row = [r \in Reqs |-> NewRow]
    /\ lastAudit = [r \in Reqs |-> "none"]
    /\ pend = [c \in Handlers |-> Idle]
    /\ mon = [m \in Monitors |-> [todo |-> {}, emit |-> NoId]]
    /\ past = {}
    /\ rounds = [r \in Reqs |-> 0]
    /\ sent = {}

------------------------------------------------------------------------------
(* The policy.                                                             *)

Threshold == 1000

Urgent(x) == x.emergency = "yes" \/ x.intake = "emergency"

Route(x) ==
    CASE x.estimate = "REQUESTED" -> "NEEDS_ESTIMATE"
      [] x.estimate # "REQUESTED" /\ x.approval \in {"PENDING", "REJECTED"}
            -> "OWNER_APPROVAL_REQUIRED"
      [] OTHER ->
         IF Urgent(x) THEN "EMERGENCY_DISPATCH"
         ELSE IF x.approval = "APPROVED" THEN "DIRECT_ASSIGN"
         ELSE IF x.scope = "owner" THEN "OWNER_APPROVAL_REQUIRED"
         ELSE IF x.amount # NoId
              THEN IF x.amount > Threshold THEN "OWNER_APPROVAL_REQUIRED"
                                           ELSE "DIRECT_ASSIGN"
         ELSE IF x.scope = "like" \/ x.intake = "minor" THEN "DIRECT_ASSIGN"
         ELSE "NEEDS_ESTIMATE"

\* assertExecutionUnlocked
Unlocked(x) ==
    /\ x.approval \notin {"PENDING", "REJECTED"}
    /\ x.estimate # "REQUESTED"
    /\ Route(x) # "OWNER_APPROVAL_REQUIRED"

------------------------------------------------------------------------------
(* Handlers.                                                               *)

\* the row x after an UPDATE that sets the columns of p
Apply(x, p) == [f \in DOMAIN x |-> IF f \in DOMAIN p THEN p[f] ELSE x[f]]

\* columns of two disjoint patches
Plus(p, q) == [f \in DOMAIN p \cup DOMAIN q |-> IF f \in DOMAIN p THEN p[f] ELSE q[f]]

\* handler c has found request r
Found(c, r) == pend[c] = Idle /\ row[r].status # "NONE"

\* the checks have passed: c will write the patch, and an audit row if there is one
WillAudit(c, r, patch, audit) ==
    /\ pend' = [pend EXCEPT ![c] = [req |-> r, patch |-> patch, audit |-> audit]]
    /\ UNCHANGED <<row, lastAudit, mon, past, rounds, sent>>

Will(c, r, patch) == WillAudit(c, r, patch, "none")

\* mutant: a field that is not given overwrites the column
GivenAlways(field, old) == field

\* a field that is not given leaves the column as it was read
Given(field, old) == IF field = NoId THEN old ELSE field

CreateResidentRequest(r, intake, emergency) ==
    /\ row[r].status = "NONE"
    /\ row' = [row EXCEPT ![r] = Apply(NewRow, [status |-> "OPEN", intake |-> intake,
                                               emergency |-> emergency])]
    /\ UNCHANGED <<lastAudit, pend, mon, past, rounds, sent>>

UpdateResidentRequest(c, r, intake, emergency) ==
    /\ Found(c, r)
    /\ row[r].status = "OPEN"
    /\ Will(c, r, [intake |-> Given(intake, row[r].intake),
                   emergency |-> Given(emergency, row[r].emergency)])

\* mutant: a finished request can be cancelled
CancelAny(c, r) ==
    /\ Found(c, r)
    /\ row[r].status # "CANCELED"
    /\ Will(c, r, [status |-> "CANCELED"])

CancelResidentRequest(c, r) ==
    /\ Found(c, r)
    /\ row[r].status \notin Closed
    /\ Will(c, r, [status |-> "CANCELED"])

CancelBuildingRequest(c, r) ==
    /\ Found(c, r)
    /\ row[r].status \notin Closed
    /\ Will(c, r, [status |-> "CANCELED"])

\* mutant: the provider stays connected
AssignRequestKeepProvider(c, r) ==
    /\ Found(c, r)
    /\ row[r].status \in Assignable
    /\ Unlocked(row[r])
    /\ Will(c, r, [staff |-> "set", worker |-> NoId, status |-> "ASSIGNED"])

AssignRequest(c, r) ==
    /\ Found(c, r)
    /\ row[r].status \in Assignable
    /\ Unlocked(row[r])
    /\ Will(c, r, [staff |-> "set", provider |-> NoId, worker |-> NoId,
                   status |-> "ASSIGNED"])

\* mutant: the worker of the previous provider stays assigned
AssignProviderKeepWorker(c, r, p) ==
    /\ Found(c, r)
    /\ row[r].status \in Assignable
    /\ Unlocked(row[r])
    /\ Will(c, r, [staff |-> "null", provider |-> p, status |-> "ASSIGNED"])

AssignProvider(c, r, p) ==
    /\ Found(c, r)
    /\ row[r].status \in Assignable
    /\ Unlocked(row[r])
    /\ Will(c, r, [staff |-> "null", provider |-> p, worker |-> NoId,
                   status |-> "ASSIGNED"])

AssignProviderWorker(c, r, w) ==
    /\ Found(c, r)
    /\ row[r].status \in Assignable
    /\ Unlocked(row[r])
    /\ <<row[r].provider, w>> \in Members
    /\ Will(c, r, [staff |-> "null", worker |-> w, status |-> "ASSIGNED"])

\* the same from the provider's side, by a manager of the provider
AssignProviderWorkerFromProvider(c, r, w) ==
    /\ row[r].provider # NoId
    /\ AssignProviderWorker(c, r, w)

\* Unlocked is false while an estimate is awaited, so the branch of the code that
\* resets the estimate columns is never taken.
UnassignProvider(c, r) ==
    /\ Found(c, r)
    /\ row[r].status \in Assignable
    /\ row[r].provider # NoId
    /\ Unlocked(row[r])
    /\ Will(c, r, [provider |-> NoId, worker |-> NoId, status |-> "OPEN"])

StatusTransitions == {<<"OPEN", "ASSIGNED">>, <<"ASSIGNED", "IN_PROGRESS">>,
                      <<"IN_PROGRESS", "COMPLETED">>}

UpdateRequestStatus(c, r, next) ==
    /\ Found(c, r)
    /\ <<row[r].status, next>> \in StatusTransitions
    /\ Unlocked(row[r])
    /\ Will(c, r, [status |-> next])

\* by a manager of the provider or the assigned worker
UpdateProviderRequestStatus(c, r, next) ==
    /\ row[r].provider # NoId
    /\ UpdateRequestStatus(c, r, next)

------------------------------------------------------------------------------
(* Estimates and the owner's approval.                                     *)

\* buildPolicyTriageUpdateData: all triage columns, from the body or the row read
Triage(t, x) == [amount |-> Given(t.amount, x.amount),
                 emergency |-> Given(t.emergency, x.emergency),
                 scope |-> Given(t.scope, x.scope)]

\* the columns of a decision, cleared
Undecided == [source |-> "none", decider |-> "none"]

NoApproval == Plus(Undecided, [approval |-> "NOT_REQUIRED", asked |-> "null",
                               deadline |-> NoId])

RequestEstimateFromProvider(c, r, p) ==
    /\ Found(c, r)
    /\ row[r].status \in Assignable
    /\ row[r].approval # "PENDING"
    /\ Route(row[r]) = "NEEDS_ESTIMATE" \/ row[r].approval = "REJECTED"
    /\ rounds[r] < MaxRounds
    /\ Will(c, r, Plus(NoApproval,
            [staff |-> "null", provider |-> p, worker |-> NoId, status |-> "OPEN",
             estimate |-> "REQUESTED", due |-> "future", reminded |-> "null",
             amount |-> NoId]))

\* mutant: the previous decision stays in the row
RequireOwnerApprovalKeepDecision(c, r, t, d) ==
    /\ Found(c, r)
    /\ row[r].status \notin Closed
    /\ WillAudit(c, r, Plus(Triage(t, row[r]),
            [approval |-> "PENDING", asked |-> "null",
             deadline |-> Given(d, row[r].deadline)]), "PENDING")

RequireOwnerApproval(c, r, t, d) ==
    /\ Found(c, r)
    /\ row[r].status \notin Closed
    /\ WillAudit(c, r, Plus(Undecided, Plus(Triage(t, row[r]),
            [approval |-> "PENDING", asked |-> "null",
             deadline |-> Given(d, row[r].deadline)])), "PENDING")

\* mutant: a closed request can be sent to the owner
RequestOwnerApprovalNowAnyStatus(c, r, t, d) ==
    /\ Found(c, r)
    /\ ~(row[r].approval = "PENDING" /\ row[r].asked = "set")
    /\ WillAudit(c, r, Plus(Undecided, Plus(Triage(t, row[r]),
            [approval |-> "PENDING", asked |-> "set",
             deadline |-> Given(d, row[r].deadline)])), "PENDING")

RequestOwnerApprovalNow(c, r, t, d) ==
    /\ Found(c, r)
    /\ row[r].status \notin Closed
    /\ ~(row[r].approval = "PENDING" /\ row[r].asked = "set")
    /\ WillAudit(c, r, Plus(Undecided, Plus(Triage(t, row[r]),
            [approval |-> "PENDING", asked |-> "set",
             deadline |-> Given(d, row[r].deadline)])), "PENDING")

\* requestOwnerApproval (resend FALSE) and resendOwnerApprovalRequest (TRUE)
MarkOwnerApprovalRequested(c, r, resend) ==
    /\ Found(c, r)
    /\ row[r].approval = "PENDING"
    /\ row[r].asked = IF resend THEN "set" ELSE "null"
    /\ WillAudit(c, r, [asked |-> "set"], "PENDING")

UpdateRequestPolicyTriage(c, r, t) ==
    /\ Found(c, r)
    /\ row[r].status \notin Closed
    /\ Will(c, r, Triage(t, row[r]))

\* mutant: no audit row when the estimate itself asks the owner
SubmitEstimateUnaudited(c, r, t, d) ==
    LET x == row[r]
        filled == Apply(x, Plus(Triage(t, x), [approval |-> "NOT_REQUIRED",
                                               estimate |-> "SUBMITTED"]))
        submitted == Plus(Triage(t, x), [estimate |-> "SUBMITTED", reminded |-> "null"])
    IN /\ Found(c, r)
       /\ x.status \notin Closed
       /\ IF Route(filled) = "OWNER_APPROVAL_REQUIRED"
          THEN Will(c, r, Plus(submitted, Plus(Undecided,
                    [approval |-> "PENDING", asked |-> "set",
                     deadline |-> Given(d, x.deadline)])))
          ELSE Will(c, r, Plus(submitted, NoApproval))

\* submitRequestEstimateInTx: the estimate decides again whether the owner is asked;
\* no audit row is written when the owner had been asked already
SubmitRequestEstimateInTx(c, r, t, d) ==
    LET x == row[r]
        filled == Apply(x, Plus(Triage(t, x), [approval |-> "NOT_REQUIRED",
                                               estimate |-> "SUBMITTED"]))
        submitted == Plus(Triage(t, x), [estimate |-> "SUBMITTED", reminded |-> "null"])
    IN /\ Found(c, r)
       /\ x.status \notin Closed
       /\ IF Route(filled) = "OWNER_APPROVAL_REQUIRED"
          THEN WillAudit(c, r, Plus(submitted, Plus(Undecided,
                    [approval |-> "PENDING", asked |-> "set",
                     deadline |-> Given(d, x.deadline)])),
                    IF x.approval = "PENDING" /\ x.asked = "set" THEN "none" ELSE "PENDING")
          ELSE Will(c, r, Plus(submitted, NoApproval))

SubmitRequestEstimate(c, r, t, d) ==
    /\ t.amount # NoId
    /\ SubmitRequestEstimateInTx(c, r, t, d)

\* by a manager of the provider or the assigned worker
SubmitProviderRequestEstimate(c, r, t, d) ==
    /\ t.amount # NoId
    /\ row[r].provider # NoId
    /\ SubmitRequestEstimateInTx(c, r, t, d)

\* the validator admits every decision source, OWNER too
OverrideOwnerApproval(c, r, source) ==
    /\ Found(c, r)
    /\ row[r].approval = "PENDING"
    /\ source = "MANAGEMENT_OVERRIDE" => row[r].deadline \in past
    /\ WillAudit(c, r, [approval |-> "APPROVED", source |-> source,
                        decider |-> "override"], "APPROVED")

ApproveAccessibleRequest(c, r) ==
    /\ Found(c, r)
    /\ row[r].approval = "PENDING"
    /\ WillAudit(c, r, [approval |-> "APPROVED", source |-> "OWNER",
                        decider |-> "owner"], "APPROVED")

RejectAccessibleRequest(c, r) ==
    /\ Found(c, r)
    /\ row[r].approval = "PENDING"
    /\ WillAudit(c, r, [approval |-> "REJECTED", source |-> "OWNER",
                        decider |-> "owner"], "REJECTED")

\* updateById and the audit insert, in the handler's transaction
Commit(c) ==
    LET r == pend[c].req
        p == pend[c].patch
        asks == "estimate" \in DOMAIN p /\ p.estimate = "REQUESTED"
    IN /\ pend[c] # Idle
       /\ asks => rounds[r] < MaxRounds
       /\ row' = [row EXCEPT ![r] = Apply(row[r], p)]
       /\ lastAudit' = IF pend[c].audit = "none" THEN lastAudit
                       ELSE [lastAudit EXCEPT ![r] = pend[c].audit]
       /\ rounds' = IF asks THEN [rounds EXCEPT ![r] = rounds[r] + 1] ELSE rounds
       /\ pend' = [pend EXCEPT ![c] = Idle]
       /\ UNCHANGED <<mon, past, sent>>

\* the handler fails or its process dies before it commits
Abandon(c) ==
    /\ pend[c] # Idle
    /\ pend' = [pend EXCEPT ![c] = Idle]
    /\ UNCHANGED <<row, lastAudit, mon, past, rounds, sent>>

------------------------------------------------------------------------------
(* The estimate monitor.                                                   *)

\* mutant: only assigned requests are looked at
ReminderPendingAssigned(r) ==
    /\ row[r].estimate = "REQUESTED"
    /\ row[r].due = "past"
    /\ row[r].reminded = "null"
    /\ row[r].status = "ASSIGNED"

\* the WHERE clause of both queries
ReminderPending(r) ==
    /\ row[r].estimate = "REQUESTED"
    /\ row[r].due = "past"
    /\ row[r].reminded = "null"
    /\ row[r].status \notin Closed

\* listPendingEstimateReminderRequests.  The scan fixes "now": an estimate asked for
\* again later is not due by that time, hence the round is remembered.
ListPending(m) ==
    /\ mon[m] = [todo |-> {}, emit |-> NoId]
    /\ mon' = [mon EXCEPT ![m] =
                  [todo |-> {<<r, rounds[r]>> : r \in {q \in Reqs : ReminderPending(q)}},
                   emit |-> NoId]]
    /\ UNCHANGED <<row, lastAudit, pend, past, rounds, sent>>

\* mutant: the UPDATE relies on the listing
MarkReminderListed(m, r, n) ==
    /\ <<r, n>> \in mon[m].todo
    /\ mon[m].emit = NoId
    /\ row' = [row EXCEPT ![r] = Apply(row[r], [reminded |-> "set"])]
    /\ mon' = [mon EXCEPT ![m] = [todo |-> mon[m].todo \ {<<r, n>>}, emit |-> <<r, n>>]]
    /\ UNCHANGED <<lastAudit, pend, past, rounds, sent>>

\* markEstimateReminderSentIfPending for one listed request; count 0 skips it
MarkReminder(m, r, n) ==
    /\ <<r, n>> \in mon[m].todo
    /\ mon[m].emit = NoId
    /\ IF ReminderPending(r) /\ rounds[r] = n
       THEN /\ row' = [row EXCEPT ![r] = Apply(row[r], [reminded |-> "set"])]
            /\ mon' = [mon EXCEPT ![m] = [todo |-> mon[m].todo \ {<<r, n>>}, emit |-> <<r, n>>]]
       ELSE /\ mon' = [mon EXCEPT ![m].todo = mon[m].todo \ {<<r, n>>}]
            /\ row' = row
    /\ UNCHANGED <<lastAudit, pend, past, rounds, sent>>

EmitReminder(m) ==
    /\ mon[m].emit # NoId
    /\ sent' = sent \cup {mon[m].emit}
    /\ mon' = [mon EXCEPT ![m].emit = NoId]
    /\ UNCHANGED <<row, lastAudit, pend, past, rounds>>

\* a query throws or the process dies: the rest of the scan is dropped
ScanFails(m) ==
    /\ mon[m].todo # {} \/ mon[m].emit # NoId
    /\ mon' = [mon EXCEPT ![m] = [todo |-> {}, emit |-> NoId]]
    /\ UNCHANGED <<row, lastAudit, pend, past, rounds, sent>>

\* time passes: an estimate becomes due, a deadline expires
EstimateFallsDue(r) ==
    /\ row[r].due = "future"
    /\ row' = [row EXCEPT ![r] = Apply(row[r], [due |-> "past"])]
    /\ UNCHANGED <<lastAudit, pend, mon, past, rounds, sent>>

DeadlinePasses(d) ==
    /\ d \notin past
    /\ past' = past \cup {d}
    /\ UNCHANGED <<row, lastAudit, pend, mon, rounds, sent>>

------------------------------------------------------------------------------
\* the triage fields of a body, each of them optional
Triages == [amount: Nullable(Amounts), emergency: Nullable(Flags),
            scope: Nullable(ScopesGiven)]

ResidentStep(c, r) ==
    \/ \E i \in Nullable(Intakes), e \in Nullable(Flags) :
           UpdateResidentRequest(c, r, i, e)
    \/ CancelResidentRequest(c, r)

ExecutionStep(c, r) ==
    \/ AssignRequest(c, r) \/ UnassignProvider(c, r) \/ CancelBuildingRequest(c, r)
    \/ \E p \in Providers : AssignProvider(c, r, p) \/ RequestEstimateFromProvider(c, r, p)
    \/ \E w \in Workers : \/ AssignProviderWorker(c, r, w)
                          \/ AssignProviderWorkerFromProvider(c, r, w)
    \/ \E next \in Statuses : \/ UpdateRequestStatus(c, r, next)
                              \/ UpdateProviderRequestStatus(c, r, next)

ApprovalStep(c, r) ==
    \/ \E t \in Triages, d \in Nullable(Deadlines) :
        \/ RequireOwnerApproval(c, r, t, d)
        \/ RequestOwnerApprovalNow(c, r, t, d)
        \/ SubmitRequestEstimate(c, r, t, d)
        \/ SubmitProviderRequestEstimate(c, r, t, d)
    \/ \E t \in Triages : UpdateRequestPolicyTriage(c, r, t)
    \/ \E resend \in BOOLEAN : MarkOwnerApprovalRequested(c, r, resend)
    \/ \E source \in Sources : OverrideOwnerApproval(c, r, source)
    \/ ApproveAccessibleRequest(c, r) \/ RejectAccessibleRequest(c, r)

MonitorStep(m) ==
    \/ ListPending(m) \/ EmitReminder(m) \/ ScanFails(m)
    \/ \E r \in Reqs, n \in 0..MaxRounds : MarkReminder(m, r, n)

Next ==
    \/ \E r \in Reqs, i \in Intakes, e \in Flags : CreateResidentRequest(r, i, e)
    \/ \E c \in Handlers, r \in Reqs :
           ResidentStep(c, r) \/ ExecutionStep(c, r) \/ ApprovalStep(c, r)
    \/ \E c \in Handlers : Commit(c) \/ Abandon(c)
    \/ \E m \in Monitors : MonitorStep(m)
    \/ \E r \in Reqs : EstimateFallsDue(r)
    \/ \E d \in Deadlines : DeadlinePasses(d)

\* setInterval starts scan after scan, and not every query of every scan fails.
Fairness == \A m \in Monitors :
    /\ WF_vars(ListPending(m))
    /\ WF_vars(EmitReminder(m))
    /\ SF_vars(\E r \in Reqs, n \in 0..MaxRounds : MarkReminder(m, r, n))

Spec == Init /\ [][Next]_vars

FairSpec == Spec /\ Fairness

------------------------------------------------------------------------------
(* Properties that hold for any number of concurrent handlers and scans.   *)

\* The approval status and the columns that say who decided are written together:
\* whatever handlers overtake each other, an APPROVED or REJECTED request names
\* exactly one author, only an owner rejects, and an open question names none.
DecisionAttributed ==
    \A r \in Reqs : LET x == row[r] IN
        /\ x.approval = "APPROVED" => x.source # "none" /\ x.decider # "none"
        /\ x.approval = "REJECTED" => x.source = "OWNER" /\ x.decider = "owner"
        /\ x.approval \in {"NOT_REQUIRED", "PENDING"} => x.source = "none" /\ x.decider = "none"

\* A request is never with the building's staff and with a provider at once,
\* whichever assignments race.
ExclusiveAssignment == \A r \in Reqs : row[r].staff = "set" => row[r].provider = NoId

\* However many scans overlap, and however late one emits, it never repeats a
\* reminder that was emitted for the same estimate or that another scan is about
\* to emit.
OneReminderPerEstimate == \A m \in Monitors : mon[m].emit # NoId =>
    /\ mon[m].emit \notin sent
    /\ \A k \in Monitors \ {m} : mon[k].emit # mon[m].emit

\* An estimate that stays overdue on an open request is marked as reminded, although
\* scans fail, overlap with handlers and drop what they had listed.
OverdueIsReminded ==
    LET Overdue(r) == /\ row[r].estimate = "REQUESTED" /\ row[r].due = "past"
                      /\ row[r].status \notin Closed
    IN \A r \in Reqs : Overdue(r) ~> ~Overdue(r) \/ row[r].reminded = "set"

(* Properties of API requests handled one at a time.                       *)

\* Work that was completed was allowed to be done: no open or refused question to
\* the owner, no estimate outstanding, and none that policy would still demand.
CompletedWasUnlocked == \A r \in Reqs : row[r].status = "COMPLETED" => Unlocked(row[r])

\* The assigned worker is a member of the assigned provider.
WorkerOfProvider == \A r \in Reqs :
    row[r].worker # NoId => <<row[r].provider, row[r].worker>> \in Members

\* The newest audit row says what the approval status is, unless an estimate has
\* reset it to NOT_REQUIRED since.
AuditIsCurrent == \A r \in Reqs :
    row[r].approval # "NOT_REQUIRED" => lastAudit[r] = row[r].approval

\* COMPLETED and CANCELED are final.
ClosedIsFinal ==
    [][\A r \in Reqs : row[r].status \in Closed => row'[r].status = row[r].status]_vars
==============================================================================
