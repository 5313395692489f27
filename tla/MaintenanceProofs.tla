-------------------------- MODULE MaintenanceProofs --------------------------
(***************************************************************************)
(* Proofs for Maintenance, for any number of handlers, scans, requests and *)
(* providers.  No handler repeats its checks when it commits, so what is   *)
(* true of a row must follow from what a handler writes, not from what it  *)
(* read.  The invariant therefore speaks about pending patches: a patch    *)
(* sets all columns of a decision or none (Together), names one assignee   *)
(* (OneSide), and touches the reminder only with a new round of the        *)
(* estimate or its end (Restarts).                                         *)
(***************************************************************************)
EXTENDS Maintenance, TLAPS

\* the decision columns of x agree
Attributed(x) ==
    /\ x.approval = "APPROVED" => x.source # "none" /\ x.decider # "none"
    /\ x.approval = "REJECTED" => x.source = "OWNER" /\ x.decider = "owner"
    /\ x.approval \in {"NOT_REQUIRED", "PENDING"} => x.source = "none" /\ x.decider = "none"

DecisionColumns == {"approval", "source", "decider"}

Together(p) ==
    \/ DecisionColumns \subseteq DOMAIN p /\ Attributed(p)
    \/ DecisionColumns \cap DOMAIN p = {}

OneSide(p) ==
    /\ "staff" \in DOMAIN p /\ p.staff = "set" => "provider" \in DOMAIN p /\ p.provider = NoId
    /\ "provider" \in DOMAIN p /\ p.provider # NoId => "staff" \in DOMAIN p /\ p.staff = "null"

Restarts(p) ==
    "estimate" \in DOMAIN p \/ "reminded" \in DOMAIN p
    => "estimate" \in DOMAIN p /\ p.estimate \in {"REQUESTED", "SUBMITTED"}

Sound(p) == WellTyped(p) /\ Together(p) /\ OneSide(p) /\ Restarts(p)

\* handler c has computed a sound patch
Writes(c, r) == \E p, a : /\ Sound(p) /\ a \in Audited \cup {"none"}
                          /\ WillAudit(c, r, p, a)

\* the estimate of round n of request r cannot be reminded of again
Spent(r, n) ==
    /\ n <= rounds[r]
    /\ n = rounds[r] => row[r].estimate # "REQUESTED" \/ row[r].reminded = "set"

PendSound == \A c \in Handlers : pend[c] # Idle => Sound(pend[c].patch)
SentSpent == \A r \in Reqs, n \in Nat : <<r, n>> \in sent => Spent(r, n)
EmitSpent == \A m \in Monitors, r \in Reqs, n \in Nat :
    mon[m].emit # NoId /\ mon[m].emit = <<r, n>> => Spent(r, n)

IInv == /\ TypeOK /\ PendSound
        /\ DecisionAttributed /\ ExclusiveAssignment
        /\ SentSpent /\ EmitSpent /\ OneReminderPerEstimate

------------------------------------------------------------------------------
(* Patches.                                                                *)

\* The row a resident creates starts from (column defaults of the schema).
LEMMA NewRowTyped == DOMAIN NewRow = DOMAIN Column /\ WellTyped(NewRow)
  BY DEF NewRow, Column, WellTyped, Statuses, Assignable, Closed, Nullable, Stamp, Scopes,
         Sources

\* An UPDATE keeps a row well typed (updateById).
LEMMA ApplyTyped ==
    ASSUME NEW x, NEW p, DOMAIN x = DOMAIN Column, WellTyped(x), WellTyped(p)
    PROVE  DOMAIN Apply(x, p) = DOMAIN Column /\ WellTyped(Apply(x, p))
  BY DEF Apply, WellTyped

\* An UPDATE that writes the decision columns together keeps them in agreement.
LEMMA ApplyAttributed ==
    ASSUME NEW x, NEW p, DOMAIN x = DOMAIN Column, Attributed(x), Together(p)
    PROVE  Attributed(Apply(x, p))
  BY DEF Apply, Together, Attributed, DecisionColumns, Column

\* An UPDATE that names one assignee keeps the assignment exclusive.
LEMMA ApplyOneSide ==
    ASSUME NEW x, NEW p, DOMAIN x = DOMAIN Column, OneSide(p),
           x.staff = "set" => x.provider = NoId
    PROVE  Apply(x, p).staff = "set" => Apply(x, p).provider = NoId
  BY DEF Apply, OneSide, Column

\* A well-typed pair of patches is well typed.
LEMMA PlusTyped ==
    ASSUME NEW p, NEW q, WellTyped(p), WellTyped(q)
    PROVE  WellTyped(Plus(p, q))
  BY DEF WellTyped, Plus

\* The triage columns of a patch come from the body or from a well-typed row
\* (buildPolicyTriageUpdateData).
LEMMA TriageTyped ==
    ASSUME NEW t \in Triages, NEW x, DOMAIN x = DOMAIN Column, WellTyped(x)
    PROVE  WellTyped(Triage(t, x))
  <1>1. /\ x.amount \in Nullable(Amounts) /\ x.emergency \in {"yes", "no"}
        /\ x.scope \in Scopes
    BY DEF WellTyped, Column
  <1>2. /\ t.amount \in Nullable(Amounts) /\ t.emergency \in Nullable(Flags)
        /\ t.scope \in Nullable(ScopesGiven)
    BY DEF Triages
  <1>3. /\ Given(t.amount, x.amount) \in Nullable(Amounts)
        /\ Given(t.emergency, x.emergency) \in {"yes", "no"}
        /\ Given(t.scope, x.scope) \in Scopes
    BY <1>1, <1>2, MaintenanceAssumption DEF Given, Nullable, Scopes
  <1> QED
    BY <1>3 DEF Triage, WellTyped, Column

\* What the patches of the approval handlers look like to the invariant: the triage
\* columns t, and approval columns that agree with each other.
LEMMA PendingSound ==
    ASSUME NEW t \in Triages, NEW x, DOMAIN x = DOMAIN Column, WellTyped(x),
           NEW d \in Nullable(Deadlines), NEW s \in Stamp
    PROVE  Sound(Plus(Undecided, Plus(Triage(t, x),
                 [approval |-> "PENDING", asked |-> s,
                  deadline |-> Given(d, x.deadline)])))
  <1> DEFINE q == [approval |-> "PENDING", asked |-> s, deadline |-> Given(d, x.deadline)]
             p == Plus(Undecided, Plus(Triage(t, x), q))
  <1>1. x.deadline \in Nullable(Deadlines)
    BY DEF WellTyped, Column
  <1>2. Given(d, x.deadline) \in Nullable(Deadlines)
    BY <1>1 DEF Given, Nullable
  <1>3. WellTyped(q)
    BY <1>2 DEF WellTyped, Column
  <1>4. WellTyped(Undecided)
    BY DEF WellTyped, Column, Undecided
  <1>5. WellTyped(p)
    BY <1>3, <1>4, TriageTyped, PlusTyped
  <1>6. Together(p)
    BY DEF Together, Attributed, DecisionColumns, Plus, Undecided, Triage
  <1>7. OneSide(p) /\ Restarts(p)
    BY DEF OneSide, Restarts, Plus, Undecided, Triage
  <1> QED
    BY <1>5, <1>6, <1>7 DEF Sound

\* Both outcomes of a submitted estimate are sound patches.
LEMMA SubmittedSound ==
    ASSUME NEW t \in Triages, NEW x, DOMAIN x = DOMAIN Column, WellTyped(x),
           NEW d \in Nullable(Deadlines)
    PROVE  LET submitted == Plus(Triage(t, x), [estimate |-> "SUBMITTED",
                                                reminded |-> "null"])
           IN /\ Sound(Plus(submitted, Plus(Undecided,
                       [approval |-> "PENDING", asked |-> "set",
                        deadline |-> Given(d, x.deadline)])))
              /\ Sound(Plus(submitted, NoApproval))
  <1> DEFINE e == [estimate |-> "SUBMITTED", reminded |-> "null"]
             q == [approval |-> "PENDING", asked |-> "set",
                   deadline |-> Given(d, x.deadline)]
             p1 == Plus(Plus(Triage(t, x), e), Plus(Undecided, q))
             p2 == Plus(Plus(Triage(t, x), e), NoApproval)
  <1>1. x.deadline \in Nullable(Deadlines)
    BY DEF WellTyped, Column
  <1>2. Given(d, x.deadline) \in Nullable(Deadlines)
    BY <1>1 DEF Given, Nullable
  <1>3. WellTyped(q)
    BY <1>2 DEF WellTyped, Column, Stamp
  <1>4. WellTyped(Undecided)
    BY DEF WellTyped, Column, Undecided
  <1>5. WellTyped(e)
    BY DEF WellTyped, Column, Stamp
  <1>6. WellTyped(NoApproval)
    BY DEF WellTyped, Column, NoApproval, Plus, Undecided, Nullable, Stamp
  <1>7. WellTyped(p1) /\ WellTyped(p2)
    BY <1>3, <1>4, <1>5, <1>6, TriageTyped, PlusTyped
  <1>8. Together(p1)
    BY DEF Together, Attributed, DecisionColumns, Plus, Undecided, Triage
  <1>9. Together(p2)
    BY DEF Together, Attributed, DecisionColumns, Plus, Undecided, Triage, NoApproval
  <1>10. OneSide(p1) /\ OneSide(p2)
    BY DEF OneSide, Plus, Undecided, Triage, NoApproval
  <1>11. Restarts(p1) /\ Restarts(p2)
    BY DEF Restarts, Plus, Undecided, Triage, NoApproval
  <1> QED
    BY <1>7, <1>8, <1>9, <1>10, <1>11 DEF Sound
------------------------------------------------------------------------------
(* Handlers write sound patches.                                           *)

\* The resident's handlers.
LEMMA ResidentWrites ==
    ASSUME TypeOK, NEW c \in Handlers, NEW r \in Reqs, ResidentStep(c, r)
    PROVE  Writes(c, r)
  <1> DEFINE x == row[r]
  <1>1. x.intake \in {"plain", "minor", "emergency"} /\ x.emergency \in {"yes", "no"}
    BY DEF TypeOK, WellTyped, Column
  <1>2. ASSUME NEW i \in Nullable(Intakes), NEW e \in Nullable(Flags),
               UpdateResidentRequest(c, r, i, e)
        PROVE  Writes(c, r)
    <2> DEFINE p == [intake |-> Given(i, x.intake), emergency |-> Given(e, x.emergency)]
    <2>1. /\ Given(i, x.intake) \in {"plain", "minor", "emergency"}
          /\ Given(e, x.emergency) \in {"yes", "no"}
      BY <1>1, MaintenanceAssumption DEF Given, Nullable
    <2>2. Sound(p)
      BY <2>1 DEF Sound, WellTyped, Column, Together, DecisionColumns, OneSide, Restarts
    <2>3. WillAudit(c, r, p, "none")
      BY <1>2 DEF UpdateResidentRequest, Will
    <2> QED
      BY <2>2, <2>3 DEF Writes
  <1>3. ASSUME CancelResidentRequest(c, r)
        PROVE  Writes(c, r)
    <2>1. Sound([status |-> "CANCELED"])
      BY DEF Sound, WellTyped, Column, Statuses, Closed, Together, DecisionColumns,
             OneSide, Restarts
    <2>2. WillAudit(c, r, [status |-> "CANCELED"], "none")
      BY <1>3 DEF CancelResidentRequest, Will
    <2> QED
      BY <2>1, <2>2 DEF Writes
  <1> QED
    BY <1>2, <1>3 DEF ResidentStep

\* Assignment, status changes, cancellation and the request for an estimate.
LEMMA ExecutionWrites ==
    ASSUME TypeOK, NEW c \in Handlers, NEW r \in Reqs, ExecutionStep(c, r)
    PROVE  Writes(c, r)
  <1> USE DEF Sound, WellTyped, Column, Statuses, Closed, Assignable, Nullable, Stamp,
              Together, DecisionColumns, OneSide, Restarts
  <1>1. ASSUME AssignRequest(c, r)
        PROVE  Writes(c, r)
    <2> DEFINE p == [staff |-> "set", provider |-> NoId, worker |-> NoId,
                     status |-> "ASSIGNED"]
    <2>1. Sound(p)
      OBVIOUS
    <2>2. WillAudit(c, r, p, "none")
      BY <1>1 DEF AssignRequest, Will
    <2> QED
      BY <2>1, <2>2 DEF Writes
  <1>2. ASSUME UnassignProvider(c, r)
        PROVE  Writes(c, r)
    <2> DEFINE p == [provider |-> NoId, worker |-> NoId, status |-> "OPEN"]
    <2>1. Sound(p)
      OBVIOUS
    <2>2. WillAudit(c, r, p, "none")
      BY <1>2 DEF UnassignProvider, Will
    <2> QED
      BY <2>1, <2>2 DEF Writes
  <1>3. ASSUME CancelBuildingRequest(c, r)
        PROVE  Writes(c, r)
    <2>1. Sound([status |-> "CANCELED"])
      OBVIOUS
    <2>2. WillAudit(c, r, [status |-> "CANCELED"], "none")
      BY <1>3 DEF CancelBuildingRequest, Will
    <2> QED
      BY <2>1, <2>2 DEF Writes
  <1>4. ASSUME NEW p \in Providers, AssignProvider(c, r, p)
        PROVE  Writes(c, r)
    <2> DEFINE q == [staff |-> "null", provider |-> p, worker |-> NoId,
                     status |-> "ASSIGNED"]
    <2>1. Sound(q)
      OBVIOUS
    <2>2. WillAudit(c, r, q, "none")
      BY <1>4 DEF AssignProvider, Will
    <2> QED
      BY <2>1, <2>2 DEF Writes
  <1>5. ASSUME NEW p \in Providers, RequestEstimateFromProvider(c, r, p)
        PROVE  Writes(c, r)
    <2> DEFINE e == [staff |-> "null", provider |-> p, worker |-> NoId, status |-> "OPEN",
                     estimate |-> "REQUESTED", due |-> "future", reminded |-> "null",
                     amount |-> NoId]
               q == Plus(NoApproval, e)
    <2>1. WellTyped(e)
      OBVIOUS
    <2>2. WellTyped(NoApproval)
      BY DEF NoApproval, Plus, Undecided
    <2>3. WellTyped(q)
      BY <2>1, <2>2, PlusTyped
    <2>4. Together(q) /\ OneSide(q) /\ Restarts(q)
      BY DEF NoApproval, Plus, Undecided, Attributed
    <2>5. Sound(q)
      BY <2>3, <2>4
    <2>6. WillAudit(c, r, q, "none")
      BY <1>5 DEF RequestEstimateFromProvider, Will
    <2> QED
      BY <2>5, <2>6 DEF Writes
  <1>6. ASSUME NEW w \in Workers, AssignProviderWorker(c, r, w)
        PROVE  Writes(c, r)
    <2> DEFINE p == [staff |-> "null", worker |-> w, status |-> "ASSIGNED"]
    <2>1. Sound(p)
      OBVIOUS
    <2>2. WillAudit(c, r, p, "none")
      BY <1>6 DEF AssignProviderWorker, Will
    <2> QED
      BY <2>1, <2>2 DEF Writes
  <1>7. ASSUME NEW next \in Statuses, UpdateRequestStatus(c, r, next)
        PROVE  Writes(c, r)
    <2>1. Sound([status |-> next])
      OBVIOUS
    <2>2. WillAudit(c, r, [status |-> next], "none")
      BY <1>7 DEF UpdateRequestStatus, Will
    <2> QED
      BY <2>1, <2>2 DEF Writes
  <1> QED
    BY <1>1, <1>2, <1>3, <1>4, <1>5, <1>6, <1>7
    DEF ExecutionStep, AssignProviderWorkerFromProvider, UpdateProviderRequestStatus

\* The approval handlers, the triage and the submission of an estimate.
LEMMA ApprovalWrites ==
    ASSUME TypeOK, NEW c \in Handlers, NEW r \in Reqs, ApprovalStep(c, r)
    PROVE  Writes(c, r)
  <1> DEFINE x == row[r]
  <1>0. DOMAIN x = DOMAIN Column /\ WellTyped(x)
    BY DEF TypeOK
  <1>1. ASSUME NEW t \in Triages, NEW d \in Nullable(Deadlines), RequireOwnerApproval(c, r, t, d)
        PROVE  Writes(c, r)
    <2> DEFINE p == Plus(Undecided, Plus(Triage(t, x),
                        [approval |-> "PENDING", asked |-> "null",
                         deadline |-> Given(d, x.deadline)]))
    <2>1. Sound(p)
      BY <1>0, PendingSound DEF Stamp
    <2>2. WillAudit(c, r, p, "PENDING")
      BY <1>1 DEF RequireOwnerApproval
    <2> QED
      BY <2>1, <2>2 DEF Writes, Audited
  <1>2. ASSUME NEW t \in Triages, NEW d \in Nullable(Deadlines),
               RequestOwnerApprovalNow(c, r, t, d)
        PROVE  Writes(c, r)
    <2> DEFINE p == Plus(Undecided, Plus(Triage(t, x),
                        [approval |-> "PENDING", asked |-> "set",
                         deadline |-> Given(d, x.deadline)]))
    <2>1. Sound(p)
      BY <1>0, PendingSound DEF Stamp
    <2>2. WillAudit(c, r, p, "PENDING")
      BY <1>2 DEF RequestOwnerApprovalNow
    <2> QED
      BY <2>1, <2>2 DEF Writes, Audited
  <1>3. ASSUME NEW t \in Triages, NEW d \in Nullable(Deadlines),
               SubmitRequestEstimateInTx(c, r, t, d)
        PROVE  Writes(c, r)
    <2> DEFINE submitted == Plus(Triage(t, x), [estimate |-> "SUBMITTED",
                                                reminded |-> "null"])
               p1 == Plus(submitted, Plus(Undecided,
                         [approval |-> "PENDING", asked |-> "set",
                          deadline |-> Given(d, x.deadline)]))
               p2 == Plus(submitted, NoApproval)
    <2>1. Sound(p1) /\ Sound(p2)
      BY <1>0, SubmittedSound
    <2>2. \/ WillAudit(c, r, p1, IF x.approval = "PENDING" /\ x.asked = "set"
                                THEN "none" ELSE "PENDING")
          \/ WillAudit(c, r, p2, "none")
      BY <1>3 DEF SubmitRequestEstimateInTx, Will
    <2> HIDE DEF p1, p2
    <2> QED
      BY <2>1, <2>2 DEF Writes, Audited
  <1>4. ASSUME NEW t \in Triages, UpdateRequestPolicyTriage(c, r, t)
        PROVE  Writes(c, r)
    <2>1. WellTyped(Triage(t, x))
      BY <1>0, TriageTyped
    <2>2. Together(Triage(t, x)) /\ OneSide(Triage(t, x)) /\ Restarts(Triage(t, x))
      BY DEF Triage, Together, DecisionColumns, OneSide, Restarts
    <2>3. WillAudit(c, r, Triage(t, x), "none")
      BY <1>4 DEF UpdateRequestPolicyTriage, Will
    <2> QED
      BY <2>1, <2>2, <2>3 DEF Writes, Sound
  <1>5. ASSUME NEW resend \in BOOLEAN, MarkOwnerApprovalRequested(c, r, resend)
        PROVE  Writes(c, r)
    <2>1. Sound([asked |-> "set"])
      BY DEF Sound, WellTyped, Column, Stamp, Together, DecisionColumns, OneSide, Restarts
    <2>2. WillAudit(c, r, [asked |-> "set"], "PENDING")
      BY <1>5 DEF MarkOwnerApprovalRequested
    <2> QED
      BY <2>1, <2>2 DEF Writes, Audited
  <1>6. ASSUME NEW source \in Sources, OverrideOwnerApproval(c, r, source)
        PROVE  Writes(c, r)
    <2> DEFINE p == [approval |-> "APPROVED", source |-> source, decider |-> "override"]
    <2>1. Sound(p)
      BY DEF Sound, WellTyped, Column, Sources, Together, Attributed, DecisionColumns,
             OneSide, Restarts
    <2>2. WillAudit(c, r, p, "APPROVED")
      BY <1>6 DEF OverrideOwnerApproval
    <2> QED
      BY <2>1, <2>2 DEF Writes, Audited
  <1>7. ASSUME ApproveAccessibleRequest(c, r)
        PROVE  Writes(c, r)
    <2> DEFINE p == [approval |-> "APPROVED", source |-> "OWNER", decider |-> "owner"]
    <2>1. Sound(p)
      BY DEF Sound, WellTyped, Column, Sources, Together, Attributed, DecisionColumns,
             OneSide, Restarts
    <2>2. WillAudit(c, r, p, "APPROVED")
      BY <1>7 DEF ApproveAccessibleRequest
    <2> QED
      BY <2>1, <2>2 DEF Writes, Audited
  <1>8. ASSUME RejectAccessibleRequest(c, r)
        PROVE  Writes(c, r)
    <2> DEFINE p == [approval |-> "REJECTED", source |-> "OWNER", decider |-> "owner"]
    <2>1. Sound(p)
      BY DEF Sound, WellTyped, Column, Sources, Together, Attributed, DecisionColumns,
             OneSide, Restarts
    <2>2. WillAudit(c, r, p, "REJECTED")
      BY <1>8 DEF RejectAccessibleRequest
    <2> QED
      BY <2>1, <2>2 DEF Writes, Audited
  <1> QED
    BY <1>1, <1>2, <1>3, <1>4, <1>5, <1>6, <1>7, <1>8
    DEF ApprovalStep, SubmitRequestEstimate, SubmitProviderRequestEstimate

------------------------------------------------------------------------------
(* Preservation.                                                           *)

\* The initial database satisfies the invariant.
LEMMA InitIInv == Init => IInv
  <1> SUFFICES ASSUME Init PROVE IInv
    OBVIOUS
  <1>1. \A r \in Reqs : row[r] = NewRow
    BY DEF Init
  <1>2. \A c \in Handlers : pend[c] = Idle
    BY DEF Init
  <1>3. TypeOK
    <2>1. /\ DOMAIN row = Reqs
          /\ \A r \in Reqs : DOMAIN row[r] = DOMAIN Column /\ WellTyped(row[r])
      BY <1>1, NewRowTyped DEF Init
    <2>2. DOMAIN pend = Handlers
      BY DEF Init
    <2>3. /\ lastAudit \in [Reqs -> Audited \cup {"none"}]
          /\ mon \in [Monitors -> [todo: SUBSET (Reqs \X Nat), emit: Nullable(Reqs \X Nat)]]
          /\ past \subseteq Deadlines
          /\ rounds \in [Reqs -> Nat]
          /\ sent \subseteq Reqs \X Nat
      BY DEF Init, Nullable
    <2> QED
      BY <1>2, <2>1, <2>2, <2>3 DEF TypeOK
  <1>4. PendSound
    BY <1>2 DEF PendSound
  <1>5. DecisionAttributed /\ ExclusiveAssignment
    BY <1>1 DEF DecisionAttributed, ExclusiveAssignment, NewRow
  <1>6. \A m \in Monitors : mon[m].emit = NoId
    BY DEF Init
  <1>7. SentSpent /\ OneReminderPerEstimate
    BY <1>6 DEF Init, SentSpent, OneReminderPerEstimate
  <1>8. EmitSpent
    BY <1>6 DEF EmitSpent
  <1> QED
    BY <1>3, <1>4, <1>5, <1>7, <1>8 DEF IInv

\* A handler that has done its checks changes only what it is going to write.
LEMMA WritesIInv ==
    ASSUME IInv, NEW c \in Handlers, NEW r \in Reqs, Writes(c, r)
    PROVE  IInv'
  <1>1. PICK p, a : /\ Sound(p) /\ a \in Audited \cup {"none"}
                    /\ WillAudit(c, r, p, a)
    BY DEF Writes
  <1>2. /\ pend' = [pend EXCEPT ![c] = [req |-> r, patch |-> p, audit |-> a]]
        /\ UNCHANGED <<row, lastAudit, mon, past, rounds, sent>>
    BY <1>1 DEF WillAudit
  <1>3. DOMAIN pend = Handlers
    BY DEF IInv, TypeOK
  <1>4. /\ DOMAIN pend' = Handlers
        /\ \A k \in Handlers : pend'[k] = IF k = c THEN [req |-> r, patch |-> p, audit |-> a]
                                          ELSE pend[k]
    BY <1>2, <1>3
  <1>5. TypeOK'
    BY <1>1, <1>2, <1>4 DEF IInv, TypeOK, Sound
  <1>6. PendSound'
    BY <1>1, <1>4 DEF IInv, PendSound
  <1> QED
    BY <1>2, <1>5, <1>6
    DEF IInv, DecisionAttributed, ExclusiveAssignment, SentSpent, EmitSpent, Spent,
        OneReminderPerEstimate

\* Releasing a handler without a commit.
LEMMA AbandonIInv ==
    ASSUME IInv, NEW c \in Handlers, Abandon(c)
    PROVE  IInv'
  <1>1. DOMAIN pend = Handlers
    BY DEF IInv, TypeOK
  <1>2. /\ DOMAIN pend' = Handlers
        /\ \A k \in Handlers : pend'[k] = IF k = c THEN Idle ELSE pend[k]
    BY <1>1 DEF Abandon
  <1>3. UNCHANGED <<row, lastAudit, mon, past, rounds, sent>>
    BY DEF Abandon
  <1>4. TypeOK'
    BY <1>2, <1>3 DEF IInv, TypeOK
  <1>5. PendSound'
    BY <1>2 DEF IInv, PendSound
  <1> QED
    BY <1>3, <1>4, <1>5
    DEF IInv, DecisionAttributed, ExclusiveAssignment, SentSpent, EmitSpent, Spent,
        OneReminderPerEstimate

\* One UPDATE of one row by a sound set of columns, whatever the row holds by then:
\* types, the decision and the assignment stay in order.
LEMMA UpdateRow ==
    ASSUME IInv, NEW r \in Reqs, NEW p, WellTyped(p), Together(p), OneSide(p),
           row' = [row EXCEPT ![r] = Apply(row[r], p)]
    PROVE  /\ DOMAIN row' = Reqs
           /\ \A s \in Reqs : row'[s] = IF s = r THEN Apply(row[r], p) ELSE row[s]
           /\ \A s \in Reqs : DOMAIN row'[s] = DOMAIN Column /\ WellTyped(row'[s])
           /\ DecisionAttributed' /\ ExclusiveAssignment'
  <1>1. DOMAIN row = Reqs /\ \A s \in Reqs : DOMAIN row[s] = DOMAIN Column /\ WellTyped(row[s])
    BY DEF IInv, TypeOK
  <1>2. /\ DOMAIN row' = Reqs
        /\ \A s \in Reqs : row'[s] = IF s = r THEN Apply(row[r], p) ELSE row[s]
    BY <1>1
  <1>3. \A s \in Reqs : DOMAIN row'[s] = DOMAIN Column /\ WellTyped(row'[s])
    BY <1>1, <1>2, ApplyTyped
  <1>4. \A s \in Reqs : Attributed(row[s]) /\ (row[s].staff = "set" => row[s].provider = NoId)
    BY DEF IInv, DecisionAttributed, ExclusiveAssignment, Attributed
  <1>5. \A s \in Reqs : Attributed(row'[s])
    BY <1>1, <1>2, <1>4, ApplyAttributed
  <1>6. \A s \in Reqs : row'[s].staff = "set" => row'[s].provider = NoId
    BY <1>1, <1>2, <1>4, ApplyOneSide
  <1> QED
    BY <1>2, <1>3, <1>5, <1>6 DEF DecisionAttributed, ExclusiveAssignment, Attributed

\* The commit of a handler: a round of the estimate that was reminded of ends or is
\* followed by a new round, so reminders already sent stay spent.
LEMMA CommitIInv ==
    ASSUME IInv, NEW c \in Handlers, Commit(c)
    PROVE  IInv'
  <1> DEFINE r == pend[c].req
             p == pend[c].patch
             asks == "estimate" \in DOMAIN p /\ p.estimate = "REQUESTED"
  <1>1. /\ pend[c] # Idle
        /\ row' = [row EXCEPT ![r] = Apply(row[r], p)]
        /\ lastAudit' = IF pend[c].audit = "none" THEN lastAudit
                        ELSE [lastAudit EXCEPT ![r] = pend[c].audit]
        /\ rounds' = IF asks THEN [rounds EXCEPT ![r] = rounds[r] + 1] ELSE rounds
        /\ pend' = [pend EXCEPT ![c] = Idle]
        /\ UNCHANGED <<mon, past, sent>>
    BY DEF Commit
  <1>2. r \in Reqs /\ pend[c].audit \in Audited \cup {"none"}
    BY <1>1 DEF IInv, TypeOK
  <1>3. Sound(p)
    BY <1>1 DEF IInv, PendSound
  <1> HIDE DEF r, p
  <1>4. /\ DOMAIN row' = Reqs
        /\ \A s \in Reqs : row'[s] = IF s = r THEN Apply(row[r], p) ELSE row[s]
        /\ \A s \in Reqs : DOMAIN row'[s] = DOMAIN Column /\ WellTyped(row'[s])
        /\ DecisionAttributed' /\ ExclusiveAssignment'
    BY <1>1, <1>2, <1>3, UpdateRow DEF Sound
  <1>5. DOMAIN pend = Handlers
    BY DEF IInv, TypeOK
  <1>6. /\ DOMAIN pend' = Handlers
        /\ \A k \in Handlers : pend'[k] = IF k = c THEN Idle ELSE pend[k]
    BY <1>1, <1>5
  <1>7. lastAudit \in [Reqs -> Audited \cup {"none"}] /\ rounds \in [Reqs -> Nat]
    BY DEF IInv, TypeOK
  <1>8. lastAudit' \in [Reqs -> Audited \cup {"none"}] /\ rounds' \in [Reqs -> Nat]
    BY <1>1, <1>2, <1>7
  <1>9. TypeOK'
    BY <1>1, <1>4, <1>6, <1>8 DEF IInv, TypeOK
  <1>10. PendSound'
    BY <1>6 DEF IInv, PendSound
  <1>11. ASSUME NEW s \in Reqs, NEW n \in Nat, Spent(s, n)
         PROVE  Spent(s, n)'
    <2>1. CASE s # r
      <3>1. row'[s] = row[s] /\ rounds'[s] = rounds[s]
        BY <1>1, <1>4, <1>7, <2>1
      <3> QED
        BY <1>11, <3>1 DEF Spent
    <2>2. CASE s = r /\ asks
      <3>1. rounds'[s] = rounds[s] + 1
        BY <1>1, <1>2, <1>7, <2>2
      <3> QED
        BY <1>7, <1>11, <3>1 DEF Spent
    <2>3. CASE s = r /\ ~asks
      <3>1. rounds'[s] = rounds[s] /\ row'[s] = Apply(row[s], p)
        BY <1>1, <1>4, <2>3
      <3>2. DOMAIN row[s] = DOMAIN Column
        BY DEF IInv, TypeOK
      <3>3. \/ row'[s].estimate = "SUBMITTED"
            \/ row'[s].estimate = row[s].estimate /\ row'[s].reminded = row[s].reminded
        BY <1>3, <2>3, <3>1, <3>2 DEF Sound, Restarts, Apply, Column
      <3> QED
        BY <1>11, <3>1, <3>3 DEF Spent
    <2> QED
      BY <2>1, <2>2, <2>3
  <1>12. SentSpent' /\ EmitSpent'
    BY <1>1, <1>11 DEF IInv, SentSpent, EmitSpent
  <1>13. OneReminderPerEstimate'
    BY <1>1 DEF IInv, OneReminderPerEstimate
  <1> QED
    BY <1>4, <1>9, <1>10, <1>12, <1>13 DEF IInv

\* A new request has no decision, no assignee and no estimate.
LEMMA CreateIInv ==
    ASSUME IInv, NEW r \in Reqs, NEW i \in Intakes, NEW e \in Flags,
           CreateResidentRequest(r, i, e)
    PROVE  IInv'
  <1> DEFINE p == [status |-> "OPEN", intake |-> i, emergency |-> e]
             x == Apply(NewRow, p)
  <1>1. /\ row' = [row EXCEPT ![r] = x]
        /\ UNCHANGED <<lastAudit, pend, mon, past, rounds, sent>>
    BY DEF CreateResidentRequest
  <1>2. DOMAIN row = Reqs
    BY DEF IInv, TypeOK
  <1>3. DOMAIN row' = Reqs /\ \A s \in Reqs : row'[s] = IF s = r THEN x ELSE row[s]
    BY <1>1, <1>2
  <1>4. WellTyped(p)
    BY MaintenanceAssumption DEF WellTyped, Column, Statuses, Assignable
  <1>5. DOMAIN x = DOMAIN Column /\ WellTyped(x)
    BY <1>4, ApplyTyped, NewRowTyped
  <1>6. /\ x.approval = "NOT_REQUIRED" /\ x.source = "none" /\ x.decider = "none"
        /\ x.staff = "null" /\ x.estimate = "NOT_REQUESTED"
    BY DEF Apply, NewRow
  <1> HIDE DEF x
  <1>7. TypeOK'
    BY <1>1, <1>3, <1>5 DEF IInv, TypeOK
  <1>8. DecisionAttributed' /\ ExclusiveAssignment'
    BY <1>3, <1>6 DEF IInv, DecisionAttributed, ExclusiveAssignment
  <1>9. \A s \in Reqs, n \in Nat : Spent(s, n) => Spent(s, n)'
    BY <1>1, <1>3, <1>6 DEF Spent
  <1>10. SentSpent' /\ EmitSpent'
    BY <1>1, <1>9 DEF IInv, SentSpent, EmitSpent
  <1> QED
    BY <1>1, <1>7, <1>8, <1>10 DEF IInv, PendSound, OneReminderPerEstimate

\* Time passes.
LEMMA TimeIInv ==
    ASSUME IInv,
           \/ \E r \in Reqs : EstimateFallsDue(r)
           \/ \E d \in Deadlines : DeadlinePasses(d)
    PROVE  IInv'
  <1>1. ASSUME NEW r \in Reqs, EstimateFallsDue(r)
        PROVE  IInv'
    <2> DEFINE p == [due |-> "past"]
    <2>1. WellTyped(p) /\ Together(p) /\ OneSide(p)
      BY DEF WellTyped, Column, Together, DecisionColumns, OneSide
    <2>2. /\ row' = [row EXCEPT ![r] = Apply(row[r], p)]
          /\ UNCHANGED <<lastAudit, pend, mon, past, rounds, sent>>
      BY <1>1 DEF EstimateFallsDue
    <2>3. /\ DOMAIN row' = Reqs
          /\ \A s \in Reqs : row'[s] = IF s = r THEN Apply(row[r], p) ELSE row[s]
          /\ \A s \in Reqs : DOMAIN row'[s] = DOMAIN Column /\ WellTyped(row'[s])
          /\ DecisionAttributed' /\ ExclusiveAssignment'
      BY <2>1, <2>2, UpdateRow
    <2>4. TypeOK'
      BY <2>2, <2>3 DEF IInv, TypeOK
    <2>5. DOMAIN row[r] = DOMAIN Column
      BY DEF IInv, TypeOK
    <2>6. \A s \in Reqs : /\ row'[s].estimate = row[s].estimate
                          /\ row'[s].reminded = row[s].reminded
      BY <2>3, <2>5 DEF Apply, Column
    <2>7. SentSpent' /\ EmitSpent'
      BY <2>2, <2>6 DEF IInv, SentSpent, EmitSpent, Spent
    <2> QED
      BY <2>2, <2>3, <2>4, <2>7 DEF IInv, PendSound, OneReminderPerEstimate
  <1>2. ASSUME NEW d \in Deadlines, DeadlinePasses(d)
        PROVE  IInv'
    <2>1. past' = past \cup {d} /\ UNCHANGED <<row, lastAudit, pend, mon, rounds, sent>>
      BY <1>2 DEF DeadlinePasses
    <2>2. TypeOK'
      BY <2>1 DEF IInv, TypeOK
    <2> QED
      BY <2>1, <2>2
      DEF IInv, PendSound, DecisionAttributed, ExclusiveAssignment, SentSpent, EmitSpent,
          Spent, OneReminderPerEstimate
  <1> QED
    BY <1>1, <1>2

\* The monitor: the conditional UPDATE succeeds only for a round that is not spent, so
\* what the scan is about to emit is new.
LEMMA MonitorIInv ==
    ASSUME IInv, NEW m \in Monitors, MonitorStep(m)
    PROVE  IInv'
  <1> DEFINE MonState == [todo: SUBSET (Reqs \X Nat), emit: Nullable(Reqs \X Nat)]
  <1>0. mon \in [Monitors -> MonState] /\ rounds \in [Reqs -> Nat] /\ sent \subseteq Reqs \X Nat
    BY DEF IInv, TypeOK
  <1>1. ASSUME NEW M \in MonState, mon' = [mon EXCEPT ![m] = M],
               M.emit \in {mon[m].emit, NoId},
               UNCHANGED <<row, lastAudit, pend, past, rounds, sent>>
        PROVE  IInv'
    <2>1. /\ mon' \in [Monitors -> MonState]
          /\ \A k \in Monitors : mon'[k].emit \in {mon[k].emit, NoId}
      BY <1>0, <1>1
    <2>2. TypeOK'
      BY <1>1, <2>1 DEF IInv, TypeOK
    <2>3. EmitSpent' /\ OneReminderPerEstimate'
      BY <1>1, <2>1 DEF IInv, EmitSpent, Spent, OneReminderPerEstimate
    <2> QED
      BY <1>1, <2>2, <2>3
      DEF IInv, PendSound, DecisionAttributed, ExclusiveAssignment, SentSpent, Spent
  <1>2. ASSUME ListPending(m)
        PROVE  IInv'
    <2> DEFINE T == {<<r, rounds[r]>> : r \in {q \in Reqs : ReminderPending(q)}}
               M == [todo |-> T, emit |-> NoId]
    <2>1. T \in SUBSET (Reqs \X Nat)
      BY <1>0
    <2>2. M \in MonState
      BY <2>1 DEF Nullable
    <2>3. mon' = [mon EXCEPT ![m] = M]
      BY <1>2 DEF ListPending
    <2>4. UNCHANGED <<row, lastAudit, pend, past, rounds, sent>>
      BY <1>2 DEF ListPending
    <2> QED
      BY <1>1, <2>2, <2>3, <2>4
  <1>3. ASSUME ScanFails(m)
        PROVE  IInv'
    <2> DEFINE M == [todo |-> {}, emit |-> NoId]
    <2>1. M \in MonState
      BY DEF Nullable
    <2>2. mon' = [mon EXCEPT ![m] = M] /\ UNCHANGED <<row, lastAudit, pend, past, rounds, sent>>
      BY <1>3 DEF ScanFails
    <2> QED
      BY <1>1, <2>1, <2>2
  <1>4. ASSUME EmitReminder(m)
        PROVE  IInv'
    <2>1. /\ mon[m].emit # NoId
          /\ sent' = sent \cup {mon[m].emit}
          /\ mon' = [mon EXCEPT ![m].emit = NoId]
          /\ UNCHANGED <<row, lastAudit, pend, past, rounds>>
      BY <1>4 DEF EmitReminder
    <2>2. mon[m].emit \in Reqs \X Nat
      BY <1>0, <2>1 DEF Nullable
    <2>3. /\ mon' \in [Monitors -> MonState]
          /\ \A k \in Monitors : mon'[k].emit = IF k = m THEN NoId ELSE mon[k].emit
      BY <1>0, <2>1 DEF Nullable
    <2>4. TypeOK'
      BY <2>1, <2>2, <2>3 DEF IInv, TypeOK
    <2>5. SentSpent'
      BY <2>1 DEF IInv, SentSpent, EmitSpent, Spent
    <2>6. EmitSpent'
      BY <2>1, <2>3 DEF IInv, EmitSpent, Spent
    <2>7. OneReminderPerEstimate'
      BY <2>1, <2>3 DEF IInv, OneReminderPerEstimate
    <2> QED
      BY <2>1, <2>4, <2>5, <2>6, <2>7
      DEF IInv, PendSound, DecisionAttributed, ExclusiveAssignment
  <1>5. ASSUME NEW r \in Reqs, NEW n \in 0..MaxRounds, MarkReminder(m, r, n)
        PROVE  IInv'
    <2>1. /\ mon[m].emit = NoId
          /\ UNCHANGED <<lastAudit, pend, past, rounds, sent>>
      BY <1>5 DEF MarkReminder
    <2>2. CASE ReminderPending(r) /\ rounds[r] = n
      <3> DEFINE p == [reminded |-> "set"]
                 M == [todo |-> mon[m].todo \ {<<r, n>>}, emit |-> <<r, n>>]
      <3>1. row' = [row EXCEPT ![r] = Apply(row[r], p)] /\ mon' = [mon EXCEPT ![m] = M]
        BY <1>5, <2>2 DEF MarkReminder
      <3>2. n \in Nat
        BY MaintenanceAssumption
      <3>3. /\ mon' \in [Monitors -> MonState]
            /\ \A k \in Monitors : mon'[k].emit = IF k = m THEN <<r, n>> ELSE mon[k].emit
        BY <1>0, <3>1, <3>2 DEF Nullable
      <3>4. WellTyped(p) /\ Together(p) /\ OneSide(p)
        BY DEF WellTyped, Column, Stamp, Together, DecisionColumns, OneSide
      <3>5. /\ DOMAIN row' = Reqs
            /\ \A s \in Reqs : row'[s] = IF s = r THEN Apply(row[r], p) ELSE row[s]
            /\ \A s \in Reqs : DOMAIN row'[s] = DOMAIN Column /\ WellTyped(row'[s])
            /\ DecisionAttributed' /\ ExclusiveAssignment'
        BY <3>1, <3>4, UpdateRow
      <3>6. TypeOK'
        BY <2>1, <3>3, <3>5 DEF IInv, TypeOK
      <3>7. DOMAIN row[r] = DOMAIN Column
        BY DEF IInv, TypeOK
      <3>8. /\ row'[r].reminded = "set"
            /\ \A s \in Reqs : s # r => row'[s] = row[s]
        BY <3>5, <3>7 DEF Apply, Column
      <3>9. \A s \in Reqs, j \in Nat : Spent(s, j) => Spent(s, j)'
        BY <2>1, <3>8 DEF Spent
      <3>10. Spent(r, n)' /\ ~Spent(r, n)
        BY <1>0, <2>1, <2>2, <3>2, <3>8 DEF Spent, ReminderPending
      <3>11. SentSpent'
        BY <2>1, <3>9 DEF IInv, SentSpent
      <3>12. EmitSpent'
        BY <3>3, <3>9, <3>10 DEF IInv, EmitSpent
      <3>13. /\ <<r, n>> \notin sent
             /\ \A k \in Monitors : mon[k].emit # NoId => mon[k].emit # <<r, n>>
        BY <3>2, <3>10 DEF IInv, SentSpent, EmitSpent
      <3>14. OneReminderPerEstimate'
        BY <2>1, <3>3, <3>13 DEF IInv, OneReminderPerEstimate
      <3> QED
        BY <2>1, <3>5, <3>6, <3>11, <3>12, <3>14 DEF IInv, PendSound
    <2>3. CASE ~(ReminderPending(r) /\ rounds[r] = n)
      <3> DEFINE M == [todo |-> mon[m].todo \ {<<r, n>>}, emit |-> mon[m].emit]
      <3>1. M \in MonState
        BY <1>0
      <3>2. mon' = [mon EXCEPT ![m] = M] /\ row' = row
        BY <1>0, <1>5, <2>3 DEF MarkReminder
      <3> QED
        BY <1>1, <2>1, <3>1, <3>2
    <2> QED
      BY <2>2, <2>3
  <1> QED
    BY <1>2, <1>3, <1>4, <1>5 DEF MonitorStep

------------------------------------------------------------------------------
\* The invariant is inductive.
LEMMA NextIInv == IInv /\ [Next]_vars => IInv'
  <1> SUFFICES ASSUME IInv, [Next]_vars PROVE IInv'
    OBVIOUS
  <1>0. TypeOK
    BY DEF IInv
  <1>1. CASE \E r \in Reqs, i \in Intakes, e \in Flags : CreateResidentRequest(r, i, e)
    BY <1>1, CreateIInv
  <1>2. ASSUME NEW c \in Handlers, NEW r \in Reqs,
               ResidentStep(c, r) \/ ExecutionStep(c, r) \/ ApprovalStep(c, r)
        PROVE  IInv'
    BY <1>0, <1>2, ResidentWrites, ExecutionWrites, ApprovalWrites, WritesIInv
  <1>3. CASE \E c \in Handlers : Commit(c) \/ Abandon(c)
    BY <1>3, CommitIInv, AbandonIInv
  <1>4. CASE \E m \in Monitors : MonitorStep(m)
    BY <1>4, MonitorIInv
  <1>5. CASE \/ \E r \in Reqs : EstimateFallsDue(r)
             \/ \E d \in Deadlines : DeadlinePasses(d)
    BY <1>5, TimeIInv
  <1>6. CASE UNCHANGED vars
    <2>1. TypeOK' /\ PendSound'
      BY <1>6 DEF vars, IInv, TypeOK, PendSound
    <2>2. DecisionAttributed' /\ ExclusiveAssignment'
      BY <1>6 DEF vars, IInv, DecisionAttributed, ExclusiveAssignment
    <2>3. SentSpent' /\ EmitSpent' /\ OneReminderPerEstimate'
      BY <1>6 DEF vars, IInv, SentSpent, EmitSpent, Spent, OneReminderPerEstimate
    <2> QED
      BY <2>1, <2>2, <2>3 DEF IInv
  <1> QED
    BY <1>1, <1>2, <1>3, <1>4, <1>5, <1>6 DEF Next

\* The invariant holds in every reachable state of the maintenance module.
LEMMA Inductive == Spec => []IInv
  BY InitIInv, NextIInv, PTL DEF Spec

\* Rows, pending writes and scans keep their types.
THEOREM TypeCorrect == Spec => []TypeOK
  <1>1. IInv => TypeOK
    BY DEF IInv
  <1> QED
    BY <1>1, Inductive, PTL

\* With any number of racing handlers the approval status of a request and the
\* columns that name its author agree (approve, reject, override, require, estimate).
THEOREM DecisionsAttributed == Spec => []DecisionAttributed
  <1>1. IInv => DecisionAttributed
    BY DEF IInv
  <1> QED
    BY <1>1, Inductive, PTL

\* With any number of racing assignments a request is with the staff or with a
\* provider, never with both.
THEOREM AssignmentExclusive == Spec => []ExclusiveAssignment
  <1>1. IInv => ExclusiveAssignment
    BY DEF IInv
  <1> QED
    BY <1>1, Inductive, PTL

\* With any number of overlapping scans no estimate is reminded of twice.
THEOREM RemindedOnce == Spec => []OneReminderPerEstimate
  <1>1. IInv => OneReminderPerEstimate
    BY DEF IInv
  <1> QED
    BY <1>1, Inductive, PTL


------------------------------------------------------------------------------
(* Handlers of one request one at a time.  Handlers check the row they     *)
(* have read and write later; what they rely on still holds when they      *)
(* commit if no other handler works on the same request meanwhile.  The    *)
(* invariant says so of every pending patch: applied to the row as it is   *)
(* now, it gives a good row.                                               *)

CompletedUnlocked(x) == x.status = "COMPLETED" => Unlocked(x)
AuditMatches(x, a) == x.approval # "NOT_REQUIRED" => a = x.approval

\* a row and the status its newest audit row names
Good(x, a) == CompletedUnlocked(x) /\ AuditMatches(x, a)

\* the newest audit status once a handler has written a
Newest(old, a) == IF a = "none" THEN old ELSE a

\* the patch p and the audit a fit the row x as it is
Fresh(x, old, p, a) ==
    /\ x.status # "NONE"
    /\ Good(Apply(x, p), Newest(old, a))
    /\ x.status \in Closed => Apply(x, p).status = x.status

\* no two handlers work on the same request at once
OneAtATime == \A c, d \in Handlers :
    pend[c] # Idle /\ pend[d] # Idle /\ pend[c].req = pend[d].req => c = d

RowsGood == \A r \in Reqs : Good(row[r], lastAudit[r])
PendFresh == \A c \in Handlers : pend[c] # Idle =>
    Fresh(row[pend[c].req], lastAudit[pend[c].req], pend[c].patch, pend[c].audit)

SerialInv == IInv /\ RowsGood /\ PendFresh

\* handler c has computed a patch that fits the row it read
WritesFresh(c, r) == \E p, a : /\ Fresh(row[r], lastAudit[r], p, a)
                               /\ WillAudit(c, r, p, a)

\* assertExecutionUnlocked looks at these columns and at no others.
LEMMA UnlockedColumns ==
    ASSUME NEW x, NEW y,
           \A f \in {"emergency", "intake", "estimate", "approval", "scope", "amount"} :
               x[f] = y[f]
    PROVE  Unlocked(x) <=> Unlocked(y)
  <1>1. /\ x.emergency = y.emergency /\ x.intake = y.intake /\ x.estimate = y.estimate
        /\ x.approval = y.approval /\ x.scope = y.scope /\ x.amount = y.amount
    OBVIOUS
  <1>2. Route(x) = Route(y)
    BY <1>1 DEF Route, Urgent
  <1> QED
    BY <1>1, <1>2 DEF Unlocked

\* Two UPDATEs of a row that is the same but for columns neither policy nor
\* assignment looks at give rows that are equally good.
LEMMA GoodColumns ==
    ASSUME NEW x, NEW y, NEW a,
           \A f \in {"emergency", "intake", "estimate", "approval", "scope", "amount",
                     "status", "worker", "provider"} : x[f] = y[f]
    PROVE  Good(x, a) <=> Good(y, a)
  <1>1. Unlocked(x) <=> Unlocked(y)
    BY UnlockedColumns
  <1>2. /\ x.status = y.status /\ x.worker = y.worker /\ x.provider = y.provider
        /\ x.approval = y.approval
    OBVIOUS
  <1> QED
    BY <1>1, <1>2 DEF Good, CompletedUnlocked, AuditMatches

\* The resident's handlers.
LEMMA ResidentFresh ==
    ASSUME TypeOK, RowsGood, NEW c \in Handlers, NEW r \in Reqs, ResidentStep(c, r)
    PROVE  WritesFresh(c, r)
  <1> DEFINE x == row[r]
             old == lastAudit[r]
  <1>0. DOMAIN x = DOMAIN Column /\ Good(x, old)
    BY DEF TypeOK, RowsGood
  <1>1. ASSUME NEW i \in Nullable(Intakes), NEW e \in Nullable(Flags),
               UpdateResidentRequest(c, r, i, e)
        PROVE  WritesFresh(c, r)
    <2> DEFINE p == [intake |-> Given(i, x.intake), emergency |-> Given(e, x.emergency)]
               y == Apply(x, p)
    <2>1. x.status = "OPEN" /\ WillAudit(c, r, p, "none")
      BY <1>1 DEF UpdateResidentRequest, Will
    <2>2. /\ y.status = x.status /\ y.worker = x.worker /\ y.provider = x.provider
          /\ y.approval = x.approval
      BY <1>0 DEF Apply, Column
    <2>3. Fresh(x, old, p, "none")
      BY <1>0, <2>1, <2>2
      DEF Fresh, Good, CompletedUnlocked, AuditMatches, Newest, Closed
    <2> QED
      BY <2>1, <2>3 DEF WritesFresh
  <1>2. ASSUME CancelResidentRequest(c, r)
        PROVE  WritesFresh(c, r)
    <2> DEFINE p == [status |-> "CANCELED"]
               y == Apply(x, p)
    <2>1. x.status \notin Closed /\ x.status # "NONE" /\ WillAudit(c, r, p, "none")
      BY <1>2 DEF CancelResidentRequest, Found, Will
    <2>2. /\ y.status = "CANCELED" /\ y.worker = x.worker /\ y.provider = x.provider
          /\ y.approval = x.approval
      BY <1>0 DEF Apply, Column
    <2>3. Fresh(x, old, p, "none")
      BY <1>0, <2>1, <2>2
      DEF Fresh, Good, CompletedUnlocked, AuditMatches, Newest
    <2> QED
      BY <2>1, <2>3 DEF WritesFresh
  <1> QED
    BY <1>1, <1>2 DEF ResidentStep

\* Assignment, status changes, cancellation and the request for an estimate: a worker
\* is only named for the provider the row has, and COMPLETED only given to a row that
\* is unlocked as it stands.
LEMMA ExecutionFresh ==
    ASSUME TypeOK, RowsGood, NEW c \in Handlers, NEW r \in Reqs, ExecutionStep(c, r)
    PROVE  WritesFresh(c, r)
  <1> DEFINE x == row[r]
             old == lastAudit[r]
  <1>0. DOMAIN x = DOMAIN Column /\ Good(x, old)
    BY DEF TypeOK, RowsGood
  <1>1. ASSUME AssignRequest(c, r)
        PROVE  WritesFresh(c, r)
    <2> DEFINE p == [staff |-> "set", provider |-> NoId, worker |-> NoId,
                     status |-> "ASSIGNED"]
               y == Apply(x, p)
    <2>1. x.status \in Assignable /\ x.status # "NONE" /\ WillAudit(c, r, p, "none")
      BY <1>1 DEF AssignRequest, Found, Will
    <2>2. y.status = "ASSIGNED" /\ y.worker = NoId /\ y.approval = x.approval
      BY <1>0 DEF Apply, Column
    <2>3. Fresh(x, old, p, "none")
      BY <1>0, <2>1, <2>2
      DEF Fresh, Good, CompletedUnlocked, AuditMatches, Newest, Closed,
          Assignable
    <2> QED
      BY <2>1, <2>3 DEF WritesFresh
  <1>2. ASSUME UnassignProvider(c, r)
        PROVE  WritesFresh(c, r)
    <2> DEFINE p == [provider |-> NoId, worker |-> NoId, status |-> "OPEN"]
               y == Apply(x, p)
    <2>1. x.status \in Assignable /\ x.status # "NONE" /\ WillAudit(c, r, p, "none")
      BY <1>2 DEF UnassignProvider, Found, Will
    <2>2. y.status = "OPEN" /\ y.worker = NoId /\ y.approval = x.approval
      BY <1>0 DEF Apply, Column
    <2>3. Fresh(x, old, p, "none")
      BY <1>0, <2>1, <2>2
      DEF Fresh, Good, CompletedUnlocked, AuditMatches, Newest, Closed,
          Assignable
    <2> QED
      BY <2>1, <2>3 DEF WritesFresh
  <1>3. ASSUME CancelBuildingRequest(c, r)
        PROVE  WritesFresh(c, r)
    <2> DEFINE p == [status |-> "CANCELED"]
               y == Apply(x, p)
    <2>1. x.status \notin Closed /\ x.status # "NONE" /\ WillAudit(c, r, p, "none")
      BY <1>3 DEF CancelBuildingRequest, Found, Will
    <2>2. /\ y.status = "CANCELED" /\ y.worker = x.worker /\ y.provider = x.provider
          /\ y.approval = x.approval
      BY <1>0 DEF Apply, Column
    <2>3. Fresh(x, old, p, "none")
      BY <1>0, <2>1, <2>2
      DEF Fresh, Good, CompletedUnlocked, AuditMatches, Newest
    <2> QED
      BY <2>1, <2>3 DEF WritesFresh
  <1>4. ASSUME NEW p \in Providers, AssignProvider(c, r, p)
        PROVE  WritesFresh(c, r)
    <2> DEFINE q == [staff |-> "null", provider |-> p, worker |-> NoId,
                     status |-> "ASSIGNED"]
               y == Apply(x, q)
    <2>1. x.status \in Assignable /\ x.status # "NONE" /\ WillAudit(c, r, q, "none")
      BY <1>4 DEF AssignProvider, Found, Will
    <2>2. y.status = "ASSIGNED" /\ y.worker = NoId /\ y.approval = x.approval
      BY <1>0 DEF Apply, Column
    <2>3. Fresh(x, old, q, "none")
      BY <1>0, <2>1, <2>2
      DEF Fresh, Good, CompletedUnlocked, AuditMatches, Newest, Closed,
          Assignable
    <2> QED
      BY <2>1, <2>3 DEF WritesFresh
  <1>5. ASSUME NEW p \in Providers, RequestEstimateFromProvider(c, r, p)
        PROVE  WritesFresh(c, r)
    <2> DEFINE q == Plus(NoApproval,
                       [staff |-> "null", provider |-> p, worker |-> NoId,
                        status |-> "OPEN", estimate |-> "REQUESTED", due |-> "future",
                        reminded |-> "null", amount |-> NoId])
               y == Apply(x, q)
    <2>1. x.status \in Assignable /\ x.status # "NONE" /\ WillAudit(c, r, q, "none")
      BY <1>5 DEF RequestEstimateFromProvider, Found, Will
    <2>2. y.status = "OPEN" /\ y.worker = NoId /\ y.approval = "NOT_REQUIRED"
      BY <1>0 DEF Apply, Column, Plus, NoApproval, Undecided
    <2> HIDE DEF q
    <2>3. Fresh(x, old, q, "none")
      BY <1>0, <2>1, <2>2
      DEF Fresh, Good, CompletedUnlocked, AuditMatches, Closed, Assignable
    <2> QED
      BY <2>1, <2>3 DEF WritesFresh
  <1>6. ASSUME NEW w \in Workers, AssignProviderWorker(c, r, w)
        PROVE  WritesFresh(c, r)
    <2> DEFINE p == [staff |-> "null", worker |-> w, status |-> "ASSIGNED"]
               y == Apply(x, p)
    <2>1. /\ x.status \in Assignable /\ x.status # "NONE" /\ <<x.provider, w>> \in Members
          /\ WillAudit(c, r, p, "none")
      BY <1>6 DEF AssignProviderWorker, Found, Will
    <2>2. /\ y.status = "ASSIGNED" /\ y.worker = w /\ y.provider = x.provider
          /\ y.approval = x.approval
      BY <1>0 DEF Apply, Column
    <2>3. Fresh(x, old, p, "none")
      BY <1>0, <2>1, <2>2
      DEF Fresh, Good, CompletedUnlocked, AuditMatches, Newest, Closed,
          Assignable
    <2> QED
      BY <2>1, <2>3 DEF WritesFresh
  <1>7. ASSUME NEW next \in Statuses, UpdateRequestStatus(c, r, next)
        PROVE  WritesFresh(c, r)
    <2> DEFINE p == [status |-> next]
               y == Apply(x, p)
    <2>1. /\ <<x.status, next>> \in StatusTransitions /\ x.status # "NONE" /\ Unlocked(x)
          /\ WillAudit(c, r, p, "none")
      BY <1>7 DEF UpdateRequestStatus, Found, Will
    <2>2. \A f \in DOMAIN Column : f # "status" => y[f] = x[f]
      BY <1>0 DEF Apply
    <2>3. Unlocked(y)
      BY <2>1, <2>2, UnlockedColumns DEF Column
    <2>4. y.worker = x.worker /\ y.provider = x.provider /\ y.approval = x.approval
      BY <2>2 DEF Column
    <2>5. x.status \notin Closed
      BY <2>1 DEF StatusTransitions, Closed
    <2>6. Fresh(x, old, p, "none")
      BY <1>0, <2>1, <2>3, <2>4, <2>5
      DEF Fresh, Good, CompletedUnlocked, AuditMatches, Newest
    <2> QED
      BY <2>1, <2>6 DEF WritesFresh
  <1> QED
    BY <1>1, <1>2, <1>3, <1>4, <1>5, <1>6, <1>7
    DEF ExecutionStep, AssignProviderWorkerFromProvider, UpdateProviderRequestStatus

\* A patch that leaves the status, the worker and the provider alone fits an open
\* row, and any row when the owner is being asked, if its approval column is audited.
LEMMA ApprovalPatchFresh ==
    ASSUME NEW x, NEW old, NEW p, NEW a,
           DOMAIN x = DOMAIN Column, Good(x, old), x.status # "NONE",
           x.status \in Closed => x.approval = "PENDING",
           {"status", "worker", "provider"} \cap DOMAIN p = {},
           AuditMatches(Apply(x, p), Newest(old, a))
    PROVE  Fresh(x, old, p, a)
  <1> DEFINE y == Apply(x, p)
  <1>1. y.status = x.status /\ y.worker = x.worker /\ y.provider = x.provider
    BY DEF Apply, Column
  <1>2. x.status # "COMPLETED"
    BY DEF Good, CompletedUnlocked, Unlocked, Closed
  <1> QED
    BY <1>1, <1>2 DEF Fresh, Good, CompletedUnlocked

\* The approval handlers, the triage and the submission of an estimate.  Those that do
\* not look at the status ask for an open question to the owner, which completed work
\* never has.
LEMMA ApprovalFresh ==
    ASSUME TypeOK, RowsGood, NEW c \in Handlers, NEW r \in Reqs, ApprovalStep(c, r)
    PROVE  WritesFresh(c, r)
  <1> DEFINE x == row[r]
             old == lastAudit[r]
  <1>0. DOMAIN x = DOMAIN Column /\ Good(x, old)
    BY DEF TypeOK, RowsGood
  <1>a. ASSUME NEW t \in Triages, NEW d \in Nullable(Deadlines), NEW s,
               x.status # "NONE", x.status \notin Closed,
               WillAudit(c, r, Plus(Undecided, Plus(Triage(t, x),
                   [approval |-> "PENDING", asked |-> s,
                    deadline |-> Given(d, x.deadline)])), "PENDING")
        PROVE  WritesFresh(c, r)
    <2> DEFINE p == Plus(Undecided, Plus(Triage(t, x),
                        [approval |-> "PENDING", asked |-> s,
                         deadline |-> Given(d, x.deadline)]))
    <2>1. {"status", "worker", "provider"} \cap DOMAIN p = {}
      BY DEF Plus, Undecided, Triage
    <2>2. Apply(x, p).approval = "PENDING"
      BY <1>0 DEF Apply, Column, Plus, Undecided, Triage
    <2>3. WillAudit(c, r, p, "PENDING")
      BY <1>a
    <2> HIDE DEF p
    <2>4. Fresh(x, old, p, "PENDING")
      BY <1>0, <1>a, <2>1, <2>2, ApprovalPatchFresh DEF AuditMatches, Newest
    <2> QED
      BY <2>3, <2>4 DEF WritesFresh
  <1>1. ASSUME NEW t \in Triages, NEW d \in Nullable(Deadlines),
               RequireOwnerApproval(c, r, t, d)
        PROVE  WritesFresh(c, r)
    BY <1>1, <1>a DEF RequireOwnerApproval, Found
  <1>2. ASSUME NEW t \in Triages, NEW d \in Nullable(Deadlines),
               RequestOwnerApprovalNow(c, r, t, d)
        PROVE  WritesFresh(c, r)
    BY <1>2, <1>a DEF RequestOwnerApprovalNow, Found
  <1>3. ASSUME NEW t \in Triages, NEW d \in Nullable(Deadlines),
               SubmitRequestEstimateInTx(c, r, t, d)
        PROVE  WritesFresh(c, r)
    <2> DEFINE submitted == Plus(Triage(t, x), [estimate |-> "SUBMITTED",
                                                reminded |-> "null"])
               p1 == Plus(submitted, Plus(Undecided,
                         [approval |-> "PENDING", asked |-> "set",
                          deadline |-> Given(d, x.deadline)]))
               p2 == Plus(submitted, NoApproval)
               a == IF x.approval = "PENDING" /\ x.asked = "set" THEN "none"
                    ELSE "PENDING"
    <2>1. /\ WillAudit(c, r, p1, a) \/ WillAudit(c, r, p2, "none")
          /\ x.status # "NONE" /\ x.status \notin Closed
      BY <1>3 DEF SubmitRequestEstimateInTx, Will, Found
    <2>2. /\ {"status", "worker", "provider"} \cap DOMAIN p1 = {}
          /\ {"status", "worker", "provider"} \cap DOMAIN p2 = {}
      BY DEF Plus, Undecided, Triage, NoApproval
    <2>3. Apply(x, p1).approval = "PENDING"
      BY <1>0 DEF Apply, Column, Plus, Undecided, Triage
    <2>4. Apply(x, p2).approval = "NOT_REQUIRED"
      BY <1>0 DEF Apply, Column, Plus, Undecided, Triage, NoApproval
    <2> HIDE DEF p1, p2
    <2>5. Newest(old, a) = "PENDING"
      BY <1>0 DEF Newest, Good, AuditMatches
    <2> HIDE DEF a
    <2>6. AuditMatches(Apply(x, p1), Newest(old, a))
      BY <2>3, <2>5 DEF AuditMatches
    <2>7. AuditMatches(Apply(x, p2), Newest(old, "none"))
      BY <2>4 DEF AuditMatches
    <2>8. Fresh(x, old, p1, a) /\ Fresh(x, old, p2, "none")
      BY <1>0, <2>1, <2>2, <2>6, <2>7, ApprovalPatchFresh
    <2> QED
      BY <2>1, <2>8 DEF WritesFresh
  <1>4. ASSUME NEW t \in Triages, UpdateRequestPolicyTriage(c, r, t)
        PROVE  WritesFresh(c, r)
    <2> DEFINE p == Triage(t, x)
    <2>1. WillAudit(c, r, p, "none") /\ x.status # "NONE" /\ x.status \notin Closed
      BY <1>4 DEF UpdateRequestPolicyTriage, Will, Found
    <2>2. {"status", "worker", "provider"} \cap DOMAIN p = {}
      BY DEF Triage
    <2>3. Apply(x, p).approval = x.approval
      BY <1>0 DEF Apply, Column, Triage
    <2> HIDE DEF p
    <2>4. Fresh(x, old, p, "none")
      BY <1>0, <2>1, <2>2, <2>3, ApprovalPatchFresh DEF Good, AuditMatches, Newest
    <2> QED
      BY <2>1, <2>4 DEF WritesFresh
  <1>5. ASSUME NEW resend \in BOOLEAN, MarkOwnerApprovalRequested(c, r, resend)
        PROVE  WritesFresh(c, r)
    <2> DEFINE p == [asked |-> "set"]
    <2>1. WillAudit(c, r, p, "PENDING") /\ x.status # "NONE" /\ x.approval = "PENDING"
      BY <1>5 DEF MarkOwnerApprovalRequested, Found
    <2>2. Apply(x, p).approval = "PENDING"
      BY <1>0, <2>1 DEF Apply, Column
    <2>3. {"status", "worker", "provider"} \cap DOMAIN p = {}
      OBVIOUS
    <2> HIDE DEF p
    <2>4. Fresh(x, old, p, "PENDING")
      BY <1>0, <2>1, <2>2, <2>3, ApprovalPatchFresh DEF AuditMatches, Newest
    <2> QED
      BY <2>1, <2>4 DEF WritesFresh
  <1>b. ASSUME NEW v \in {"APPROVED", "REJECTED"}, NEW s, NEW k,
               x.status # "NONE", x.approval = "PENDING",
               WillAudit(c, r, [approval |-> v, source |-> s, decider |-> k], v)
        PROVE  WritesFresh(c, r)
    <2> DEFINE p == [approval |-> v, source |-> s, decider |-> k]
    <2>1. Apply(x, p).approval = v
      BY <1>0 DEF Apply, Column
    <2>2. {"status", "worker", "provider"} \cap DOMAIN p = {}
      OBVIOUS
    <2>3. WillAudit(c, r, p, v)
      BY <1>b
    <2> HIDE DEF p
    <2>4. Fresh(x, old, p, v)
      BY <1>0, <1>b, <2>1, <2>2, ApprovalPatchFresh DEF AuditMatches, Newest
    <2> QED
      BY <2>3, <2>4 DEF WritesFresh
  <1>6. ASSUME NEW source \in Sources, OverrideOwnerApproval(c, r, source)
        PROVE  WritesFresh(c, r)
    BY <1>6, <1>b DEF OverrideOwnerApproval, Found
  <1>7. ASSUME ApproveAccessibleRequest(c, r) \/ RejectAccessibleRequest(c, r)
        PROVE  WritesFresh(c, r)
    BY <1>7, <1>b DEF ApproveAccessibleRequest, RejectAccessibleRequest, Found
  <1> QED
    BY <1>1, <1>2, <1>3, <1>4, <1>5, <1>6, <1>7
    DEF ApprovalStep, SubmitRequestEstimate, SubmitProviderRequestEstimate

\* Time and the monitor write columns that no check of a handler looks at: rows stay
\* good and pending patches keep fitting.
LEMMA UnrelatedColumn ==
    ASSUME TypeOK, RowsGood, PendFresh, NEW r \in Reqs, NEW p,
           DOMAIN p = {"due"} \/ DOMAIN p = {"reminded"},
           row' = [row EXCEPT ![r] = Apply(row[r], p)], UNCHANGED <<lastAudit, pend>>
    PROVE  RowsGood' /\ PendFresh'
  <1> DEFINE F == {"emergency", "intake", "estimate", "approval", "scope", "amount",
                   "status", "worker", "provider"}
  <1>1. \A s \in Reqs : DOMAIN row[s] = DOMAIN Column
    BY DEF TypeOK
  <1>2. /\ DOMAIN row = Reqs
        /\ \A s \in Reqs : row'[s] = IF s = r THEN Apply(row[r], p) ELSE row[s]
    BY DEF TypeOK
  <1>3. \A s \in Reqs : DOMAIN row'[s] = DOMAIN Column /\ \A f \in F : row'[s][f] = row[s][f]
    BY <1>1, <1>2 DEF Apply, Column
  <1>4. \A s \in Reqs : row'[s].status = row[s].status
    BY <1>3
  <1>5. RowsGood'
    BY <1>3, GoodColumns DEF RowsGood
  <1>6. ASSUME NEW c \in Handlers, pend[c] # Idle
        PROVE  Fresh(row[pend[c].req], lastAudit[pend[c].req], pend[c].patch, pend[c].audit)'
    <2>0. PICK s, q, a : s = pend[c].req /\ q = pend[c].patch /\ a = pend[c].audit
      OBVIOUS
    <2>1. s \in Reqs /\ s = pend[c].req /\ q = pend[c].patch /\ a = pend[c].audit
      BY <1>6, <2>0 DEF TypeOK
    <2> DEFINE y == Apply(row[s], q)
               z == Apply(row'[s], q)
    <2>2. Fresh(row[s], lastAudit[s], q, a)
      BY <1>6, <2>1 DEF PendFresh
    <2>3. \A f \in F : z[f] = y[f]
      BY <1>1, <1>3 DEF Apply, Column
    <2>4. z.status = y.status
      BY <2>3
    <2>5. Good(z, Newest(lastAudit[s], a))
      BY <2>2, <2>3, GoodColumns DEF Fresh
    <2>6. Fresh(row'[s], lastAudit[s], q, a)
      BY <1>4, <2>2, <2>4, <2>5 DEF Fresh
    <2> QED
      BY <2>1, <2>6
  <1> QED
    BY <1>5, <1>6 DEF PendFresh

\* A handler that starts computes its patch from the row as it is.
LEMMA StartSerial ==
    ASSUME TypeOK, RowsGood, PendFresh, NEW c \in Handlers, NEW r \in Reqs,
           WritesFresh(c, r)
    PROVE  RowsGood' /\ PendFresh' /\ row' = row
  <1>1. PICK p, a : Fresh(row[r], lastAudit[r], p, a) /\ WillAudit(c, r, p, a)
    BY DEF WritesFresh
  <1>2. /\ pend' = [pend EXCEPT ![c] = [req |-> r, patch |-> p, audit |-> a]]
        /\ UNCHANGED <<row, lastAudit>>
    BY <1>1 DEF WillAudit
  <1>3. \A k \in Handlers : pend'[k] = IF k = c THEN [req |-> r, patch |-> p, audit |-> a]
                                       ELSE pend[k]
    BY <1>2 DEF TypeOK
  <1> QED
    BY <1>1, <1>2, <1>3 DEF RowsGood, PendFresh

\* A commit applies a patch that fits the row, and no other handler's patch is for it.
LEMMA CommitSerial ==
    ASSUME TypeOK, RowsGood, PendFresh, OneAtATime, NEW c \in Handlers, Commit(c)
    PROVE  /\ RowsGood' /\ PendFresh'
           /\ \A s \in Reqs : row[s].status \in Closed => row'[s].status = row[s].status
  <1>0. pend[c] # Idle
    BY DEF Commit
  <1>a. PICK r, p, a : r = pend[c].req /\ p = pend[c].patch /\ a = pend[c].audit
    OBVIOUS
  <1>1. /\ r = pend[c].req /\ p = pend[c].patch /\ a = pend[c].audit
        /\ r \in Reqs
    BY <1>0, <1>a DEF TypeOK
  <1>2. /\ row' = [row EXCEPT ![r] = Apply(row[r], p)]
        /\ lastAudit' = IF a = "none" THEN lastAudit ELSE [lastAudit EXCEPT ![r] = a]
        /\ pend' = [pend EXCEPT ![c] = Idle]
    BY <1>1 DEF Commit
  <1>3. /\ \A s \in Reqs : row'[s] = IF s = r THEN Apply(row[r], p) ELSE row[s]
        /\ \A s \in Reqs : lastAudit'[s] = IF s = r THEN Newest(lastAudit[r], a)
                                           ELSE lastAudit[s]
        /\ \A k \in Handlers : pend'[k] = IF k = c THEN Idle ELSE pend[k]
    BY <1>2 DEF TypeOK, Newest
  <1>4. Fresh(row[r], lastAudit[r], p, a)
    BY <1>0, <1>1 DEF PendFresh
  <1>5. RowsGood'
    BY <1>3, <1>4 DEF RowsGood, Fresh
  <1>6. ASSUME NEW k \in Handlers, pend'[k] # Idle
        PROVE  k # c /\ pend'[k] = pend[k] /\ pend[k].req \in Reqs \ {r}
    BY <1>0, <1>1, <1>3, <1>6 DEF OneAtATime, TypeOK
  <1>7. PendFresh'
    BY <1>3, <1>6 DEF PendFresh
  <1>8. \A s \in Reqs : row[s].status \in Closed => row'[s].status = row[s].status
    BY <1>3, <1>4 DEF Fresh
  <1> QED
    BY <1>5, <1>7, <1>8

\* Every step, with one handler at a time on each request, keeps rows good and pending
\* patches fitting, and leaves the status of a closed request alone.
LEMMA NextSerial ==
    ASSUME IInv, RowsGood, PendFresh, OneAtATime, [Next]_vars
    PROVE  /\ RowsGood' /\ PendFresh'
           /\ \A s \in Reqs : row[s].status \in Closed => row'[s].status = row[s].status
  <1> DEFINE Goal == /\ RowsGood' /\ PendFresh'
                     /\ \A s \in Reqs : row[s].status \in Closed
                                        => row'[s].status = row[s].status
  <1>0. TypeOK
    BY DEF IInv
  <1>a. ASSUME NEW r \in Reqs, NEW p, DOMAIN p = {"due"} \/ DOMAIN p = {"reminded"},
               row' = [row EXCEPT ![r] = Apply(row[r], p)], UNCHANGED <<lastAudit, pend>>
        PROVE  Goal
    <2>1. RowsGood' /\ PendFresh'
      BY <1>0, <1>a, UnrelatedColumn
    <2>2. DOMAIN row[r] = DOMAIN Column /\ DOMAIN row = Reqs
      BY <1>0 DEF TypeOK
    <2>3. \A s \in Reqs : row'[s].status = row[s].status
      BY <1>a, <2>2 DEF Apply, Column
    <2> QED
      BY <2>1, <2>3
  <1>b. ASSUME UNCHANGED <<row, lastAudit, pend>>
        PROVE  Goal
    BY <1>b DEF RowsGood, PendFresh
  <1>1. ASSUME NEW r \in Reqs, NEW i \in Intakes, NEW e \in Flags,
               CreateResidentRequest(r, i, e)
        PROVE  Goal
    <2> DEFINE x == Apply(NewRow, [status |-> "OPEN", intake |-> i, emergency |-> e])
    <2>1. /\ row[r].status = "NONE" /\ row' = [row EXCEPT ![r] = x]
          /\ UNCHANGED <<lastAudit, pend>>
      BY <1>1 DEF CreateResidentRequest
    <2>2. \A s \in Reqs : row'[s] = IF s = r THEN x ELSE row[s]
      BY <1>0, <2>1 DEF TypeOK
    <2>3. x.status = "OPEN" /\ x.worker = NoId /\ x.approval = "NOT_REQUIRED"
      BY DEF Apply, NewRow
    <2> HIDE DEF x
    <2>4. RowsGood'
      BY <2>1, <2>2, <2>3
      DEF RowsGood, Good, CompletedUnlocked, AuditMatches
    <2>5. \A c \in Handlers : pend[c] # Idle => pend[c].req \in Reqs \ {r}
      BY <1>0, <2>1 DEF PendFresh, Fresh, TypeOK
    <2>6. PendFresh'
      BY <2>1, <2>2, <2>5 DEF PendFresh
    <2> QED
      BY <2>1, <2>2, <2>4, <2>6 DEF Closed
  <1>2. ASSUME NEW c \in Handlers, NEW r \in Reqs,
               ResidentStep(c, r) \/ ExecutionStep(c, r) \/ ApprovalStep(c, r)
        PROVE  Goal
    <2>1. WritesFresh(c, r)
      BY <1>0, <1>2, ResidentFresh, ExecutionFresh, ApprovalFresh
    <2> QED
      BY <1>0, <2>1, StartSerial
  <1>3. ASSUME NEW c \in Handlers, Commit(c)
        PROVE  Goal
    BY <1>0, <1>3, CommitSerial
  <1>4. ASSUME NEW c \in Handlers, Abandon(c)
        PROVE  Goal
    <2>1. \A k \in Handlers : pend'[k] = IF k = c THEN Idle ELSE pend[k]
      BY <1>0, <1>4 DEF Abandon, TypeOK
    <2>2. UNCHANGED <<row, lastAudit>>
      BY <1>4 DEF Abandon
    <2> QED
      BY <2>1, <2>2 DEF RowsGood, PendFresh
  <1>5. ASSUME NEW m \in Monitors, MonitorStep(m)
        PROVE  Goal
    <2>1. CASE ListPending(m) \/ EmitReminder(m) \/ ScanFails(m)
      BY <1>b, <2>1 DEF ListPending, EmitReminder, ScanFails
    <2>2. ASSUME NEW r \in Reqs, NEW n \in 0..MaxRounds, MarkReminder(m, r, n)
          PROVE  Goal
      <3> DEFINE p == [reminded |-> "set"]
      <3>1. /\ row' = [row EXCEPT ![r] = Apply(row[r], p)] \/ row' = row
            /\ UNCHANGED <<lastAudit, pend>>
        BY <2>2 DEF MarkReminder
      <3>2. DOMAIN p = {"reminded"}
        OBVIOUS
      <3> HIDE DEF p
      <3> QED
        BY <1>a, <1>b, <3>1, <3>2
    <2> QED
      BY <1>5, <2>1, <2>2 DEF MonitorStep
  <1>6. ASSUME NEW r \in Reqs, EstimateFallsDue(r)
        PROVE  Goal
    <2> DEFINE p == [due |-> "past"]
    <2>1. row' = [row EXCEPT ![r] = Apply(row[r], p)] /\ UNCHANGED <<lastAudit, pend>>
      BY <1>6 DEF EstimateFallsDue
    <2>2. DOMAIN p = {"due"}
      OBVIOUS
    <2> HIDE DEF p
    <2> QED
      BY <1>a, <2>1, <2>2
  <1>7. ASSUME NEW d \in Deadlines, DeadlinePasses(d)
        PROVE  Goal
    BY <1>7, <1>b DEF DeadlinePasses
  <1>8. CASE UNCHANGED vars
    BY <1>8, <1>b DEF vars
  <1> QED
    BY <1>1, <1>2, <1>3, <1>4, <1>5, <1>6, <1>7, <1>8 DEF Next

\* An empty table is good.
LEMMA InitSerial == Init => RowsGood /\ PendFresh
  <1> SUFFICES ASSUME Init PROVE RowsGood /\ PendFresh
    OBVIOUS
  <1>1. \A r \in Reqs : row[r] = NewRow
    BY DEF Init
  <1>2. \A c \in Handlers : pend[c] = Idle
    BY DEF Init
  <1> QED
    BY <1>1, <1>2
    DEF RowsGood, PendFresh, Good, CompletedUnlocked, AuditMatches, NewRow

\* The invariant holds as long as each request is worked on by one handler at a time.
LEMMA SerialInductive == Spec /\ []OneAtATime => []SerialInv
  <1>1. Init => SerialInv
    BY InitIInv, InitSerial DEF SerialInv
  <1>2. SerialInv /\ OneAtATime /\ [Next]_vars => SerialInv'
    BY NextIInv, NextSerial DEF SerialInv
  <1> QED
    BY <1>1, <1>2, PTL DEF Spec

\* A single handler is never in its own way: with one API request at a time the
\* hypothesis of the theorems below holds.
LEMMA OneHandler ==
    ASSUME \A c, d \in Handlers : c = d
    PROVE  Spec => []OneAtATime
  <1>1. OneAtATime
    BY DEF OneAtATime
  <1> QED
    BY <1>1, PTL

\* If no two handlers work on the same request at once, as a lock on the row would
\* ensure, completed work was unlocked when it was completed and nothing locks it
\* again (updateRequestStatus, assertExecutionUnlocked and the approval handlers).
THEOREM CompletedUnlockedSerially == Spec /\ []OneAtATime => []CompletedWasUnlocked
  <1>1. SerialInv => CompletedWasUnlocked
    BY DEF SerialInv, RowsGood, Good, CompletedUnlocked, CompletedWasUnlocked
  <1> QED
    BY <1>1, SerialInductive, PTL

\* Under the same condition the newest audit row says what the approval status is
\* (also where submitRequestEstimateInTx writes none because the owner was asked
\* before).
THEOREM AuditCurrentSerially == Spec /\ []OneAtATime => []AuditIsCurrent
  <1>1. SerialInv => AuditIsCurrent
    BY DEF SerialInv, RowsGood, Good, AuditMatches, AuditIsCurrent
  <1> QED
    BY <1>1, SerialInductive, PTL

\* Under the same condition no step, of a handler, a scan or the clock, takes a request
\* out of COMPLETED or CANCELED.
THEOREM ClosedFinalSerially == Spec /\ []OneAtATime => ClosedIsFinal
  <1>1. SerialInv /\ OneAtATime /\ [Next]_vars
        => [\A r \in Reqs : row[r].status \in Closed => row'[r].status = row[r].status]_vars
    BY NextSerial DEF SerialInv
  <1> QED
    BY <1>1, SerialInductive, PTL DEF Spec, ClosedIsFinal
=============================================================================
