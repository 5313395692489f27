---------------------------- MODULE DeliveryTasks ----------------------------
(***************************************************************************)
(* The delivery-task queue of infra/queue and the three services that use  *)
(* it: password emails (auth), push notifications and broadcast fan-outs.  *)
(*                                                                         *)
(* A delivery is a row of the DeliveryTask table plus, when Redis accepts  *)
(* it, a BullMQ job with the same id.  An API request creates the row and  *)
(* enqueues the job; when it cannot be enqueued the request runs the       *)
(* delivery itself ("inline").  Workers run jobs; BullMQ retries a job     *)
(* whose processor throws and re-queues a job whose worker died.  An       *)
(* administrator may retry a FAILED task, which creates a replacement.     *)
(*                                                                         *)
(* Every await of the handlers that reads or writes shared state is a step *)
(* of its own.  Database statements are atomic.  Those inside a try block   *)
(* may always fail; those outside of it fail as a fault ("dbError"), which *)
(* the handler does not expect.  The crash actions cover a process that    *)
(* dies between two statements.                                            *)
(***************************************************************************)
EXTENDS Integers, FiniteSets

CONSTANTS
    Tasks,            \* ids of DeliveryTask rows, also the BullMQ job ids
    Callers,          \* API requests: producers and administrators
    Workers,          \* slots of the BullMQ workers
    MaxAttempts,      \* DELIVERY_RETRY_CONFIG.*.attempts
    MaxStalls,        \* BullMQ maxStalledCount
    EnqueueOutcomes,  \* what QueueService.enqueue may do in this deployment
    Faults,           \* the faults the environment may inject
    MaxFaults,        \* how many of them
    NoTask, NoProc

Procs == Callers \cup Workers
Kinds == {"email", "push", "fanout"}
Statuses == {"PENDING", "PROCESSING", "SUCCEEDED", "FAILED", "RETRIED"}
Terminal == {"SUCCEEDED", "FAILED", "RETRIED"}
JobStates == {"none", "waiting", "active", "completed", "failed"}
PCs == {"idle", "create", "dispatch", "start", "mark", "run", "sent", "txRead",
        "txCommit", "push", "failure", "return", "throw", "replaced"}

ASSUME ConstantsAssumption ==
    /\ MaxAttempts \in Nat \ {0}
    /\ MaxStalls \in Nat
    /\ MaxFaults \in Nat
    /\ NoTask \notin Tasks
    /\ NoProc \notin Procs
    /\ Callers \cap Workers = {}
    /\ EnqueueOutcomes \subseteq {"queued", "disabled", "error", "ambiguous"}
    /\ Faults \subseteq {"workerCrash", "callerCrash", "lockLoss", "dbError"}

VARIABLES
    task,     \* task[t]: the DeliveryTask row
    job,      \* job[t]: the BullMQ job of task t
    proc,     \* proc[p]: where request or worker p is in its handler
    effects,  \* effects[t]: how often the delivery of t took effect
    origin,   \* origin[t]: the task whose retry created t (history variable)
    orphans,  \* replacements whose retry threw after creating them (history variable)
    faults    \* faults injected so far

vars == <<task, job, proc, effects, origin, orphans, faults>>

TaskRow == [kind: Kinds, status: Statuses \cup {"NONE", "GONE"},
            attemptCount: Nat, replacedBy: Tasks \cup {NoTask}]
JobRow == [state: JobStates, made: Nat, stalls: Nat, owner: Procs \cup {NoProc}]
ProcState == [pc: PCs, task: Tasks \cup {NoTask}, job: Tasks \cup {NoTask},
              source: Tasks \cup {NoTask}, replacement: Tasks \cup {NoTask},
              attempt: Nat]

TypeOK ==
    /\ task \in [Tasks -> TaskRow]
    /\ job \in [Tasks -> JobRow]
    /\ proc \in [Procs -> ProcState]
    /\ effects \in [Tasks -> Nat]
    /\ origin \in [Tasks -> Tasks \cup {NoTask}]
    /\ orphans \subseteq Tasks
    /\ faults \in 0..MaxFaults

Idle == [pc |-> "idle", task |-> NoTask, job |-> NoTask, source |-> NoTask,
         replacement |-> NoTask, attempt |-> 0]

Init ==
    /\ task = [t \in Tasks |-> [kind |-> "email", status |-> "NONE",
                                attemptCount |-> 0, replacedBy |-> NoTask]]
    /\ job = [t \in Tasks |-> [state |-> "none", made |-> 0, stalls |-> 0,
                               owner |-> NoProc]]
    /\ proc = [p \in Procs |-> Idle]
    /\ effects = [t \in Tasks |-> 0]
    /\ origin = [t \in Tasks |-> NoTask]
    /\ orphans = {}
    /\ faults = 0

------------------------------------------------------------------------------
(* Helpers.                                                                *)

\* p moves to program point pc
Goto(p, pc) == proc' = [proc EXCEPT ![p].pc = pc]

\* status update of a row, as the mark* methods of the repository do: blind
SetStatus(t, s) == task' = [task EXCEPT ![t].status = s]

\* the row that DeliveryTasksRepo.create inserts
NewTask(k) == [kind |-> k, status |-> "PENDING", attemptCount |-> 0,
               replacedBy |-> NoTask]

\* processTask is run by a request or by the fan-out that created the task,
\* not by the job of the task itself: allowThrow is false
Inline(p) == proc[p].job # proc[p].task

\* where control goes when processTask ends: to BullMQ when p runs a job, to
\* markRetried when p is an administrator's retry, else the request is over
Leave(p, threw) ==
    CASE proc[p].job # NoTask ->
            [proc[p] EXCEPT !.pc = IF threw /\ ~Inline(p) THEN "throw" ELSE "return"]
      [] proc[p].job = NoTask /\ proc[p].source # NoTask ->
            [proc[p] EXCEPT !.pc = "replaced"]
      [] OTHER -> Idle

Ends(p, threw) == proc' = [proc EXCEPT ![p] = Leave(p, threw)]

\* statuses for which processTask and markProcessing return without effect
Handled == {"SUCCEEDED", "RETRIED", "NONE", "GONE"}

Fault(f) == f \in Faults /\ faults < MaxFaults /\ faults' = faults + 1

\* a statement of processTask outside its try block fails: findById and markProcessing
\* before it, markFailed and markRetryScheduled in the catch block
StatementThrows(p) == proc[p].pc \in {"start", "mark", "failure"} /\ Fault("dbError")

\* an administrator's request runs the replacement it created
RunsReplacement(p) ==
    proc[p].job = NoTask /\ proc[p].source # NoTask /\ proc[p].task = proc[p].replacement

\* mutant: the option is read as the number of retries after the first attempt
JobRetries == MaxAttempts + 1

\* the attempts option given to BullMQ
JobAttempts == MaxAttempts

------------------------------------------------------------------------------
(* API requests.                                                           *)

\* A producer creates the row of a new delivery.
EnqueueDelivery(c, t, k) ==
    /\ proc[c] = Idle
    /\ task[t].status = "NONE"
    /\ task' = [task EXCEPT ![t] = NewTask(k)]
    /\ proc' = [proc EXCEPT ![c] = [Idle EXCEPT !.pc = "dispatch", !.task = t]]
    /\ UNCHANGED <<job, effects, origin, orphans, faults>>

\* mutant: the claim is only a check, the row keeps its status
ClaimForRetryCheckOnly(c, t) ==
    /\ proc[c] = Idle
    /\ task[t].status = "FAILED"
    /\ task[t].replacedBy = NoTask
    /\ proc' = [proc EXCEPT ![c] = [Idle EXCEPT !.pc = "create", !.source = t]]
    /\ UNCHANGED <<task, job, effects, origin, orphans, faults>>

\* mutant: the claim writes a status the rest of the code does not know
ClaimForRetryNewStatus(c, t) ==
    /\ proc[c] = Idle
    /\ task[t].status = "FAILED"
    /\ SetStatus(t, "RETRYING")
    /\ proc' = [proc EXCEPT ![c] = [Idle EXCEPT !.pc = "create", !.source = t]]
    /\ UNCHANGED <<job, effects, origin, orphans, faults>>

\* retry: the claim is one conditional UPDATE; when it matches no row the
\* request answers 409 and changes nothing.
ClaimForRetry(c, t) ==
    /\ proc[c] = Idle
    /\ task[t].status = "FAILED"
    /\ task[t].replacedBy = NoTask
    /\ SetStatus(t, "PROCESSING")
    /\ proc' = [proc EXCEPT ![c] = [Idle EXCEPT !.pc = "create", !.source = t]]
    /\ UNCHANGED <<job, effects, origin, orphans, faults>>

\* mutant: retry forgets the id of the task it created
CreateReplacementUnlinked(c, t) ==
    /\ proc[c].pc = "create"
    /\ task[t].status = "NONE"
    /\ task' = [task EXCEPT ![t] = NewTask(task[proc[c].source].kind)]
    /\ origin' = [origin EXCEPT ![t] = proc[c].source]
    /\ proc' = [proc EXCEPT ![c].pc = "dispatch", ![c].task = t]
    /\ UNCHANGED <<job, effects, orphans, faults>>

\* retryByKind creates the replacement row.
CreateReplacement(c, t) ==
    /\ proc[c].pc = "create"
    /\ task[t].status = "NONE"
    /\ task' = [task EXCEPT ![t] = NewTask(task[proc[c].source].kind)]
    /\ origin' = [origin EXCEPT ![t] = proc[c].source]
    /\ proc' = [proc EXCEPT ![c].pc = "dispatch", ![c].task = t,
                            ![c].replacement = t]
    /\ UNCHANGED <<job, effects, orphans, faults>>

\* retryByKind throws and the claim is released: before the row exists (the user of a
\* password email is gone or inactive, the token cannot be written), or while the request
\* runs the replacement inline, which then is there without a retry that knows of it.
RetryByKindFails(c) ==
    /\ \/ proc[c].pc = "create" /\ UNCHANGED faults
       \/ RunsReplacement(c) /\ StatementThrows(c)
    /\ SetStatus(proc[c].source, "FAILED")
    /\ orphans' = orphans \cup ({proc[c].replacement} \ {NoTask})
    /\ proc' = [proc EXCEPT ![c] = Idle]
    /\ UNCHANGED <<job, effects, origin>>

\* dispatchTask: on success the job waits in Redis and the caller returns; if
\* the queue is disabled or the call throws, the caller delivers inline.  An
\* "ambiguous" call throws although Redis stored the job.
DispatchTask(p, outcome) ==
    /\ proc[p].pc = "dispatch"
    /\ outcome \in EnqueueOutcomes
    /\ job' = IF outcome \in {"queued", "ambiguous"}
              THEN [job EXCEPT ![proc[p].task].state = "waiting"] ELSE job
    /\ IF outcome = "queued" THEN Ends(p, FALSE) ELSE Goto(p, "start")
    /\ UNCHANGED <<task, effects, origin, orphans, faults>>

MarkRetried(c) ==
    /\ proc[c].pc = "replaced"
    /\ task' = [task EXCEPT ![proc[c].source].status = "RETRIED",
                            ![proc[c].source].replacedBy = proc[c].replacement]
    /\ proc' = [proc EXCEPT ![c] = Idle]
    /\ UNCHANGED <<job, effects, origin, orphans, faults>>

------------------------------------------------------------------------------
(* processTask / processDeliveryTask, run by a worker or inline.           *)

\* BullMQ hands a waiting job to a free worker slot.
TakeJob(w, t) ==
    /\ proc[w] = Idle
    /\ job[t].state = "waiting"
    /\ job' = [job EXCEPT ![t].state = "active", ![t].owner = w]
    /\ proc' = [proc EXCEPT ![w] = [Idle EXCEPT !.pc = "start", !.task = t,
                                                !.job = t]]
    /\ UNCHANGED <<task, effects, origin, orphans, faults>>

\* mutant: the processor of the e-mails does not look for SUCCEEDED
StartEmailAgain(p) ==
    /\ proc[p].pc = "start"
    /\ IF /\ task[proc[p].task].status \in Handled
          /\ task[proc[p].task].status # "SUCCEEDED" \/ task[proc[p].task].kind # "email"
       THEN Ends(p, FALSE)
       ELSE proc' = [proc EXCEPT ![p].pc = "mark",
                     ![p].attempt = task[proc[p].task].attemptCount + 1]
    /\ UNCHANGED <<task, job, effects, origin, orphans, faults>>

\* findById and the status checks; the attempt number is computed from the row
\* read here and written by the next step.
Start(p) ==
    /\ proc[p].pc = "start"
    /\ IF task[proc[p].task].status \in Handled
       THEN Ends(p, FALSE)
       ELSE proc' = [proc EXCEPT ![p].pc = "mark",
                     ![p].attempt = task[proc[p].task].attemptCount + 1]
    /\ UNCHANGED <<task, job, effects, origin, orphans, faults>>

MarkProcessing(p) ==
    /\ proc[p].pc = "mark"
    /\ task' = [task EXCEPT ![proc[p].task].status = "PROCESSING",
                            ![proc[p].task].attemptCount = proc[p].attempt]
    /\ Goto(p, IF task[proc[p].task].kind = "fanout" THEN "txRead" ELSE "run")
    /\ UNCHANGED <<job, effects, origin, orphans, faults>>

\* The provider accepts the email or the push batch.
Send(p) ==
    /\ proc[p].pc = "run"
    /\ effects' = [effects EXCEPT ![proc[p].task] = @ + 1]
    /\ Goto(p, "sent")
    /\ UNCHANGED <<task, job, origin, orphans, faults>>

\* deliverToUsersNow returns without a call: no active device, or no provider for it.
NothingToSend(p) ==
    /\ proc[p].pc = "run" /\ task[proc[p].task].kind = "push"
    /\ Goto(p, "sent")
    /\ UNCHANGED <<task, job, effects, origin, orphans, faults>>

SendFails(p) ==
    /\ proc[p].pc = "run"
    /\ Goto(p, "failure")
    /\ UNCHANGED <<task, job, effects, origin, orphans, faults>>

MarkSucceeded(p) ==
    /\ proc[p].pc = "sent"
    /\ SetStatus(proc[p].task, "SUCCEEDED")
    /\ Ends(p, FALSE)
    /\ UNCHANGED <<job, effects, origin, orphans, faults>>

\* The update after the send throws inside the same try block.
MarkSucceededFails(p) ==
    /\ proc[p].pc = "sent"
    /\ Goto(p, "failure")
    /\ UNCHANGED <<task, job, effects, origin, orphans, faults>>

\* Fan-out transaction at READ COMMITTED: the row is read, then the notification
\* rows and the SUCCEEDED mark commit together.
TxRead(p) ==
    /\ proc[p].pc = "txRead"
    /\ IF task[proc[p].task].status = "SUCCEEDED" THEN Ends(p, FALSE)
       ELSE Goto(p, "txCommit")
    /\ UNCHANGED <<task, job, effects, origin, orphans, faults>>

\* mutant: the SUCCEEDED mark is not in the transaction of the notifications
TxCommitSplit(p) ==
    /\ proc[p].pc = "txCommit"
    /\ effects' = [effects EXCEPT ![proc[p].task] = @ + 1]
    /\ Goto(p, "sent")
    /\ UNCHANGED <<task, job, origin, orphans, faults>>

TxCommit(p) ==
    /\ proc[p].pc = "txCommit"
    /\ effects' = [effects EXCEPT ![proc[p].task] = @ + 1]
    /\ SetStatus(proc[p].task, "SUCCEEDED")
    /\ Goto(p, "push")
    /\ UNCHANGED <<job, origin, orphans, faults>>

TxFails(p) ==
    /\ proc[p].pc = "txCommit"
    /\ Goto(p, "failure")
    /\ UNCHANGED <<task, job, effects, origin, orphans, faults>>

\* After the commit the fan-out creates and dispatches a push task in the same
\* process, or does not (push provider "noop", no recipients, or an error that
\* is logged and swallowed).
QueuePush(p, t) ==
    /\ proc[p].pc = "push"
    /\ task[t].status = "NONE"
    /\ task' = [task EXCEPT ![t] = NewTask("push")]
    /\ proc' = [proc EXCEPT ![p].pc = "dispatch", ![p].task = t]
    /\ UNCHANGED <<job, effects, origin, orphans, faults>>

SkipPush(p) ==
    /\ proc[p].pc = "push"
    /\ Ends(p, FALSE)
    /\ UNCHANGED <<task, job, effects, origin, orphans, faults>>

\* mutant: the error is not rethrown to BullMQ
MarkFailureNoThrow(p) ==
    /\ proc[p].pc = "failure"
    /\ SetStatus(proc[p].task,
                 IF proc[p].attempt >= MaxAttempts THEN "FAILED" ELSE "PENDING")
    /\ Ends(p, FALSE)
    /\ UNCHANGED <<job, effects, origin, orphans, faults>>

\* The catch block: exhausted tasks become FAILED, others wait for a retry, and
\* the error is rethrown to BullMQ unless the run is inline.
MarkFailure(p) ==
    /\ proc[p].pc = "failure"
    /\ SetStatus(proc[p].task,
                 IF proc[p].attempt >= MaxAttempts THEN "FAILED" ELSE "PENDING")
    /\ Ends(p, TRUE)
    /\ UNCHANGED <<job, effects, origin, orphans, faults>>

\* An unexpected error goes to BullMQ, or ends the request; the push of a fan-out
\* swallows it.
StatementFails(p) ==
    /\ ~RunsReplacement(p) /\ StatementThrows(p)
    /\ Ends(p, TRUE)
    /\ UNCHANGED <<task, job, effects, origin, orphans>>

------------------------------------------------------------------------------
(* BullMQ and the environment.                                             *)

\* The processor returned or threw.  A worker whose lock is gone cannot move
\* the job.
Acknowledge(w) ==
    /\ proc[w].pc \in {"return", "throw"}
    /\ LET t == proc[w].job
           made == job[t].made + 1
       IN job' = IF job[t].owner # w THEN job
                 ELSE IF proc[w].pc = "return"
                 THEN [job EXCEPT ![t].state = "completed", ![t].owner = NoProc]
                 ELSE [job EXCEPT ![t].state = IF made < JobAttempts THEN "waiting"
                                               ELSE "failed",
                                  ![t].made = made, ![t].owner = NoProc]
    /\ proc' = [proc EXCEPT ![w] = Idle]
    /\ UNCHANGED <<task, effects, origin, orphans, faults>>

\* An active job nobody holds the lock of is re-queued, or failed for good once
\* it stalled too often; the row is not touched either way.
Stalled(t) ==
    /\ job[t].state = "active"
    /\ job[t].owner = NoProc
    /\ job' = [job EXCEPT ![t].state = IF job[t].stalls < MaxStalls THEN "waiting"
                                       ELSE "failed",
                          ![t].stalls = @ + 1]
    /\ UNCHANGED <<task, proc, effects, origin, orphans, faults>>

\* every lock held by w is given up
Unlocked(w) == [t \in Tasks |-> IF job[t].owner = w
                                THEN [job[t] EXCEPT !.owner = NoProc] ELSE job[t]]

CrashWorker(w) ==
    /\ Fault("workerCrash")
    /\ proc[w] # Idle
    /\ proc' = [proc EXCEPT ![w] = Idle]
    /\ job' = Unlocked(w)
    /\ UNCHANGED <<task, effects, origin, orphans>>

CrashCaller(c) ==
    /\ Fault("callerCrash")
    /\ proc[c] # Idle
    /\ proc' = [proc EXCEPT ![c] = Idle]
    /\ UNCHANGED <<task, job, effects, origin, orphans>>

\* The lock expires although the worker is alive (its event loop was blocked).
LoseLock(w) ==
    /\ Fault("lockLoss")
    /\ proc[w].job # NoTask
    /\ job[proc[w].job].owner = w
    /\ job' = Unlocked(w)
    /\ UNCHANGED <<task, proc, effects, origin, orphans>>

\* Retention deletes old terminal rows.  It looks at rows older than at least a
\* day, when no job and no request is still busy with them.
Prune(t) ==
    /\ task[t].status \in Terminal
    /\ job[t].state \notin {"waiting", "active"}
    /\ \A p \in Procs : t \notin {proc[p].task, proc[p].source}
    /\ SetStatus(t, "GONE")
    /\ UNCHANGED <<job, proc, effects, origin, orphans, faults>>

------------------------------------------------------------------------------
ProcessTask(p) ==
    \/ \E o \in EnqueueOutcomes : DispatchTask(p, o)
    \/ Start(p) \/ MarkProcessing(p)
    \/ Send(p) \/ NothingToSend(p) \/ SendFails(p) \/ MarkSucceeded(p) \/ MarkSucceededFails(p)
    \/ TxRead(p) \/ TxCommit(p) \/ TxFails(p)
    \/ SkipPush(p) \/ (\E t \in Tasks : QueuePush(p, t))
    \/ MarkFailure(p) \/ StatementFails(p)

CallerStep(c) ==
    \/ (\E t \in Tasks : CreateReplacement(c, t)) \/ RetryByKindFails(c)
    \/ MarkRetried(c)

Next ==
    \/ \E c \in Callers :
        \/ \E t \in Tasks : (\E k \in Kinds : EnqueueDelivery(c, t, k))
                            \/ ClaimForRetry(c, t)
        \/ CallerStep(c)
        \/ CrashCaller(c)
    \/ \E p \in Procs : ProcessTask(p)
    \/ \E w \in Workers :
        \/ \E t \in Tasks : TakeJob(w, t)
        \/ Acknowledge(w) \/ CrashWorker(w) \/ LoseLock(w)
    \/ \E t \in Tasks : Stalled(t) \/ Prune(t)

Spec == Init /\ [][Next]_vars

\* A request that was started runs on, BullMQ hands out waiting jobs, a worker
\* runs the job it took and stalled jobs are detected.  Nobody is obliged to
\* create or to retry a task, and no fault has to happen.
Fairness ==
    /\ \A p \in Procs : WF_vars(ProcessTask(p))
    /\ \A c \in Callers : WF_vars(CallerStep(c))
    /\ \A w \in Workers : WF_vars(Acknowledge(w))
    /\ \A w \in Workers : WF_vars(\E t \in Tasks : TakeJob(w, t))
    /\ \A t \in Tasks : WF_vars(Stalled(t))

FairSpec == Spec /\ Fairness

------------------------------------------------------------------------------
(* Properties.                                                             *)

\* The notifications of a broadcast are written at most once per task, however
\* often its job is retried, re-queued after a worker died, or found again
\* after the fan-out transaction committed but the worker did not acknowledge
\* (the status checks of BroadcastDeliveryService.processTask).
FanoutAtMostOnce ==
    \A t \in Tasks : task[t].kind = "fanout" => effects[t] <= 1

\* A task that was reported SUCCEEDED is not processed again, although its job may be
\* delivered again, when the worker died before the acknowledgement (the status checks of
\* processTask): nothing is sent, and no worker takes the row back to PROCESSING or
\* PENDING.  An administrator who claimed the row before, while it was FAILED, still
\* finishes or releases the claim.
SuccessIsLast ==
    [][\A t \in Tasks : task[t].status = "SUCCEEDED" =>
          effects'[t] = effects[t] /\ task'[t].status \notin {"PENDING", "PROCESSING"}]_vars

\* A message goes out no more often than attemptCount says, which counts the attempts
\* BullMQ was given and the re-deliveries after a worker died: what an administrator reads
\* before a retry is no less than what recipients may have got (markProcessing,
\* attempts, maxStalledCount).
AttemptsCounted ==
    \A t \in Tasks : /\ effects[t] <= task[t].attemptCount
                     /\ task[t].attemptCount <= MaxAttempts + MaxStalls

\* A task shown as RETRIED names the task that replaced it, which was created
\* for it and delivers the same kind of message (PlatformDeliveryTasksService
\* .retry up to markRetried), even if a late worker wrote the row in between.
RetriedHasReplacement ==
    \A t \in Tasks : task[t].status = "RETRIED" =>
        /\ task[t].replacedBy \in Tasks \ {t}
        /\ origin[task[t].replacedBy] = t
        /\ task[task[t].replacedBy].kind = task[t].kind

\* A failed task is retried once: no two replacements are created for it, however many
\* administrators retry it at the same time (claimForRetry).  A retry that threw after
\* it had created the replacement released its claim (releaseRetryClaim) and does not count:
\* the administrator got an error, and another retry may create another one.
OneReplacementPerTask ==
    \A t1, t2 \in Tasks \ orphans :
        origin[t1] # NoTask /\ origin[t1] = origin[t2] => t1 = t2

\* A task whose job Redis accepted does not stay PENDING or PROCESSING for ever:
\* BullMQ's retries, the re-delivery after a worker crash, the exhausted check of
\* the catch block and an administrator's claim fit together.  (A task whose
\* creator dies before the enqueue has no job and is never picked up.)
QueuedTaskSettles ==
    \A t \in Tasks : job[t].state # "none" /\ task[t].status \in {"PENDING", "PROCESSING"}
                        ~> task[t].status \in Terminal \cup {"GONE"}
==============================================================================
