------------------------- MODULE DeliveryTasksProofs -------------------------
(***************************************************************************)
(* Proofs about DeliveryTasks for any number of tasks, requests, workers,  *)
(* attempts, stalls and faults.                                            *)
(***************************************************************************)
EXTENDS DeliveryTasks, TLAPS

------------------------------------------------------------------------------
(* Type correctness.                                                       *)

\* The program points at which a process works on a task.
AtTask == {"dispatch", "start", "mark", "run", "sent", "txRead", "txCommit",
           "push", "failure"}

\* The ids a handler uses at a program point are there: the task it runs, the
\* task an administrator's retry claimed, the job a worker acknowledges.
ProcOK ==
    \A p \in Procs :
        /\ proc[p].pc \in AtTask => proc[p].task \in Tasks
        /\ proc[p].pc \in {"create", "replaced"} => proc[p].source \in Tasks
        /\ proc[p].pc \in {"return", "throw"} => proc[p].job \in Tasks

TypeInv == TypeOK /\ ProcOK

\* Idle is a process state.
LEMMA IdleType == Idle \in ProcState
BY ConstantsAssumption DEF Idle, ProcState, PCs

\* processTask ends in a state of the right type, at a point whose ids are known.
LEMMA LeaveType ==
    ASSUME TypeOK, NEW p \in Procs, NEW threw \in BOOLEAN
    PROVE  /\ Leave(p, threw) \in ProcState
           /\ Leave(p, threw).pc \notin AtTask \cup {"create"}
           /\ Leave(p, threw).pc = "replaced" => Leave(p, threw).source \in Tasks
           /\ Leave(p, threw).pc \in {"return", "throw"} => Leave(p, threw).job \in Tasks
<1>1. proc[p] \in ProcState
  BY DEF TypeOK
<1>2. CASE proc[p].job # NoTask
  <2>1. Leave(p, threw) =
          [proc[p] EXCEPT !.pc = IF threw /\ ~Inline(p) THEN "throw" ELSE "return"]
    BY <1>2 DEF Leave
  <2>2. QED
    BY <1>1, <1>2, <2>1 DEF ProcState, PCs, AtTask
<1>3. CASE proc[p].job = NoTask /\ proc[p].source # NoTask
  <2>1. Leave(p, threw) = [proc[p] EXCEPT !.pc = "replaced"]
    BY <1>3 DEF Leave
  <2>2. QED
    BY <1>1, <1>3, <2>1 DEF ProcState, PCs, AtTask
<1>4. CASE proc[p].job = NoTask /\ proc[p].source = NoTask
  <2>1. Leave(p, threw) = Idle
    BY <1>4 DEF Leave
  <2>2. QED
    BY <2>1, IdleType DEF Idle, AtTask
<1>5. QED
  BY <1>2, <1>3, <1>4

\* A row inserted by DeliveryTasksRepo.create has its type.
LEMMA NewTaskType == \A k \in Kinds : NewTask(k) \in TaskRow
BY ConstantsAssumption DEF NewTask, TaskRow, Statuses

\* A handler step that changes pc and ids of one process keeps ProcOK when the new
\* state has the ids its program point uses.
LEMMA ProcStep ==
    ASSUME TypeInv, NEW p \in Procs, NEW s \in ProcState,
           proc' = [proc EXCEPT ![p] = s],
           s.pc \in AtTask => s.task \in Tasks,
           s.pc \in {"create", "replaced"} => s.source \in Tasks,
           s.pc \in {"return", "throw"} => s.job \in Tasks
    PROVE  proc' \in [Procs -> ProcState] /\ ProcOK'
BY DEF TypeInv, TypeOK, ProcOK

\* Goto moves to a point that uses the task the process already works on.
LEMMA GotoStep ==
    ASSUME TypeInv, NEW p \in Procs, NEW pc \in AtTask,
           proc[p].pc \in AtTask, Goto(p, pc)
    PROVE  proc' \in [Procs -> ProcState] /\ ProcOK'
<1> DEFINE s == [proc[p] EXCEPT !.pc = pc]
<1>1. proc[p] \in ProcState /\ proc[p].task \in Tasks
  BY DEF TypeInv, TypeOK, ProcOK
<1>2. s \in ProcState /\ s.pc = pc /\ s.task = proc[p].task
  BY <1>1 DEF ProcState, PCs, AtTask
<1>3. proc' = [proc EXCEPT ![p] = s]
  BY DEF Goto, TypeInv, TypeOK
<1> HIDE DEF s
<1>4. QED
  BY <1>1, <1>2, <1>3, ProcStep DEF AtTask

\* A process that leaves processTask has the ids of the point it goes to.
LEMMA EndsStep ==
    ASSUME TypeInv, NEW p \in Procs, NEW threw \in BOOLEAN, Ends(p, threw)
    PROVE  proc' \in [Procs -> ProcState] /\ ProcOK'
<1>1. TypeOK
  BY DEF TypeInv
<1>2. proc' = [proc EXCEPT ![p] = Leave(p, threw)]
  BY DEF Ends
<1>3. QED
  BY <1>1, <1>2, LeaveType, ProcStep

\* A request or worker that is done.
LEMMA IdleStep ==
    ASSUME TypeInv, NEW p \in Procs, proc' = [proc EXCEPT ![p] = Idle]
    PROVE  proc' \in [Procs -> ProcState] /\ ProcOK'
BY IdleType, ProcStep DEF Idle, AtTask

\* Row updates keep the type of the table.
LEMMA RowStep ==
    ASSUME TypeOK, NEW t \in Tasks, NEW s \in Statuses \cup {"GONE"}, SetStatus(t, s)
    PROVE  task' \in [Tasks -> TaskRow]
<1>1. task[t] \in TaskRow
  BY DEF TypeOK
<1>2. [task[t] EXCEPT !.status = s] \in TaskRow
  BY <1>1 DEF TaskRow
<1>3. QED
  BY <1>2 DEF SetStatus, TypeOK

\* SetStatus changes the status of one row.
LEMMA SetStatusRows ==
    ASSUME TypeOK, NEW x \in Tasks, NEW s, SetStatus(x, s), NEW t \in Tasks
    PROVE  /\ task'[t].status = IF t = x THEN s ELSE task[t].status
           /\ task'[t].kind = task[t].kind
           /\ task'[t].replacedBy = task[t].replacedBy
           /\ task'[t].attemptCount = task[t].attemptCount
BY DEF SetStatus, TypeOK, TaskRow

\* A new row keeps the type of the table.
LEMMA NewRowStep ==
    ASSUME TypeOK, NEW t \in Tasks, NEW k \in Kinds,
           task' = [task EXCEPT ![t] = NewTask(k)]
    PROVE  task' \in [Tasks -> TaskRow]
BY NewTaskType DEF TypeOK

\* The type invariant holds initially.
LEMMA TypeInit == Init => TypeInv
<1> SUFFICES ASSUME Init PROVE TypeInv
  OBVIOUS
<1>1. task \in [Tasks -> TaskRow]
  BY ConstantsAssumption DEF Init, TaskRow, Kinds, Statuses
<1>2. job \in [Tasks -> JobRow]
  BY DEF Init, JobRow, JobStates
<1>3. proc \in [Procs -> ProcState]
  BY IdleType DEF Init
<1>4. /\ effects \in [Tasks -> Nat] /\ origin \in [Tasks -> Tasks \cup {NoTask}]
      /\ orphans \subseteq Tasks
  BY DEF Init
<1>5. faults \in 0..MaxFaults
  BY ConstantsAssumption DEF Init
<1>6. ProcOK
  BY DEF Init, ProcOK, Idle, AtTask
<1>7. QED
  BY <1>1, <1>2, <1>3, <1>4, <1>5, <1>6 DEF TypeInv, TypeOK

\* The steps of an API request outside processTask.
Request(c) ==
    \/ \E t \in Tasks : (\E k \in Kinds : EnqueueDelivery(c, t, k))
                        \/ ClaimForRetry(c, t)
    \/ CallerStep(c)
    \/ CrashCaller(c)

\* The steps of BullMQ for worker w.
Queue(w) ==
    \/ \E t \in Tasks : TakeJob(w, t)
    \/ Acknowledge(w) \/ CrashWorker(w) \/ LoseLock(w)

\* The four kinds of step of the system.
LEMMA StepKinds ==
    Next <=> \/ \E c \in Callers : Request(c)
             \/ \E p \in Procs : ProcessTask(p)
             \/ \E w \in Workers : Queue(w)
             \/ \E t \in Tasks : Stalled(t) \/ Prune(t)
BY DEF Next, Request, Queue

\* Every step of API requests keeps the type invariant.
LEMMA TypeCaller ==
    ASSUME TypeInv, NEW c \in Callers, Request(c)
    PROVE  TypeInv'
<1> c \in Procs /\ TypeOK
  BY DEF Procs, TypeInv
<1>1. ASSUME NEW t \in Tasks, NEW k \in Kinds, EnqueueDelivery(c, t, k) PROVE TypeInv'
  <2> DEFINE s == [Idle EXCEPT !.pc = "dispatch", !.task = t]
  <2>1. s \in ProcState /\ s.pc = "dispatch" /\ s.task = t
    BY IdleType DEF Idle, ProcState, PCs
  <2>2. proc' \in [Procs -> ProcState] /\ ProcOK'
    <3>1. proc' = [proc EXCEPT ![c] = s]
      BY <1>1 DEF EnqueueDelivery
    <3> HIDE DEF s
    <3>2. QED
      BY <2>1, <3>1, ProcStep DEF AtTask
  <2>3. task' \in [Tasks -> TaskRow]
    BY <1>1, NewRowStep DEF EnqueueDelivery
  <2>4. QED
    BY <1>1, <2>2, <2>3 DEF EnqueueDelivery, TypeInv, TypeOK
<1>2. ASSUME NEW t \in Tasks, ClaimForRetry(c, t) PROVE TypeInv'
  <2> DEFINE s == [Idle EXCEPT !.pc = "create", !.source = t]
  <2>1. s \in ProcState /\ s.pc = "create" /\ s.source = t
    BY IdleType DEF Idle, ProcState, PCs
  <2>2. proc' \in [Procs -> ProcState] /\ ProcOK'
    <3>1. proc' = [proc EXCEPT ![c] = s]
      BY <1>2 DEF ClaimForRetry
    <3> HIDE DEF s
    <3>2. QED
      BY <2>1, <3>1, ProcStep DEF AtTask
  <2>3. task' \in [Tasks -> TaskRow]
    BY <1>2, RowStep DEF ClaimForRetry, Statuses
  <2>4. QED
    BY <1>2, <2>2, <2>3 DEF ClaimForRetry, TypeInv, TypeOK
<1>3. ASSUME NEW t \in Tasks, CreateReplacement(c, t) PROVE TypeInv'
  <2>1. proc[c] \in ProcState /\ proc[c].source \in Tasks
    BY <1>3 DEF CreateReplacement, TypeInv, TypeOK, ProcOK
  <2> DEFINE s == [proc[c] EXCEPT !.pc = "dispatch", !.task = t, !.replacement = t]
  <2>2. s \in ProcState /\ s.pc = "dispatch" /\ s.task = t
    BY <2>1 DEF ProcState, PCs
  <2>3. proc' \in [Procs -> ProcState] /\ ProcOK'
    <3>1. proc' = [proc EXCEPT ![c] = s]
      BY <1>3 DEF CreateReplacement, TypeOK
    <3> HIDE DEF s
    <3>2. QED
      BY <2>2, <3>1, ProcStep DEF AtTask
  <2>4. task[proc[c].source].kind \in Kinds
    BY <2>1 DEF TypeOK, TaskRow
  <2>5. task' \in [Tasks -> TaskRow]
    BY <1>3, <2>4, NewRowStep DEF CreateReplacement
  <2>6. QED
    BY <1>3, <2>1, <2>3, <2>5 DEF CreateReplacement, TypeInv, TypeOK
<1>4. CASE RetryByKindFails(c)
  <2>1. proc[c].source \in Tasks /\ proc[c].replacement \in Tasks \cup {NoTask}
    <3>1. proc[c] \in ProcState
      BY DEF TypeOK
    <3>2. QED
      BY <1>4, <3>1 DEF RetryByKindFails, RunsReplacement, ProcState, TypeInv, ProcOK
  <2>2. task' \in [Tasks -> TaskRow]
    BY <1>4, <2>1, RowStep DEF RetryByKindFails, Statuses
  <2>3. orphans' \subseteq Tasks
    BY <1>4, <2>1 DEF RetryByKindFails, TypeOK
  <2>4. faults' \in 0..MaxFaults
    BY <1>4, ConstantsAssumption DEF RetryByKindFails, StatementThrows, Fault, TypeOK
  <2>5. QED
    BY <1>4, <2>2, <2>3, <2>4, IdleStep DEF RetryByKindFails, TypeInv, TypeOK
<1>5. CASE MarkRetried(c)
  <2>1. proc[c] \in ProcState /\ proc[c].source \in Tasks
    BY <1>5 DEF MarkRetried, TypeInv, TypeOK, ProcOK
  <2>2. proc[c].replacement \in Tasks \cup {NoTask} /\ task[proc[c].source] \in TaskRow
    BY <2>1 DEF ProcState, TypeOK
  <2>3. [task[proc[c].source] EXCEPT !.status = "RETRIED",
                                     !.replacedBy = proc[c].replacement] \in TaskRow
    BY <2>2 DEF TaskRow, Statuses
  <2>4. task' \in [Tasks -> TaskRow]
    BY <1>5, <2>1, <2>3 DEF MarkRetried, TypeOK
  <2>5. QED
    BY <1>5, <2>4, IdleStep DEF MarkRetried, TypeInv, TypeOK
<1>6. CASE CrashCaller(c)
  <2>1. faults' \in 0..MaxFaults
    BY <1>6, ConstantsAssumption DEF CrashCaller, Fault, TypeOK
  <2>2. QED
    BY <1>6, <2>1, IdleStep DEF CrashCaller, TypeInv, TypeOK
<1>7. QED
  BY <1>1, <1>2, <1>3, <1>4, <1>5, <1>6 DEF Request, CallerStep

\* Every step of processTask keeps the type invariant.
LEMMA TypeProcess ==
    ASSUME TypeInv, NEW p \in Procs, ProcessTask(p)
    PROVE  TypeInv'
<1> USE DEF TypeInv
<1> DEFINE x == proc[p].task
<1>0. proc[p] \in ProcState
  BY DEF TypeOK
<1>1. ASSUME NEW o \in EnqueueOutcomes, DispatchTask(p, o) PROVE TypeInv'
  <2>1. job' \in [Tasks -> JobRow]
    <3>1. x \in Tasks
      BY <1>1 DEF DispatchTask, ProcOK, AtTask
    <3>2. [job[x] EXCEPT !.state = "waiting"] \in JobRow
      BY <3>1 DEF TypeOK, JobRow, JobStates
    <3>3. job' = [job EXCEPT ![x] = [job[x] EXCEPT !.state = "waiting"]] \/ job' = job
      BY <1>1, <3>1 DEF DispatchTask, TypeOK
    <3>4. QED
      BY <3>2, <3>3 DEF TypeOK
  <2>2. proc' \in [Procs -> ProcState] /\ ProcOK'
    <3>1. CASE o = "queued"
      BY <1>1, <3>1, EndsStep DEF DispatchTask
    <3>2. CASE o # "queued"
      BY <1>1, <3>2, GotoStep DEF DispatchTask, AtTask
    <3>3. QED
      BY <3>1, <3>2
  <2>3. QED
    BY <1>1, <2>1, <2>2 DEF DispatchTask, TypeOK
<1>2. CASE Start(p)
  <2>1. x \in Tasks
    BY <1>2 DEF Start, ProcOK, AtTask
  <2>2. proc' \in [Procs -> ProcState] /\ ProcOK'
    <3>1. CASE task[x].status \in Handled
      BY <1>2, <3>1, EndsStep DEF Start
    <3>2. CASE task[x].status \notin Handled
      <4> DEFINE n == task[x].attemptCount + 1
                 s == [proc[p] EXCEPT !.pc = "mark", !.attempt = n]
      <4>1. n \in Nat
        BY <2>1 DEF TypeOK, TaskRow
      <4> HIDE DEF n
      <4>2. s \in ProcState /\ s.pc = "mark" /\ s.task = x
        BY <1>0, <4>1 DEF ProcState, PCs
      <4>3. proc' = [proc EXCEPT ![p] = s]
        BY <1>2, <3>2 DEF Start, TypeOK, n
      <4> HIDE DEF s
      <4>4. QED
        BY <2>1, <4>2, <4>3, ProcStep DEF AtTask
    <3>3. QED
      BY <3>1, <3>2
  <2>3. QED
    BY <1>2, <2>2 DEF Start, TypeOK
<1>3. CASE MarkProcessing(p)
  <2>1. x \in Tasks /\ task[x] \in TaskRow
    BY <1>3 DEF MarkProcessing, ProcOK, AtTask, TypeOK
  <2>2. proc[p].attempt \in Nat
    BY <1>0 DEF ProcState
  <2>3. [task[x] EXCEPT !.status = "PROCESSING", !.attemptCount = proc[p].attempt]
          \in TaskRow
    BY <2>1, <2>2 DEF TaskRow, Statuses
  <2>4. task' \in [Tasks -> TaskRow]
    BY <1>3, <2>1, <2>3 DEF MarkProcessing, TypeOK
  <2>5. proc' \in [Procs -> ProcState] /\ ProcOK'
    BY <1>3, GotoStep DEF MarkProcessing, AtTask
  <2>6. QED
    BY <1>3, <2>4, <2>5 DEF MarkProcessing, TypeOK
<1>4. CASE Send(p)
  <2>1. proc' \in [Procs -> ProcState] /\ ProcOK'
    BY <1>4, GotoStep DEF Send, AtTask
  <2>2. effects' \in [Tasks -> Nat]
    BY <1>4 DEF Send, ProcOK, AtTask, TypeOK
  <2>3. QED
    BY <1>4, <2>1, <2>2 DEF Send, TypeOK
<1>5. CASE NothingToSend(p) \/ SendFails(p) \/ MarkSucceededFails(p) \/ TxFails(p)
  <2>1. proc' \in [Procs -> ProcState] /\ ProcOK'
    BY <1>5, GotoStep DEF NothingToSend, SendFails, MarkSucceededFails, TxFails, AtTask
  <2>2. QED
    BY <1>5, <2>1 DEF NothingToSend, SendFails, MarkSucceededFails, TxFails, TypeOK
<1>6. CASE MarkSucceeded(p)
  <2>1. x \in Tasks
    BY <1>6 DEF MarkSucceeded, ProcOK, AtTask
  <2>2. task' \in [Tasks -> TaskRow]
    BY <1>6, <2>1, RowStep DEF MarkSucceeded, Statuses
  <2>3. proc' \in [Procs -> ProcState] /\ ProcOK'
    BY <1>6, EndsStep DEF MarkSucceeded
  <2>4. QED
    BY <1>6, <2>2, <2>3 DEF MarkSucceeded, TypeOK
<1>7. CASE TxRead(p)
  <2>1. proc' \in [Procs -> ProcState] /\ ProcOK'
    BY <1>7, EndsStep, GotoStep DEF TxRead, AtTask
  <2>2. QED
    BY <1>7, <2>1 DEF TxRead, TypeOK
<1>8. CASE TxCommit(p)
  <2>1. x \in Tasks
    BY <1>8 DEF TxCommit, ProcOK, AtTask
  <2>2. task' \in [Tasks -> TaskRow]
    BY <1>8, <2>1, RowStep DEF TxCommit, Statuses
  <2>3. proc' \in [Procs -> ProcState] /\ ProcOK'
    BY <1>8, GotoStep DEF TxCommit, AtTask
  <2>4. effects' \in [Tasks -> Nat]
    BY <1>8, <2>1 DEF TxCommit, TypeOK
  <2>5. QED
    BY <1>8, <2>2, <2>3, <2>4 DEF TxCommit, TypeOK
<1>9. CASE SkipPush(p)
  BY <1>9, EndsStep DEF SkipPush, TypeOK
<1>10. ASSUME NEW t \in Tasks, QueuePush(p, t) PROVE TypeInv'
  <2> DEFINE s == [proc[p] EXCEPT !.pc = "dispatch", !.task = t]
  <2>1. s \in ProcState /\ s.pc = "dispatch" /\ s.task = t
    BY <1>0 DEF ProcState, PCs
  <2>2. proc' = [proc EXCEPT ![p] = s]
    BY <1>10 DEF QueuePush, TypeOK
  <2> HIDE DEF s
  <2>3. proc' \in [Procs -> ProcState] /\ ProcOK'
    BY <2>1, <2>2, ProcStep DEF AtTask
  <2>4. task' \in [Tasks -> TaskRow]
    BY <1>10, NewRowStep DEF QueuePush, Kinds
  <2>5. QED
    BY <1>10, <2>3, <2>4 DEF QueuePush, TypeOK
<1>11. CASE MarkFailure(p)
  <2>1. x \in Tasks
    BY <1>11 DEF MarkFailure, ProcOK, AtTask
  <2>2. task' \in [Tasks -> TaskRow]
    BY <1>11, <2>1, RowStep DEF MarkFailure, Statuses
  <2>3. proc' \in [Procs -> ProcState] /\ ProcOK'
    BY <1>11, EndsStep DEF MarkFailure
  <2>4. QED
    BY <1>11, <2>2, <2>3 DEF MarkFailure, TypeOK
<1>12. CASE StatementFails(p)
  <2>1. proc' \in [Procs -> ProcState] /\ ProcOK'
    BY <1>12, EndsStep DEF StatementFails
  <2>2. faults' \in 0..MaxFaults
    BY <1>12, ConstantsAssumption DEF StatementFails, StatementThrows, Fault, TypeOK
  <2>3. QED
    BY <1>12, <2>1, <2>2 DEF StatementFails, TypeOK
<1>13. QED
  BY <1>1, <1>2, <1>3, <1>4, <1>5, <1>6, <1>7, <1>8, <1>9, <1>10, <1>11, <1>12
     DEF ProcessTask

\* Every step of BullMQ and of the environment keeps the type invariant.
LEMMA TypeQueue ==
    ASSUME TypeInv, NEW w \in Workers, Queue(w)
    PROVE  TypeInv'
<1> w \in Procs /\ TypeOK
  BY DEF Procs, TypeInv
<1>1. ASSUME NEW t \in Tasks, TakeJob(w, t) PROVE TypeInv'
  <2> DEFINE s == [Idle EXCEPT !.pc = "start", !.task = t, !.job = t]
  <2>1. s \in ProcState /\ s.pc = "start" /\ s.task = t
    BY IdleType DEF Idle, ProcState, PCs
  <2>2. proc' = [proc EXCEPT ![w] = s]
    BY <1>1 DEF TakeJob
  <2> HIDE DEF s
  <2>3. proc' \in [Procs -> ProcState] /\ ProcOK'
    BY <2>1, <2>2, ProcStep DEF AtTask
  <2>4. [job[t] EXCEPT !.state = "active", !.owner = w] \in JobRow
    BY DEF TypeOK, JobRow, JobStates
  <2>5. job' \in [Tasks -> JobRow]
    BY <1>1, <2>4 DEF TakeJob, TypeOK
  <2>6. QED
    BY <1>1, <2>3, <2>5 DEF TakeJob, TypeInv, TypeOK
<1>2. CASE Acknowledge(w)
  <2> DEFINE u == proc[w].job
             made == job[u].made + 1
  <2>1. u \in Tasks /\ job[u] \in JobRow
    BY <1>2 DEF Acknowledge, TypeInv, TypeOK, ProcOK
  <2>2. made \in Nat
    BY <2>1 DEF JobRow
  <2> DEFINE failed == [job[u] EXCEPT !.state = IF made < JobAttempts THEN "waiting"
                                               ELSE "failed",
                                      !.made = made, !.owner = NoProc]
             done == [job[u] EXCEPT !.state = "completed", !.owner = NoProc]
  <2>3. job' = job \/ job' = [job EXCEPT ![u] = done] \/ job' = [job EXCEPT ![u] = failed]
    BY <1>2, <2>1 DEF Acknowledge, TypeOK
  <2> HIDE DEF made
  <2>4. done \in JobRow /\ failed \in JobRow
    BY <2>1, <2>2 DEF JobRow, JobStates
  <2>5. job' \in [Tasks -> JobRow]
    BY <2>3, <2>4 DEF TypeOK
  <2>6. QED
    BY <1>2, <2>5, IdleStep DEF Acknowledge, TypeInv, TypeOK
<1>3. Unlocked(w) \in [Tasks -> JobRow]
  BY DEF Unlocked, TypeOK, JobRow
<1>4. CASE CrashWorker(w)
  <2>1. faults' \in 0..MaxFaults
    BY <1>4, ConstantsAssumption DEF CrashWorker, Fault, TypeOK
  <2>2. QED
    BY <1>3, <1>4, <2>1, IdleStep DEF CrashWorker, TypeInv, TypeOK
<1>5. CASE LoseLock(w)
  <2>1. faults' \in 0..MaxFaults
    BY <1>5, ConstantsAssumption DEF LoseLock, Fault, TypeOK
  <2>2. QED
    BY <1>3, <1>5, <2>1 DEF LoseLock, TypeInv, TypeOK, ProcOK
<1>6. QED
  BY <1>1, <1>2, <1>4, <1>5 DEF Queue

\* Detecting a stalled job and pruning a row keep the type invariant.
LEMMA TypeStalledPrune ==
    ASSUME TypeInv, NEW t \in Tasks, Stalled(t) \/ Prune(t)
    PROVE  TypeInv'
<1> TypeOK /\ job[t] \in JobRow
  BY DEF TypeInv, TypeOK
<1>1. CASE Stalled(t)
  <2> DEFINE n == job[t].stalls + 1
  <2>1. n \in Nat
    BY DEF JobRow
  <2> DEFINE row == [job[t] EXCEPT !.state = IF job[t].stalls < MaxStalls THEN "waiting"
                                            ELSE "failed", !.stalls = n]
  <2>2. job' = [job EXCEPT ![t] = row]
    BY <1>1 DEF Stalled, TypeOK
  <2> HIDE DEF n
  <2>3. row \in JobRow
    BY <2>1 DEF JobRow, JobStates
  <2>4. job' \in [Tasks -> JobRow]
    BY <2>2, <2>3 DEF TypeOK
  <2>5. QED
    BY <1>1, <2>4 DEF Stalled, TypeInv, TypeOK, ProcOK
<1>2. CASE Prune(t)
  <2>1. task' \in [Tasks -> TaskRow]
    BY <1>2, RowStep DEF Prune
  <2>2. QED
    BY <1>2, <2>1 DEF Prune, TypeInv, TypeOK, ProcOK
<1>3. QED
  BY <1>1, <1>2

\* The type invariant is inductive.
LEMMA TypeNext == TypeInv /\ [Next]_vars => TypeInv'
<1> SUFFICES ASSUME TypeInv, [Next]_vars PROVE TypeInv'
  OBVIOUS
<1>1. CASE UNCHANGED vars
  BY <1>1 DEF vars, TypeInv, TypeOK, ProcOK
<1>2. CASE Next
  BY <1>2, StepKinds, TypeCaller, TypeProcess, TypeQueue, TypeStalledPrune
<1>3. QED
  BY <1>1, <1>2

\* Rows, jobs and process states keep their types in every behaviour of the queue,
\* and TypeInv (with the ids each program point uses) is an invariant.
THEOREM TypeCorrect == Spec => []TypeOK
<1>1. Spec => []TypeInv
  BY TypeInit, TypeNext, PTL DEF Spec
<1>2. TypeInv => TypeOK
  BY DEF TypeInv
<1>3. QED
  BY <1>1, <1>2, PTL

------------------------------------------------------------------------------
(* RETRIED tasks have a replacement.                                       *)

\* r was created by the retry of s.
Linked(s, r) ==
    /\ r \in Tasks \ {s}
    /\ origin[r] = s
    /\ task[r].kind = task[s].kind
    /\ task[r].status # "NONE"

RowsLinked == \A t \in Tasks : task[t].status = "RETRIED" => Linked(t, task[t].replacedBy)

\* A retry holds an existing row, and once it created the replacement the two are
\* linked until markRetried writes the link to the row.
ProcsLinked ==
    \A p \in Procs : proc[p].source # NoTask =>
        /\ task[proc[p].source].status # "NONE"
        /\ proc[p].pc # "create" => Linked(proc[p].source, proc[p].replacement)

RetryInv == TypeInv /\ RowsLinked /\ ProcsLinked

\* Existing rows stay, with their kind and their origin.
RowsStay ==
    \A t \in Tasks : task[t].status # "NONE" =>
        task'[t].status # "NONE" /\ task'[t].kind = task[t].kind /\ origin'[t] = origin[t]

\* No row becomes RETRIED.
NoneRetried ==
    \A t \in Tasks : task'[t].status = "RETRIED" =>
        task[t].status = "RETRIED" /\ task'[t].replacedBy = task[t].replacedBy

\* Links between existing rows stay.
LEMMA LinkedStable ==
    ASSUME RowsStay, NEW s \in Tasks, NEW r, task[s].status # "NONE", Linked(s, r)
    PROVE  Linked(s, r)'
BY DEF RowsStay, Linked

\* RowsLinked is kept by a step that retries no row.
LEMMA RowsFrame ==
    ASSUME RetryInv, RowsStay, NoneRetried
    PROVE  RowsLinked'
<1> SUFFICES ASSUME NEW t \in Tasks, task'[t].status = "RETRIED"
             PROVE  Linked(t, task[t].replacedBy)'
  BY DEF RowsLinked
<1>1. task[t].status = "RETRIED" /\ task'[t].replacedBy = task[t].replacedBy
  BY DEF NoneRetried
<1>2. Linked(t, task[t].replacedBy)
  BY <1>1 DEF RetryInv, RowsLinked
<1>3. QED
  BY <1>1, <1>2 DEF RowsStay, Linked

\* ProcsLinked is kept for the processes that do not move.
LEMMA ProcsFrame ==
    ASSUME RetryInv, RowsStay, NEW q \in Procs, proc'[q] = proc[q],
           proc[q].source # NoTask
    PROVE  /\ task'[proc'[q].source].status # "NONE"
           /\ proc'[q].pc # "create" => Linked(proc[q].source, proc[q].replacement)'
<1>1. proc[q].source \in Tasks
  BY DEF RetryInv, TypeInv, TypeOK, ProcState
<1>2. task[proc[q].source].status # "NONE"
  BY DEF RetryInv, ProcsLinked
<1>3. proc[q].pc # "create" => Linked(proc[q].source, proc[q].replacement)
  BY DEF RetryInv, ProcsLinked
<1>4. QED
  BY <1>1, <1>2, <1>3 DEF RowsStay, Linked

\* A step of process p that retries no row and gives up or keeps the retry of p.
LEMMA RetryFrame ==
    ASSUME RetryInv, TypeInv', RowsStay, NoneRetried, NEW p \in Procs,
           proc' = [proc EXCEPT ![p] = proc'[p]],
           \/ proc'[p].source = NoTask
           \/ /\ proc'[p].source = proc[p].source
              /\ proc'[p].replacement = proc[p].replacement
              /\ proc[p].pc # "create" /\ proc'[p].pc # "create"
    PROVE  RetryInv'
<1>1. ASSUME NEW q \in Procs, proc'[q].source # NoTask
      PROVE  /\ task'[proc'[q].source].status # "NONE"
             /\ proc'[q].pc # "create" => Linked(proc[q].source, proc[q].replacement)'
  <2>1. CASE q # p
    <3>1. proc'[q] = proc[q]
      BY <2>1 DEF RetryInv, TypeInv, TypeOK
    <3>2. QED
      BY <1>1, <3>1, ProcsFrame
  <2>2. CASE q = p
    <3>1. proc'[q].source \in Tasks /\ proc[q].source = proc'[q].source
      BY <1>1, <2>2 DEF TypeInv, TypeOK, ProcState
    <3>2. task[proc[q].source].status # "NONE" /\ Linked(proc[q].source, proc[q].replacement)
      BY <1>1, <2>2, <3>1 DEF RetryInv, ProcsLinked
    <3>3. proc'[q].replacement = proc[q].replacement
      BY <1>1, <2>2
    <3>4. QED
      BY <3>1, <3>2, <3>3 DEF RowsStay, Linked
  <2>3. QED
    BY <2>1, <2>2
<1>2. QED
  BY <1>1, RowsFrame DEF RetryInv, ProcsLinked

\* A step that moves no process and retries no row.
LEMMA RetryNoProc ==
    ASSUME RetryInv, TypeInv', RowsStay, NoneRetried, proc' = proc
    PROVE  RetryInv'
BY RowsFrame, ProcsFrame DEF RetryInv, ProcsLinked

\* SetStatus to anything but NONE and RETRIED keeps rows and retries none.
LEMMA SetStatusStays ==
    ASSUME TypeOK, NEW x \in Tasks, NEW s, SetStatus(x, s), s \notin {"NONE", "RETRIED"},
           origin' = origin
    PROVE  RowsStay /\ NoneRetried
BY SetStatusRows DEF RowsStay, NoneRetried

\* Inserting a row where there was none keeps rows and retries none.
LEMMA NewRowStays ==
    ASSUME TypeOK, NEW x \in Tasks, NEW k, task' = [task EXCEPT ![x] = NewTask(k)],
           task[x].status = "NONE", \A t \in Tasks \ {x} : origin'[t] = origin[t]
    PROVE  RowsStay /\ NoneRetried
BY DEF RowsStay, NoneRetried, NewTask, TypeOK

\* Steps of API requests outside processTask.
LEMMA RetryCaller ==
    ASSUME RetryInv, TypeInv', NEW c \in Callers, Request(c)
    PROVE  RetryInv'
<1> c \in Procs /\ TypeInv /\ TypeOK
  BY DEF Procs, RetryInv, TypeInv
<1>0. proc' = [proc EXCEPT ![c] = proc'[c]]
  BY DEF Request, CallerStep, EnqueueDelivery, ClaimForRetry, CreateReplacement,
         RetryByKindFails, MarkRetried, CrashCaller, TypeInv, TypeOK
<1>1. ASSUME NEW t \in Tasks, NEW k \in Kinds, EnqueueDelivery(c, t, k) PROVE RetryInv'
  <2>1. RowsStay /\ NoneRetried
    BY <1>1, NewRowStays DEF EnqueueDelivery
  <2>2. proc'[c].source = NoTask
    BY <1>1 DEF EnqueueDelivery, TypeOK, Idle
  <2>3. QED
    BY <1>0, <2>1, <2>2, RetryFrame
<1>2. ASSUME NEW t \in Tasks, ClaimForRetry(c, t) PROVE RetryInv'
  <2>1. RowsStay /\ NoneRetried
    BY <1>2, SetStatusStays DEF ClaimForRetry
  <2>2. proc'[c].source = t /\ proc'[c].pc = "create"
    BY <1>2 DEF ClaimForRetry, TypeOK, Idle
  <2>3. task'[t].status # "NONE"
    BY <1>2, SetStatusRows DEF ClaimForRetry
  <2>4. ASSUME NEW q \in Procs, q # c PROVE proc'[q] = proc[q]
    BY <1>0, <2>4 DEF TypeOK
  <2>5. ProcsLinked'
    BY <2>1, <2>2, <2>3, <2>4, ProcsFrame DEF ProcsLinked
  <2>6. QED
    BY <2>1, <2>5, RowsFrame DEF RetryInv
<1>3. ASSUME NEW t \in Tasks, CreateReplacement(c, t) PROVE RetryInv'
  <2> DEFINE s == proc[c].source
  <2>1. RowsStay /\ NoneRetried
    <3>1. \A x \in Tasks \ {t} : origin'[x] = origin[x]
      BY <1>3 DEF CreateReplacement, TypeOK
    <3>2. QED
      BY <1>3, <3>1, NewRowStays DEF CreateReplacement
  <2>2. s \in Tasks /\ s # NoTask
    BY <1>3, ConstantsAssumption DEF CreateReplacement, TypeInv, ProcOK
  <2>3. task[s].status # "NONE" /\ s # t
    BY <1>3, <2>2 DEF CreateReplacement, RetryInv, ProcsLinked
  <2>4. proc'[c].source = s /\ proc'[c].replacement = t
    BY <1>3 DEF CreateReplacement, TypeOK, ProcState
  <2>5. task'[s] = task[s] /\ task'[t].kind = task[s].kind /\ task'[t].status = "PENDING"
        /\ origin'[t] = s
    BY <1>3, <2>2, <2>3 DEF CreateReplacement, TypeOK, NewTask
  <2>6. Linked(s, t)'
    BY <2>3, <2>4, <2>5 DEF Linked
  <2>7. ASSUME NEW q \in Procs, q # c PROVE proc'[q] = proc[q]
    BY <1>0, <2>7 DEF TypeOK
  <2>8. ProcsLinked'
    BY <2>1, <2>3, <2>4, <2>5, <2>6, <2>7, ProcsFrame DEF ProcsLinked
  <2>9. QED
    BY <2>1, <2>8, RowsFrame DEF RetryInv
<1>4. CASE RetryByKindFails(c)
  <2>1. proc[c].source \in Tasks
    BY <1>4 DEF RetryByKindFails, RunsReplacement, TypeInv, TypeOK, ProcState, ProcOK
  <2>2. RowsStay /\ NoneRetried
    BY <1>4, <2>1, SetStatusStays DEF RetryByKindFails
  <2>3. proc'[c].source = NoTask
    BY <1>4 DEF RetryByKindFails, TypeOK, Idle
  <2>4. QED
    BY <1>0, <2>2, <2>3, RetryFrame
<1>5. CASE MarkRetried(c)
  <2> DEFINE s == proc[c].source
             r == proc[c].replacement
  <2>1. s \in Tasks /\ s # NoTask
    BY <1>5, ConstantsAssumption DEF MarkRetried, TypeInv, ProcOK
  <2>2. Linked(s, r) /\ task[s].status # "NONE"
    BY <1>5, <2>1 DEF MarkRetried, RetryInv, ProcsLinked
  <2>3. /\ task'[s].status = "RETRIED" /\ task'[s].replacedBy = r
        /\ task'[s].kind = task[s].kind
        /\ \A t \in Tasks \ {s} : task'[t] = task[t]
    BY <1>5, <2>1 DEF MarkRetried, TypeOK, TaskRow
  <2>4. RowsStay
    BY <1>5, <2>1, <2>3 DEF RowsStay, MarkRetried
  <2>5. RowsLinked'
    <3> SUFFICES ASSUME NEW t \in Tasks, task'[t].status = "RETRIED"
                 PROVE  Linked(t, task[t].replacedBy)'
      BY DEF RowsLinked
    <3>1. task[t].status # "NONE" /\ Linked(t, task'[t].replacedBy)
      BY <2>2, <2>3 DEF RetryInv, RowsLinked
    <3>2. QED
      BY <2>4, <3>1 DEF RowsStay, Linked
  <2>6. proc'[c].source = NoTask
    BY <1>5 DEF MarkRetried, TypeOK, Idle
  <2>7. ASSUME NEW q \in Procs, q # c PROVE proc'[q] = proc[q]
    BY <1>0, <2>7 DEF TypeOK
  <2>8. ProcsLinked'
    BY <2>4, <2>6, <2>7, ProcsFrame DEF ProcsLinked
  <2>9. QED
    BY <2>5, <2>8 DEF RetryInv
<1>6. CASE CrashCaller(c)
  <2>1. RowsStay /\ NoneRetried
    BY <1>6 DEF CrashCaller, RowsStay, NoneRetried
  <2>2. proc'[c].source = NoTask
    BY <1>6 DEF CrashCaller, TypeOK, Idle
  <2>3. QED
    BY <1>0, <2>1, <2>2, RetryFrame
<1>7. QED
  BY <1>1, <1>2, <1>3, <1>4, <1>5, <1>6 DEF Request, CallerStep

\* processTask keeps or gives up the retry of the process that runs it.
LEMMA RetryProcess ==
    ASSUME RetryInv, TypeInv', NEW p \in Procs, ProcessTask(p)
    PROVE  RetryInv'
<1> TypeInv /\ TypeOK
  BY DEF RetryInv, TypeInv
<1> DEFINE x == proc[p].task
           Keeps == \/ proc'[p].source = NoTask
                    \/ /\ proc'[p].source = proc[p].source
                       /\ proc'[p].replacement = proc[p].replacement
                       /\ proc'[p].pc # "create"
<1>1. proc[p].pc \in AtTask /\ proc[p].pc # "create"
  BY DEF ProcessTask, DispatchTask, Start, MarkProcessing, Send, NothingToSend, SendFails,
         MarkSucceeded, MarkSucceededFails, TxRead, TxCommit, TxFails, SkipPush,
         QueuePush, MarkFailure, StatementFails, StatementThrows, AtTask
<1>2. x \in Tasks /\ proc[p] \in ProcState
  BY <1>1 DEF TypeInv, ProcOK, TypeOK
<1>3. proc' = [proc EXCEPT ![p] = proc'[p]]
  BY DEF ProcessTask, DispatchTask, Start, MarkProcessing, Send, NothingToSend, SendFails,
         MarkSucceeded, MarkSucceededFails, TxRead, TxCommit, TxFails, SkipPush,
         QueuePush, MarkFailure, StatementFails, Ends, Goto, TypeInv, TypeOK
<1>4. Keeps
  <2>1. ASSUME NEW threw \in BOOLEAN, Ends(p, threw) PROVE Keeps
    <3>1. proc'[p] = Leave(p, threw)
      BY <2>1 DEF Ends, TypeOK
    <3>2. Leave(p, threw).pc # "create"
      BY LeaveType
    <3>3. CASE proc[p].job # NoTask
      BY <1>2, <3>1, <3>2, <3>3 DEF Leave, ProcState
    <3>4. CASE proc[p].job = NoTask /\ proc[p].source # NoTask
      BY <1>2, <3>1, <3>2, <3>4 DEF Leave, ProcState
    <3>5. CASE proc[p].job = NoTask /\ proc[p].source = NoTask
      BY <3>1, <3>5 DEF Leave, Idle
    <3>6. QED
      BY <3>3, <3>4, <3>5
  <2>2. ASSUME NEW pc \in AtTask, Goto(p, pc) PROVE Keeps
    BY <1>2, <2>2 DEF Goto, TypeOK, ProcState, AtTask
  <2>3. CASE \E o \in EnqueueOutcomes : DispatchTask(p, o)
    BY <2>1, <2>2, <2>3 DEF DispatchTask, AtTask
  <2>4. CASE Start(p)
    <3>1. CASE task[x].status \in Handled
      BY <2>1, <2>4, <3>1 DEF Start
    <3>2. CASE task[x].status \notin Handled
      BY <1>2, <2>4, <3>2 DEF Start, TypeOK, ProcState
    <3>3. QED
      BY <3>1, <3>2
  <2>5. CASE MarkProcessing(p) \/ Send(p) \/ NothingToSend(p) \/ SendFails(p)
             \/ MarkSucceeded(p) \/ MarkSucceededFails(p) \/ TxRead(p) \/ TxCommit(p)
             \/ TxFails(p) \/ SkipPush(p) \/ MarkFailure(p) \/ StatementFails(p)
    BY <2>1, <2>2, <2>5 DEF MarkProcessing, Send, NothingToSend, SendFails, MarkSucceeded,
       MarkSucceededFails, TxRead, TxCommit, TxFails, SkipPush, MarkFailure,
       StatementFails, AtTask
  <2>6. CASE \E t \in Tasks : QueuePush(p, t)
    BY <1>2, <2>6 DEF QueuePush, TypeOK, ProcState
  <2>7. QED
    BY <2>3, <2>4, <2>5, <2>6 DEF ProcessTask
<1>5. RowsStay /\ NoneRetried
  <2>1. CASE task' = task /\ origin' = origin
    BY <2>1 DEF RowsStay, NoneRetried
  <2>2. CASE MarkProcessing(p)
    <3>1. /\ task'[x].status = "PROCESSING" /\ task'[x].kind = task[x].kind
          /\ \A t \in Tasks \ {x} : task'[t] = task[t]
      BY <1>2, <2>2 DEF MarkProcessing, TypeOK, TaskRow
    <3>2. QED
      BY <2>2, <3>1 DEF MarkProcessing, RowsStay, NoneRetried
  <2>3. CASE MarkSucceeded(p) \/ TxCommit(p) \/ MarkFailure(p)
    <3>1. /\ origin' = origin
          /\ SetStatus(x, "SUCCEEDED") \/ SetStatus(x, "FAILED") \/ SetStatus(x, "PENDING")
      BY <2>3 DEF MarkSucceeded, TxCommit, MarkFailure
    <3>2. QED
      BY <1>2, <3>1, SetStatusStays
  <2>4. ASSUME NEW t \in Tasks, QueuePush(p, t) PROVE RowsStay /\ NoneRetried
    BY <2>4, NewRowStays DEF QueuePush
  <2>5. QED
    BY <2>1, <2>2, <2>3, <2>4 DEF ProcessTask, DispatchTask, Start, Send, NothingToSend,
       SendFails, MarkSucceededFails, TxRead, TxFails, SkipPush, StatementFails
<1>6. QED
  BY <1>1, <1>3, <1>4, <1>5, RetryFrame

\* Steps of BullMQ and of the environment.
LEMMA RetryQueue ==
    ASSUME RetryInv, TypeInv',
           \/ \E w \in Workers : Queue(w)
           \/ \E t \in Tasks : Stalled(t) \/ Prune(t)
    PROVE  RetryInv'
<1> TypeInv /\ TypeOK
  BY DEF RetryInv, TypeInv
<1>1. ASSUME NEW w \in Workers, Queue(w) PROVE RetryInv'
  <2>0. w \in Procs
    BY DEF Procs
  <2>1. RowsStay /\ NoneRetried
    BY <1>1 DEF Queue, TakeJob, Acknowledge, CrashWorker, LoseLock, RowsStay, NoneRetried
  <2>2. CASE LoseLock(w)
    BY <2>1, <2>2, RetryNoProc DEF LoseLock
  <2>3. CASE \E t \in Tasks : TakeJob(w, t)
    <3>1. proc' = [proc EXCEPT ![w] = proc'[w]] /\ proc'[w].source = NoTask
      BY <2>0, <2>3 DEF TakeJob, TypeOK, Idle
    <3>2. QED
      BY <2>0, <2>1, <3>1, RetryFrame
  <2>4. CASE Acknowledge(w) \/ CrashWorker(w)
    <3>1. proc' = [proc EXCEPT ![w] = proc'[w]] /\ proc'[w].source = NoTask
      BY <2>0, <2>4 DEF Acknowledge, CrashWorker, TypeOK, Idle
    <3>2. QED
      BY <2>0, <2>1, <3>1, RetryFrame
  <2>5. QED
    BY <1>1, <2>2, <2>3, <2>4 DEF Queue
<1>2. ASSUME NEW t \in Tasks, Stalled(t) PROVE RetryInv'
  BY <1>2, RetryNoProc DEF Stalled, RowsStay, NoneRetried
<1>3. ASSUME NEW t \in Tasks, Prune(t) PROVE RetryInv'
  BY <1>3, RetryNoProc, SetStatusStays DEF Prune
<1>4. QED
  BY <1>1, <1>2, <1>3

\* A RETRIED task names the task its retry created, of the same kind, although the
\* row is written by late workers between the claim and markRetried.
THEOREM RetriedReplaced == Spec => []RetriedHasReplacement
<1>1. Init => RetryInv
  <2>1. Init => RowsLinked /\ ProcsLinked
    BY DEF Init, RowsLinked, ProcsLinked, Idle
  <2>2. QED
    BY <2>1, TypeInit DEF RetryInv
<1>2. RetryInv /\ [Next]_vars => RetryInv'
  <2> SUFFICES ASSUME RetryInv, [Next]_vars PROVE RetryInv'
    OBVIOUS
  <2>1. TypeInv'
    BY TypeNext DEF RetryInv
  <2>2. CASE UNCHANGED vars
    BY <2>1, <2>2, RetryNoProc DEF vars, RowsStay, NoneRetried
  <2>3. CASE Next
    BY <2>1, <2>3, StepKinds, RetryCaller, RetryProcess, RetryQueue
  <2>4. QED
    BY <2>2, <2>3
<1>3. RetryInv => RetriedHasReplacement
  BY DEF RetryInv, RowsLinked, Linked, RetriedHasReplacement
<1>4. QED
  BY <1>1, <1>2, <1>3, PTL DEF Spec

------------------------------------------------------------------------------
(* Without overlaps: no enqueue fails after Redis stored the job and no    *)
(* live worker loses its lock.  Then a task is run by one process at a     *)
(* time (Locks, Apart), and until its first crash BullMQ has counted as    *)
(* many attempts as the row (Counts).                                      *)

Busy == AtTask \ {"push"}
\* after markProcessing
Marked == {"run", "sent", "txRead", "txCommit", "failure"}

Works(p, t) == proc[p].pc \in Busy /\ proc[p].task = t

Known ==
    /\ \A p \in Procs : \A t \in Tasks :
         t \in {proc[p].task, proc[p].job, proc[p].source} => task[t].status # "NONE"
    /\ \A t \in Tasks : task[t].status = "NONE" =>
         /\ job[t].state = "none" /\ effects[t] = 0 /\ origin[t] = NoTask
         /\ \A r \in Tasks : origin[r] # t

Locks == \A t \in Tasks :
    /\ \A p \in Procs : proc[p].job = t <=> job[t].owner = p
    /\ job[t].owner # NoProc => job[t].state = "active"
    /\ job[t].state = "none" => job[t].made = 0 /\ job[t].stalls = 0

\* Requests hold no job, and only the run of a job throws.
Roles ==
    /\ \A c \in Callers : proc[c].job = NoTask
    /\ \A p \in Procs : proc[p].pc = "throw" => proc[p].task = proc[p].job

Apart == \A p \in Procs, t \in Tasks :
    (Works(p, t) /\ proc[p].job # t) =>
        job[t].state = "none" /\ \A q \in Procs : Works(q, t) => q = p

\* between the insert of a row and the enqueue of its job
Dispatching == \A p \in Procs, t \in Tasks : (proc[p].pc = "dispatch" /\ proc[p].task = t) =>
    /\ proc[p].job # t
    /\ task[t].status = "PENDING" /\ task[t].attemptCount = 0 /\ effects[t] = 0
    /\ \A q \in Procs : proc[q].source # t
    /\ \A r \in Tasks : origin[r] # t

\* what p, which runs the job of t, has counted
Counted(p, t) ==
    /\ proc[p].pc = "start" => task[t].attemptCount <= job[t].made
    /\ proc[p].pc \in Marked \cup {"mark"} => proc[p].attempt <= job[t].made + 1
    /\ proc[p].pc \in Marked => task[t].attemptCount = proc[p].attempt
    /\ proc[p].pc \in {"mark", "throw"} => task[t].attemptCount <= job[t].made + 1

Counts == \A t \in Tasks : job[t].stalls = 0 =>
    /\ job[t].state = "waiting" => task[t].attemptCount <= job[t].made
    /\ \A p \in Procs : (proc[p].job = t /\ proc[p].task = t) => Counted(p, t)

Base == TypeInv /\ Known /\ Locks /\ Roles /\ Apart /\ Dispatching /\ Counts

\* p claimed t and has not given it back; it creates the replacement first
Claims(p, t) == proc[p].source = t
Opens(p, t) == proc[p].pc = "create" /\ proc[p].source = t

\* BullMQ runs the job of t no more, or does so because a worker died.
Over(t) ==
    \/ job[t].state \in {"none", "completed", "failed"}
    \/ job[t].stalls >= 1
    \/ job[t].state = "active" /\ job[t].owner = NoProc
    \/ \E p \in Procs : proc[p].job = t /\ proc[p].pc = "throw" /\ job[t].made + 1 >= MaxAttempts

Closing == \A t \in Tasks : (task[t].status = "FAILED" \/ \E p \in Procs : Claims(p, t)) => Over(t)

\* processTask returns at once, now and later
Done(t) == task[t].status \in {"SUCCEEDED", "RETRIED", "GONE"} /\ \A p \in Procs : ~Claims(p, t)
\* nobody will run t again
Dead(t) ==
    /\ job[t].state # "waiting" /\ (job[t].state = "active" => job[t].stalls >= 1)
    /\ \A p \in Procs : ~(proc[p].pc \in {"start", "throw"} /\ proc[p].task = t)

Written == \A t \in Tasks : task[t].kind = "fanout" =>
    /\ effects[t] <= 1
    /\ \A p \in Procs : proc[p].task = t => proc[p].pc \notin {"run", "sent"}
    /\ effects[t] = 1 =>
         /\ Done(t) \/ Dead(t)
         /\ \A p \in Procs : proc[p].task = t => proc[p].pc \notin Marked \cup {"mark"}

FanoutInv == Base /\ Closing /\ Written

\* without worker crashes
Calm == \A t \in Tasks : job[t].stalls = 0 /\ (job[t].state = "active" => job[t].owner # NoProc)

Taken(t) ==
    \/ task[t].status = "FAILED"
    \/ \E p \in Procs : Claims(p, t)
    \/ \E r \in Tasks : origin[r] = t

Quiet == \A t \in Tasks : Taken(t) => Over(t) /\ \A p \in Procs : ~Works(p, t)

\* the replacements of t that no retry threw away
Kept(t) == {r \in Tasks \ orphans : origin[r] = t}

Single == \A t \in Tasks :
    /\ (task[t].status = "FAILED" \/ \E p \in Procs : Opens(p, t)) => Kept(t) = {}
    /\ \A p \in Procs : Claims(p, t) =>
         /\ task[t].status # "FAILED" /\ \A q \in Procs : Claims(q, t) => q = p
         /\ Kept(t) \subseteq {proc[p].replacement}

ReplaceInv == Base /\ Calm /\ Quiet /\ Single /\ OneReplacementPerTask

NoOverlap == "ambiguous" \notin EnqueueOutcomes /\ "lockLoss" \notin Faults

\* Who works on t holds its job, or there is no job.
LEMMA WorksJob ==
    ASSUME Base, NEW p \in Procs, NEW t \in Tasks, Works(p, t)
    PROVE  \/ proc[p].job = t /\ job[t].owner = p /\ job[t].state = "active"
           \/ proc[p].job # t /\ job[t].owner = NoProc /\ job[t].state = "none"
BY ConstantsAssumption DEF Base, Locks, Apart

\* One process works on a task.
LEMMA OneWorks ==
    ASSUME Base, NEW p \in Procs, NEW q \in Procs, NEW t \in Tasks, Works(p, t), Works(q, t)
    PROVE  p = q
BY DEF Base, Locks, Apart

\* A step of processTask at task x of p: neither the enqueue nor a new task.
LocalStep(p, x) ==
    /\ job' = job /\ origin' = origin /\ orphans' = orphans
    /\ \A q \in Procs \ {p} : proc'[q] = proc[q]
    /\ proc[p].task = x /\ proc[p].pc \in AtTask \ {"dispatch"}
    /\ \A t \in Tasks \ {x} : task'[t] = task[t] /\ effects'[t] = effects[t]
    /\ task'[x].kind = task[x].kind /\ task'[x].status # "NONE"
    /\ proc'[p].job = proc[p].job /\ proc'[p].source = proc[p].source
    /\ (proc'[p].task = x /\ proc'[p].replacement = proc[p].replacement) \/ proc'[p] = Idle
    /\ proc'[p].pc \notin {"dispatch", "create", "start"}
    /\ proc'[p].pc = "throw" => proc[p].job = x
    /\ proc'[p].pc \in Busy => proc[p].pc \in Busy
    /\ proc[p].pc = "push" => task' = task /\ effects' = effects

LEMMA LocalBase ==
    ASSUME Base, TypeInv', NEW p \in Procs, NEW x \in Tasks, LocalStep(p, x),
           (job[x].stalls = 0 /\ proc[p].job = x /\ proc'[p].task = x) => Counted(p, x)'
    PROVE  Base'
<1> USE DEF LocalStep
<1>1. Idle.task = NoTask /\ Idle.job = NoTask /\ Idle.source = NoTask /\ NoTask \notin Tasks
      /\ Idle.pc = "idle"
  BY ConstantsAssumption DEF Idle
<1>2. Known'
  BY <1>1 DEF Base, Known
<1>3. Locks'
  BY DEF Base, Locks
<1>4. Roles'
  <2>1. \A c \in Callers : c \in Procs /\ proc[c].job = NoTask
    BY DEF Base, Roles, Procs
  <2>2. \A c \in Callers : proc'[c].job = NoTask
    BY <2>1
  <2>3. ASSUME NEW q \in Procs, proc'[q].pc = "throw" PROVE proc'[q].task = proc'[q].job
    <3>1. CASE q = p
      BY <1>1, <2>3, <3>1
    <3>2. CASE q # p
      BY <2>3, <3>2 DEF Base, Roles
    <3>3. QED
      BY <3>1, <3>2
  <2>4. QED
    BY <2>2, <2>3 DEF Roles
<1>5. Apart'
  <2> SUFFICES ASSUME NEW q \in Procs, NEW t \in Tasks, Works(q, t)', proc'[q].job # t
               PROVE  job[t].state = "none" /\ \A r \in Procs : Works(r, t)' => r = q
    BY DEF Apart
  <2>1. \A r \in Procs : Works(r, t)' => Works(r, t)
    BY <1>1 DEF Works, Busy
  <2>2. Works(q, t) /\ proc[q].job # t
    BY <2>1
  <2>3. QED
    BY <2>1, <2>2, OneWorks DEF Base, Apart
<1>6. Dispatching'
  <2> SUFFICES ASSUME NEW q \in Procs, NEW t \in Tasks, proc'[q].pc = "dispatch", proc'[q].task = t
               PROVE  /\ proc'[q].job # t
                      /\ task'[t].status = "PENDING" /\ task'[t].attemptCount = 0 /\ effects'[t] = 0
                      /\ \A r \in Procs : proc'[r].source # t
                      /\ \A r \in Tasks : origin'[r] # t
    BY DEF Dispatching
  <2>1. q # p /\ proc'[q] = proc[q]
    OBVIOUS
  <2>2. task'[t] = task[t] /\ effects'[t] = effects[t]
    <3>1. CASE proc[p].pc = "push"
      BY <3>1
    <3>2. CASE proc[p].pc # "push"
      <4>1. Works(q, t) /\ (x = t => Works(p, t))
        BY <2>1, <3>2 DEF Works, Busy, AtTask
      <4>2. x # t
        BY <2>1, <4>1, OneWorks
      <4>3. QED
        BY <4>2
    <3>3. QED
      BY <3>1, <3>2
  <2>3. QED
    BY <2>1, <2>2 DEF Base, Dispatching
<1>7. Counts'
  <2> SUFFICES ASSUME NEW t \in Tasks, job[t].stalls = 0
               PROVE  /\ job[t].state = "waiting" => task'[t].attemptCount <= job[t].made
                      /\ \A q \in Procs : (proc'[q].job = t /\ proc'[q].task = t) => Counted(q, t)'
    BY DEF Counts
  <2>1. /\ job[t].state = "waiting" => task[t].attemptCount <= job[t].made
        /\ \A q \in Procs : (proc[q].job = t /\ proc[q].task = t) => Counted(q, t)
    BY DEF Base, Counts
  <2>2. CASE task' = task \/ t # x
    <3>1. task'[t] = task[t]
      BY <2>2
    <3>2. ASSUME NEW q \in Procs \ {p}, proc'[q].job = t, proc'[q].task = t PROVE Counted(q, t)'
      BY <2>1, <3>1, <3>2 DEF Counted
    <3>3. t # x => proc'[p].task # t
      BY <1>1
    <3>4. QED
      BY <2>1, <3>1, <3>2, <3>3
  <2>3. CASE task' # task /\ t = x
    <3>1. Works(p, x)
      BY <2>3 DEF Works, Busy
    <3>2. job[x].state # "waiting" /\ \A q \in Procs \ {p} : proc[q].job # x
      BY <3>1, WorksJob, ConstantsAssumption DEF Base, Locks
    <3>3. QED
      BY <2>3, <3>2
  <2>4. QED
    BY <2>2, <2>3
<1>8. QED
  BY <1>2, <1>3, <1>4, <1>5, <1>6, <1>7 DEF Base

LEMMA GotoFacts ==
    ASSUME TypeOK, NEW p \in Procs, NEW pc, Goto(p, pc)
    PROVE  /\ \A q \in Procs \ {p} : proc'[q] = proc[q]
           /\ proc'[p].pc = pc /\ proc'[p].task = proc[p].task /\ proc'[p].job = proc[p].job
           /\ proc'[p].source = proc[p].source /\ proc'[p].attempt = proc[p].attempt
           /\ proc'[p].replacement = proc[p].replacement
BY DEF Goto, TypeOK, ProcState

LEMMA EndsFacts ==
    ASSUME TypeOK, NEW p \in Procs, NEW threw \in BOOLEAN, Ends(p, threw)
    PROVE  /\ \A q \in Procs \ {p} : proc'[q] = proc[q]
           /\ proc'[p].job = proc[p].job /\ proc'[p].source = proc[p].source
           /\ \/ /\ proc'[p].task = proc[p].task /\ proc'[p].attempt = proc[p].attempt
                 /\ proc'[p].replacement = proc[p].replacement
              \/ proc'[p] = Idle
           /\ proc'[p].pc \in {"return", "throw", "replaced", "idle"}
           /\ proc'[p].pc = "throw" <=> (threw /\ proc[p].job # NoTask /\ proc[p].job = proc[p].task)
<1>1. proc[p] \in ProcState /\ proc'[p] = Leave(p, threw) /\ \A q \in Procs \ {p} : proc'[q] = proc[q]
  BY DEF Ends, TypeOK
<1>2. CASE proc[p].job # NoTask
  BY <1>1, <1>2 DEF Leave, Inline, ProcState
<1>3. CASE proc[p].job = NoTask /\ proc[p].source # NoTask
  BY <1>1, <1>3 DEF Leave, ProcState
<1>4. CASE proc[p].job = NoTask /\ proc[p].source = NoTask
  BY <1>1, <1>4 DEF Leave, Idle
<1>5. QED
  BY <1>2, <1>3, <1>4

LEMMA SetStatusOthers ==
    ASSUME TypeOK, NEW x \in Tasks, NEW s, SetStatus(x, s)
    PROVE  \A t \in Tasks \ {x} : task'[t] = task[t]
BY DEF SetStatus, TypeOK

\* What a step at task x of process p leaves: how it counts, and what a FAILED row means.
LocalKeeps(p, x) ==
    /\ x \in Tasks /\ LocalStep(p, x)
    /\ (job[x].stalls = 0 /\ proc[p].job = x /\ proc'[p].task = x) => Counted(p, x)'
    /\ task'[x].status = "FAILED" =>
         task[x].status = "FAILED" \/ (proc'[p].pc \notin Busy /\ Over(x)')

LEMMA LocalKept ==
    ASSUME Base, TypeInv', NEW p \in Procs, ProcessTask(p),
           \A o \in EnqueueOutcomes : ~DispatchTask(p, o), \A t \in Tasks : ~QueuePush(p, t)
    PROVE  LocalKeeps(p, proc[p].task)
<1>0. TypeInv /\ TypeOK /\ proc[p] \in ProcState
  BY DEF Base, TypeInv, TypeOK
<1>1. proc[p].pc \in AtTask \ {"dispatch"}
  BY DEF ProcessTask, DispatchTask, Start, MarkProcessing, Send, NothingToSend, SendFails,
         MarkSucceeded, MarkSucceededFails, TxRead, TxCommit, TxFails, SkipPush,
         QueuePush, MarkFailure, StatementFails, StatementThrows, AtTask
<1>2. PICK x \in Tasks : x = proc[p].task
  BY <1>0, <1>1 DEF TypeInv, ProcOK
<1>3. /\ task \in [Tasks -> TaskRow] /\ effects \in [Tasks -> Nat]
      /\ task[x] \in TaskRow /\ task[x].status # "NONE" /\ NoTask # x
      /\ task[x].attemptCount \in Nat /\ job[x].made \in Nat /\ proc[p].attempt \in Nat
      /\ job[x].stalls \in Nat
  BY <1>0, <1>2, ConstantsAssumption DEF TypeOK, Base, Known, TaskRow, JobRow, ProcState
<1>4. (job[x].stalls = 0 /\ proc[p].job = x) => Counted(p, x)
  BY <1>2 DEF Base, Counts
<1>5. \A threw \in BOOLEAN : Ends(p, threw) =>
           /\ \A q \in Procs \ {p} : proc'[q] = proc[q]
           /\ proc'[p].job = proc[p].job /\ proc'[p].source = proc[p].source
           /\ \/ /\ proc'[p].task = x /\ proc'[p].attempt = proc[p].attempt
                 /\ proc'[p].replacement = proc[p].replacement
              \/ proc'[p] = Idle
           /\ proc'[p].pc \in {"return", "throw", "replaced", "idle"}
           /\ proc'[p].pc = "throw" <=> (threw /\ proc[p].job = x)
  BY <1>0, <1>2, <1>3, EndsFacts
<1>6. \A pc \in PCs : Goto(p, pc) =>
           /\ \A q \in Procs \ {p} : proc'[q] = proc[q]
           /\ proc'[p].pc = pc /\ proc'[p].task = x /\ proc'[p].job = proc[p].job
           /\ proc'[p].source = proc[p].source /\ proc'[p].attempt = proc[p].attempt
           /\ proc'[p].replacement = proc[p].replacement
  BY <1>0, <1>2, GotoFacts
<1>7. SUFFICES LocalKeeps(p, x)
  BY <1>2
<1> USE DEF LocalKeeps, LocalStep, Counted, AtTask, Busy, Marked
<1>8. CASE Start(p)
  <2>1. CASE task[x].status \in Handled
    BY <1>1, <1>2, <1>3, <1>5, <1>8, <2>1 DEF Start
  <2>2. CASE task[x].status \notin Handled
    <3>1. /\ \A q \in Procs \ {p} : proc'[q] = proc[q]
          /\ proc'[p].pc = "mark" /\ proc'[p].task = x /\ proc'[p].job = proc[p].job
          /\ proc'[p].source = proc[p].source /\ proc'[p].attempt = task[x].attemptCount + 1
          /\ proc'[p].replacement = proc[p].replacement
      BY <1>0, <1>2, <1>8, <2>2 DEF Start, TypeOK, ProcState
    <3>2. (job[x].stalls = 0 /\ proc[p].job = x) => task[x].attemptCount + 1 <= job[x].made + 1
      BY <1>3, <1>4, <1>8 DEF Start
    <3>3. UNCHANGED <<task, job, effects, origin, orphans>> /\ proc[p].pc = "start"
      BY <1>8 DEF Start
    <3>4. QED
      BY <1>2, <1>3, <3>1, <3>2, <3>3
  <2>3. QED
    BY <2>1, <2>2
<1>9. CASE MarkProcessing(p)
  <2>1. /\ task'[x].status = "PROCESSING" /\ task'[x].attemptCount = proc[p].attempt
        /\ task'[x].kind = task[x].kind
        /\ \A t \in Tasks \ {x} : task'[t] = task[t]
    BY <1>2, <1>3, <1>9 DEF MarkProcessing, TaskRow
  <2>2. proc[p].pc = "mark" /\ UNCHANGED <<job, effects, origin, orphans>>
        /\ (Goto(p, "txRead") \/ Goto(p, "run")) /\ "txRead" \in PCs /\ "run" \in PCs
    BY <1>9 DEF MarkProcessing, PCs
  <2>3. QED
    BY <1>2, <1>4, <1>6, <2>1, <2>2
<1>10. CASE Send(p)
  <2>1. proc[p].pc = "run" /\ UNCHANGED <<task, job, origin, orphans>> /\ Goto(p, "sent") /\ "sent" \in PCs
        /\ \A t \in Tasks \ {x} : effects'[t] = effects[t]
    BY <1>2, <1>3, <1>10 DEF Send, PCs
  <2>2. QED
    BY <1>2, <1>3, <1>4, <1>6, <2>1
<1>11. CASE NothingToSend(p) \/ SendFails(p) \/ MarkSucceededFails(p) \/ TxFails(p)
  <2>1. proc[p].pc \in {"run", "sent", "txCommit"} /\ UNCHANGED <<task, job, effects, origin, orphans>>
        /\ (Goto(p, "failure") \/ Goto(p, "sent")) /\ {"failure", "sent"} \subseteq PCs
    BY <1>11 DEF NothingToSend, SendFails, MarkSucceededFails, TxFails, PCs
  <2>2. QED
    BY <1>2, <1>3, <1>4, <1>6, <2>1
<1>12. CASE MarkSucceeded(p)
  <2>1. /\ task'[x].status = "SUCCEEDED" /\ task'[x].kind = task[x].kind
        /\ \A t \in Tasks \ {x} : task'[t] = task[t]
    BY <1>0, <1>2, <1>12, SetStatusRows, SetStatusOthers DEF MarkSucceeded
  <2>2. proc[p].pc = "sent" /\ UNCHANGED <<job, effects, origin, orphans>> /\ Ends(p, FALSE)
    BY <1>12 DEF MarkSucceeded
  <2>3. QED
    BY <1>2, <1>5, <2>1, <2>2
<1>13. CASE TxRead(p)
  <2>1. proc[p].pc = "txRead" /\ UNCHANGED <<task, job, effects, origin, orphans>>
        /\ (Ends(p, FALSE) \/ Goto(p, "txCommit")) /\ "txCommit" \in PCs
    BY <1>13 DEF TxRead, PCs
  <2>2. CASE Ends(p, FALSE)
    BY <1>2, <1>3, <1>5, <2>1, <2>2
  <2>3. CASE Goto(p, "txCommit")
    BY <1>2, <1>3, <1>4, <1>6, <2>1, <2>3
  <2>4. QED
    BY <2>1, <2>2, <2>3
<1>14. CASE TxCommit(p)
  <2>1. /\ task'[x].status = "SUCCEEDED" /\ task'[x].kind = task[x].kind
        /\ \A t \in Tasks \ {x} : task'[t] = task[t]
    BY <1>0, <1>2, <1>14, SetStatusRows, SetStatusOthers DEF TxCommit
  <2>2. proc[p].pc = "txCommit" /\ UNCHANGED <<job, origin, orphans>> /\ Goto(p, "push") /\ "push" \in PCs
        /\ \A t \in Tasks \ {x} : effects'[t] = effects[t]
    BY <1>2, <1>3, <1>14 DEF TxCommit, PCs
  <2>3. QED
    BY <1>2, <1>6, <2>1, <2>2
<1>15. CASE SkipPush(p)
  <2>1. proc[p].pc = "push" /\ UNCHANGED <<task, job, effects, origin, orphans>> /\ Ends(p, FALSE)
    BY <1>15 DEF SkipPush
  <2>2. QED
    BY <1>2, <1>3, <1>5, <2>1
<1>16. CASE MarkFailure(p)
  <2>1. /\ task'[x].status \in {"FAILED", "PENDING"} /\ task'[x].kind = task[x].kind
        /\ task'[x].attemptCount = task[x].attemptCount
        /\ task'[x].status = "FAILED" => proc[p].attempt >= MaxAttempts
        /\ \A t \in Tasks \ {x} : task'[t] = task[t]
    <3> DEFINE s == IF proc[p].attempt >= MaxAttempts THEN "FAILED" ELSE "PENDING"
    <3>1. SetStatus(x, s)
      BY <1>2, <1>16 DEF MarkFailure
    <3>2. s \in {"FAILED", "PENDING"} /\ (s = "FAILED" => proc[p].attempt >= MaxAttempts)
      OBVIOUS
    <3> HIDE DEF s
    <3>3. QED
      BY <1>0, <3>1, <3>2, SetStatusRows, SetStatusOthers
  <2>2. proc[p].pc = "failure" /\ UNCHANGED <<job, effects, origin, orphans>> /\ Ends(p, TRUE)
    BY <1>16 DEF MarkFailure
  <2>3. task'[x].status = "FAILED" => Over(x)'
    <3> SUFFICES ASSUME task'[x].status = "FAILED", proc[p].job = x, job[x].stalls = 0
                 PROVE  Over(x)'
      <4>1. Works(p, x)
        BY <1>2, <2>2 DEF Works
      <4>2. job[x].stalls # 0 => job[x].stalls >= 1
        BY <1>3
      <4>3. QED
        BY <2>2, <4>1, <4>2, WorksJob DEF Over
    <3>1. proc[p].attempt <= job[x].made + 1
      BY <1>4, <2>2
    <3>2. job[x].made + 1 >= MaxAttempts
      BY <1>3, <2>1, <3>1, ConstantsAssumption
    <3>3. proc'[p].job = x /\ proc'[p].pc = "throw"
      BY <1>5, <2>2
    <3>4. QED
      BY <2>2, <3>2, <3>3 DEF Over
  <2>4. (proc[p].job = x /\ job[x].stalls = 0 /\ proc'[p].task = x) => Counted(p, x)'
    <3>1. Idle.pc = "idle"
      BY DEF Idle
    <3>2. QED
      BY <1>4, <1>5, <2>1, <2>2, <3>1
  <2>5. QED
    BY <1>2, <1>5, <2>1, <2>2, <2>3, <2>4
<1>17. CASE StatementFails(p)
  <2>1. /\ proc[p].pc \in {"start", "mark", "failure"}
        /\ UNCHANGED <<task, job, effects, origin, orphans>> /\ Ends(p, TRUE)
    BY <1>17 DEF StatementFails, StatementThrows
  <2>2. (proc[p].job = x /\ job[x].stalls = 0) => task[x].attemptCount <= job[x].made + 1
    BY <1>3, <1>4, <2>1
  <2>3. Idle.pc = "idle"
    BY DEF Idle
  <2>4. QED
    BY <1>2, <1>3, <1>5, <2>1, <2>2, <2>3
<1>18. QED
  BY <1>8, <1>9, <1>10, <1>11, <1>12, <1>13, <1>14, <1>15, <1>16, <1>17 DEF ProcessTask

LEMMA IdleFacts ==
    /\ Idle.pc = "idle" /\ Idle.task = NoTask /\ Idle.job = NoTask /\ Idle.source = NoTask
    /\ NoTask \notin Tasks /\ NoProc \notin Procs
BY ConstantsAssumption DEF Idle

\* Process p inserts the row of task t and is about to enqueue its job.
FreshStep(p, t) ==
    /\ job' = job /\ effects' = effects /\ orphans' = orphans
    /\ \A q \in Procs \ {p} : proc'[q] = proc[q]
    /\ task[t].status = "NONE" /\ task'[t].status = "PENDING" /\ task'[t].attemptCount = 0
    /\ \A x \in Tasks \ {t} : task'[x] = task[x] /\ origin'[x] = origin[x]
    /\ proc[p].pc \in {"idle", "create", "push"}
    /\ proc'[p].pc = "dispatch" /\ proc'[p].task = t
    /\ proc'[p].job = proc[p].job /\ proc'[p].source = proc[p].source
    /\ \/ origin'[t] = origin[t] /\ proc[p].pc # "create" /\ proc'[p].replacement = proc[p].replacement
       \/ /\ origin'[t] = proc[p].source /\ proc[p].source \in Tasks /\ proc[p].pc = "create"
          /\ proc'[p].replacement = t

LEMMA FreshFacts ==
    ASSUME Base, NEW p \in Procs, NEW t \in Tasks,
           (\E k \in Kinds : EnqueueDelivery(p, t, k)) \/ CreateReplacement(p, t) \/ QueuePush(p, t)
    PROVE  FreshStep(p, t)
<1>1. TypeInv /\ TypeOK /\ proc[p] \in ProcState
  BY DEF Base, TypeInv, TypeOK
<1>2. CASE \E k \in Kinds : EnqueueDelivery(p, t, k)
  BY <1>1, <1>2, IdleFacts DEF EnqueueDelivery, FreshStep, NewTask, TypeOK, Idle
<1>3. CASE CreateReplacement(p, t)
  <2>1. proc[p].source \in Tasks
    BY <1>1, <1>3 DEF CreateReplacement, TypeInv, ProcOK
  <2>2. QED
    BY <1>1, <1>3, <2>1 DEF CreateReplacement, FreshStep, NewTask, TypeOK, ProcState
<1>4. CASE QueuePush(p, t)
  BY <1>1, <1>4 DEF QueuePush, FreshStep, NewTask, TypeOK, ProcState
<1>5. QED
  BY <1>2, <1>3, <1>4

LEMMA FreshBase ==
    ASSUME Base, TypeInv', NEW p \in Procs, NEW t \in Tasks, FreshStep(p, t)
    PROVE  Base'
<1> USE DEF FreshStep
<1>1. /\ job[t].state = "none" /\ effects[t] = 0 /\ origin[t] = NoTask
      /\ \A r \in Tasks : origin[r] # t
      /\ \A q \in Procs : proc[q].task # t /\ proc[q].job # t /\ proc[q].source # t
  BY DEF Base, Known
<1>2. \A x \in Tasks : x # t => (task'[x].status = "NONE" <=> task[x].status = "NONE")
  OBVIOUS
<1>3. Known'
  BY <1>1, <1>2, IdleFacts DEF Base, Known
<1>4. Locks'
  BY DEF Base, Locks
<1>5. Roles'
  <2>1. \A c \in Callers : c \in Procs
    BY DEF Procs
  <2>2. QED
    BY <2>1 DEF Base, Roles
<1>6. \A q \in Procs, x \in Tasks : Works(q, x)' <=> (q = p /\ x = t) \/ (q # p /\ Works(q, x))
  BY DEF Works, Busy, AtTask
<1>7. Apart'
  BY <1>1, <1>6 DEF Base, Apart, Works
<1>8. Dispatching'
  <2> SUFFICES ASSUME NEW q \in Procs, NEW x \in Tasks, proc'[q].pc = "dispatch", proc'[q].task = x
               PROVE  /\ proc'[q].job # x
                      /\ task'[x].status = "PENDING" /\ task'[x].attemptCount = 0 /\ effects'[x] = 0
                      /\ \A r \in Procs : proc'[r].source # x
                      /\ \A r \in Tasks : origin'[r] # x
    BY DEF Dispatching
  <2>1. CASE q = p
    BY <1>1, <2>1, IdleFacts
  <2>2. CASE q # p
    <3>1. proc'[q] = proc[q] /\ x # t
      BY <1>1, <2>2
    <3>2. /\ proc[q].job # x /\ task[x].status = "PENDING" /\ task[x].attemptCount = 0 /\ effects[x] = 0
          /\ \A r \in Procs : proc[r].source # x
          /\ \A r \in Tasks : origin[r] # x
      BY <3>1 DEF Base, Dispatching
    <3>3. QED
      BY <3>1, <3>2
  <2>3. QED
    BY <2>1, <2>2
<1>9. Counts'
  <2> SUFFICES ASSUME NEW x \in Tasks, job[x].stalls = 0
               PROVE  /\ job[x].state = "waiting" => task'[x].attemptCount <= job[x].made
                      /\ \A q \in Procs : (proc'[q].job = x /\ proc'[q].task = x) => Counted(q, x)'
    BY DEF Counts
  <2>1. CASE x = t
    BY <1>1, <2>1
  <2>2. CASE x # t
    BY <2>2 DEF Base, Counts, Counted
  <2>3. QED
    BY <2>1, <2>2
<1>10. QED
  BY <1>3, <1>4, <1>5, <1>7, <1>8, <1>9 DEF Base

\* An administrator's request, or the retention, writes statuses.
Released(q) ==
    /\ q \in Callers /\ proc'[q].pc \in {"idle", "create"}
    /\ proc'[q].task = NoTask /\ proc'[q].job = NoTask
    /\ proc'[q].source \in Tasks => /\ task[proc'[q].source].status # "NONE"
                                    /\ \A r \in Procs : ~(proc[r].pc = "dispatch" /\ proc[r].task = proc'[q].source)

AdminStep ==
    /\ UNCHANGED <<job, effects, origin>>
    /\ \A q \in Procs : proc'[q] = proc[q] \/ Released(q)
    /\ \A x \in Tasks : /\ task'[x].attemptCount = task[x].attemptCount /\ task'[x].kind = task[x].kind
                        /\ task'[x].status = "NONE" <=> task[x].status = "NONE"
    /\ \A x \in Tasks, r \in Procs : (proc[r].pc = "dispatch" /\ proc[r].task = x) =>
                                        task'[x].status = task[x].status

LEMMA AdminBase ==
    ASSUME Base, TypeInv', AdminStep
    PROVE  Base'
<1> USE DEF AdminStep, Released
<1>1. \A c \in Callers : c \in Procs /\ proc[c].job = NoTask
  BY DEF Base, Roles, Procs
<1>2. \A q \in Procs : proc'[q].job = proc[q].job
  BY <1>1
<1>3. Known'
  BY <1>1, <1>2, IdleFacts DEF Base, Known
<1>4. Locks'
  BY <1>2 DEF Base, Locks
<1>5. Roles'
  BY <1>1, <1>2 DEF Base, Roles
<1>6. \A q \in Procs, x \in Tasks : Works(q, x)' => Works(q, x) /\ proc'[q] = proc[q]
  BY IdleFacts DEF Works
<1>7. Apart'
  BY <1>6 DEF Base, Apart
<1>8. Dispatching'
  <2> SUFFICES ASSUME NEW q \in Procs, NEW x \in Tasks, proc'[q].pc = "dispatch", proc'[q].task = x
               PROVE  /\ proc'[q].job # x
                      /\ task'[x].status = "PENDING" /\ task'[x].attemptCount = 0 /\ effects'[x] = 0
                      /\ \A r \in Procs : proc'[r].source # x
                      /\ \A r \in Tasks : origin'[r] # x
    BY DEF Dispatching
  <2>1. proc'[q] = proc[q]
    OBVIOUS
  <2>2. /\ proc[q].job # x /\ task[x].status = "PENDING" /\ task[x].attemptCount = 0 /\ effects[x] = 0
        /\ \A r \in Procs : proc[r].source # x
        /\ \A r \in Tasks : origin[r] # x
    BY <2>1 DEF Base, Dispatching
  <2>3. QED
    BY <2>1, <2>2
<1>9. Counts'
  BY IdleFacts DEF Base, Counts, Counted
<1>10. QED
  BY <1>3, <1>4, <1>5, <1>7, <1>8, <1>9 DEF Base

LEMMA ClaimFacts ==
    ASSUME Base, NEW c \in Callers, NEW t \in Tasks, ClaimForRetry(c, t)
    PROVE  /\ AdminStep /\ orphans' = orphans /\ task[t].status = "FAILED" /\ task'[t].status = "PROCESSING"
           /\ \A x \in Tasks \ {t} : task'[x] = task[x]
           /\ proc[c] = Idle /\ \A q \in Procs \ {c} : proc'[q] = proc[q]
           /\ proc'[c].pc = "create" /\ proc'[c].source = t /\ proc'[c].task = NoTask /\ proc'[c].job = NoTask
<1>1. TypeOK /\ c \in Procs
  BY DEF Base, TypeInv, Procs
<1>2. /\ UNCHANGED <<job, effects, origin, orphans>> /\ SetStatus(t, "PROCESSING") /\ task[t].status = "FAILED"
      /\ proc[c] = Idle
  BY DEF ClaimForRetry
<1>3. /\ \A q \in Procs \ {c} : proc'[q] = proc[q]
      /\ proc'[c].pc = "create" /\ proc'[c].source = t /\ proc'[c].task = NoTask /\ proc'[c].job = NoTask
  BY <1>1 DEF ClaimForRetry, Idle, TypeOK
<1>4. \A x \in Tasks : /\ task'[x].status = IF x = t THEN "PROCESSING" ELSE task[x].status
                       /\ task'[x].kind = task[x].kind /\ task'[x].attemptCount = task[x].attemptCount
  BY <1>1, <1>2, SetStatusRows
<1>5. \A r \in Procs : ~(proc[r].pc = "dispatch" /\ proc[r].task = t)
  BY <1>2 DEF Base, Dispatching
<1>6. Released(c)
  BY <1>2, <1>3, <1>5 DEF Released
<1>7. AdminStep
  BY <1>2, <1>3, <1>4, <1>5, <1>6 DEF AdminStep
<1>8. QED
  BY <1>1, <1>2, <1>3, <1>4, <1>7, SetStatusOthers

\* The request of an administrator that ends, normally or not, leaves its task as it is,
\* RETRIED, or FAILED when it threw, with nothing created but an orphan.
LEMMA ReleaseFacts ==
    ASSUME Base, NEW c \in Callers, RetryByKindFails(c) \/ MarkRetried(c) \/ CrashCaller(c)
    PROVE  /\ AdminStep /\ proc'[c] = Idle /\ \A q \in Procs \ {c} : proc'[q] = proc[q]
           /\ orphans \subseteq orphans'
           /\ \A x \in Tasks : task'[x] # task[x] =>
                /\ Claims(c, x)
                /\ \/ task'[x].status = "FAILED" /\ {proc[c].replacement} \ {NoTask} \subseteq orphans'
                   \/ task'[x].status = "RETRIED"
<1>1. TypeInv /\ TypeOK /\ c \in Procs /\ proc[c] \in ProcState
  BY DEF Base, TypeInv, TypeOK, Procs
<1>2. /\ proc'[c] = Idle /\ (\A q \in Procs \ {c} : proc'[q] = proc[q]) /\ UNCHANGED <<job, effects, origin>>
      /\ orphans \subseteq orphans'
  BY <1>1 DEF RetryByKindFails, MarkRetried, CrashCaller, TypeOK
<1>3. Released(c)
  BY <1>2, IdleFacts DEF Released
<1>4. CASE CrashCaller(c)
  BY <1>2, <1>3, <1>4 DEF AdminStep, CrashCaller
<1>5. ASSUME RetryByKindFails(c) \/ MarkRetried(c)
      PROVE  AdminStep /\ \A x \in Tasks : task'[x] # task[x] =>
                /\ Claims(c, x)
                /\ \/ task'[x].status = "FAILED" /\ {proc[c].replacement} \ {NoTask} \subseteq orphans'
                   \/ task'[x].status = "RETRIED"
  <2>1. PICK s \in Tasks : s = proc[c].source
    BY <1>1, <1>5 DEF RetryByKindFails, RunsReplacement, MarkRetried, TypeInv, ProcOK, ProcState
  <2>2. task[s].status # "NONE" /\ \A r \in Procs : ~(proc[r].pc = "dispatch" /\ proc[r].task = s)
    BY <1>1, <2>1 DEF Base, Known, Dispatching
  <2>3. /\ \A x \in Tasks \ {s} : task'[x] = task[x]
        /\ task'[s].kind = task[s].kind /\ task'[s].attemptCount = task[s].attemptCount
        /\ \/ task'[s].status = "FAILED" /\ {proc[c].replacement} \ {NoTask} \subseteq orphans'
           \/ task'[s].status = "RETRIED"
    BY <1>1, <1>5, <2>1 DEF RetryByKindFails, MarkRetried, SetStatus, TypeOK, TaskRow
  <2>4. QED
    BY <1>2, <1>3, <2>1, <2>2, <2>3 DEF AdminStep, Claims
<1>6. QED
  BY <1>2, <1>4, <1>5

LEMMA PruneFacts ==
    ASSUME Base, NEW t \in Tasks, Prune(t)
    PROVE  /\ AdminStep /\ orphans' = orphans /\ proc' = proc /\ task[t].status \in Terminal /\ task'[t].status = "GONE"
           /\ \A x \in Tasks \ {t} : task'[x] = task[x]
<1>1. TypeOK
  BY DEF Base, TypeInv
<1>2. UNCHANGED <<job, effects, origin, orphans, proc>> /\ SetStatus(t, "GONE") /\ task[t].status \in Terminal
  BY DEF Prune
<1>3. \A x \in Tasks : /\ task'[x].status = IF x = t THEN "GONE" ELSE task[x].status
                       /\ task'[x].kind = task[x].kind /\ task'[x].attemptCount = task[x].attemptCount
  BY <1>1, <1>2, SetStatusRows
<1>4. \A r \in Procs : ~(proc[r].pc = "dispatch" /\ proc[r].task = t)
  BY <1>2 DEF Base, Dispatching, Terminal
<1>5. AdminStep
  BY <1>2, <1>3, <1>4 DEF AdminStep, Terminal
<1>6. QED
  BY <1>1, <1>2, <1>3, <1>5, SetStatusOthers

\* BullMQ hands the job of t to worker w.
LEMMA TakeFacts ==
    ASSUME Base, NEW w \in Workers, NEW t \in Tasks, TakeJob(w, t)
    PROVE  /\ w \in Procs /\ UNCHANGED <<task, effects, origin, orphans>> /\ proc[w] = Idle
           /\ job[t].state = "waiting" /\ job'[t].state = "active" /\ job'[t].owner = w
           /\ job'[t].made = job[t].made /\ job'[t].stalls = job[t].stalls
           /\ \A x \in Tasks \ {t} : job'[x] = job[x]
           /\ \A q \in Procs \ {w} : proc'[q] = proc[q]
           /\ proc'[w].pc = "start" /\ proc'[w].task = t /\ proc'[w].job = t /\ proc'[w].source = NoTask
<1>1. TypeOK /\ w \in Procs
  BY DEF Base, TypeInv, Procs
<1>2. job[t] \in JobRow
  BY <1>1 DEF TypeOK
<1>3. QED
  BY <1>1, <1>2 DEF TakeJob, TypeOK, JobRow, Idle

LEMMA TakeBase ==
    ASSUME Base, TypeInv', NEW w \in Workers, NEW t \in Tasks, TakeJob(w, t)
    PROVE  Base'
<1>1. /\ w \in Procs /\ UNCHANGED <<task, effects, origin, orphans>> /\ proc[w] = Idle
      /\ job[t].state = "waiting" /\ job'[t].state = "active" /\ job'[t].owner = w
      /\ job'[t].made = job[t].made /\ job'[t].stalls = job[t].stalls
      /\ \A x \in Tasks \ {t} : job'[x] = job[x]
      /\ \A q \in Procs \ {w} : proc'[q] = proc[q]
      /\ proc'[w].pc = "start" /\ proc'[w].task = t /\ proc'[w].job = t /\ proc'[w].source = NoTask
  BY TakeFacts
<1>2. \A q \in Procs : ~Works(q, t) /\ proc[q].job # t
  BY <1>1, WorksJob, IdleFacts DEF Base, Locks
<1>3. Known'
  BY <1>1, IdleFacts DEF Base, Known
<1>4. Locks'
  <2> SUFFICES ASSUME NEW x \in Tasks
               PROVE  /\ \A p \in Procs : proc'[p].job = x <=> job'[x].owner = p
                      /\ job'[x].owner # NoProc => job'[x].state = "active"
                      /\ job'[x].state = "none" => job'[x].made = 0 /\ job'[x].stalls = 0
    BY DEF Locks
  <2>1. CASE x = t
    BY <1>1, <1>2, <2>1
  <2>2. CASE x # t
    BY <1>1, <2>2, IdleFacts DEF Base, Locks
  <2>3. QED
    BY <2>1, <2>2
<1>5. Roles'
  <2>1. \A c \in Callers : c \in Procs /\ c # w
    BY ConstantsAssumption DEF Procs
  <2>2. QED
    BY <1>1, <2>1 DEF Base, Roles
<1>6. \A q \in Procs, x \in Tasks : Works(q, x)' => (q = w /\ x = t) \/ (q # w /\ x # t /\ Works(q, x))
  BY <1>1, <1>2 DEF Works
<1>7. Apart'
  BY <1>1, <1>6 DEF Base, Apart
<1>8. Dispatching'
  BY <1>1, IdleFacts DEF Base, Dispatching
<1>9. Counts'
  <2> SUFFICES ASSUME NEW x \in Tasks, job'[x].stalls = 0
               PROVE  /\ job'[x].state = "waiting" => task'[x].attemptCount <= job'[x].made
                      /\ \A q \in Procs : (proc'[q].job = x /\ proc'[q].task = x) => Counted(q, x)'
    BY DEF Counts
  <2>1. CASE x = t
    <3>1. task[t].attemptCount <= job[t].made
      BY <1>1, <2>1 DEF Base, Counts
    <3>2. QED
      BY <1>1, <1>2, <2>1, <3>1 DEF Counted, Marked
  <2>2. CASE x # t
    BY <1>1, <2>2 DEF Base, Counts, Counted
  <2>3. QED
    BY <2>1, <2>2
<1>10. QED
  BY <1>3, <1>4, <1>5, <1>7, <1>8, <1>9 DEF Base

\* Worker w gives up the job of t, or dies holding it.
LEMMA DropFacts ==
    ASSUME Base, NEW w \in Workers, Acknowledge(w) \/ CrashWorker(w)
    PROVE  /\ w \in Procs /\ UNCHANGED <<task, effects, origin, orphans>>
           /\ proc'[w] = Idle /\ \A q \in Procs \ {w} : proc'[q] = proc[q]
           /\ \A x \in Tasks \ {proc[w].job} : job'[x] = job[x]
           /\ \A x \in Tasks : x = proc[w].job =>
                /\ job[x].owner = w /\ job[x].state = "active"
                /\ job'[x].owner = NoProc /\ job'[x].stalls = job[x].stalls
                /\ \/ CrashWorker(w) /\ job'[x].state = "active" /\ job'[x].made = job[x].made
                   \/ proc[w].pc = "return" /\ job'[x].state = "completed" /\ job'[x].made = job[x].made
                   \/ /\ proc[w].pc = "throw" /\ job'[x].made = job[x].made + 1
                      /\ job'[x].state = IF job[x].made + 1 < MaxAttempts THEN "waiting" ELSE "failed"
<1>1. TypeInv /\ TypeOK /\ w \in Procs /\ job \in [Tasks -> JobRow]
  BY DEF Base, TypeInv, TypeOK, Procs
<1>2. /\ UNCHANGED <<task, effects, origin, orphans>>
      /\ proc'[w] = Idle /\ \A q \in Procs \ {w} : proc'[q] = proc[q]
  BY <1>1 DEF Acknowledge, CrashWorker, TypeOK
<1>3. \A x \in Tasks : x = proc[w].job <=> job[x].owner = w
  BY <1>1 DEF Base, Locks
<1>4. \A x \in Tasks : x = proc[w].job => job[x].owner = w /\ job[x].state = "active"
  BY <1>1, <1>3, IdleFacts DEF Base, Locks
<1>5. CASE CrashWorker(w)
  <2>1. job' = [x \in Tasks |-> IF job[x].owner = w THEN [job[x] EXCEPT !.owner = NoProc] ELSE job[x]]
    BY <1>5 DEF CrashWorker, Unlocked
  <2>2. \A x \in Tasks : job[x].owner # w => job'[x] = job[x]
    BY <2>1
  <2>3. ASSUME NEW x \in Tasks, x = proc[w].job
        PROVE  /\ job'[x].owner = NoProc /\ job'[x].stalls = job[x].stalls
               /\ job'[x].state = "active" /\ job'[x].made = job[x].made
    <3>1. job'[x] = [job[x] EXCEPT !.owner = NoProc] /\ job[x] \in JobRow
      BY <1>1, <1>4, <2>1, <2>3
    <3>2. QED
      BY <1>4, <2>3, <3>1 DEF JobRow
  <2>4. QED
    BY <1>1, <1>2, <1>3, <1>4, <1>5, <2>2, <2>3
<1>6. CASE Acknowledge(w)
  <2>1. PICK t \in Tasks : t = proc[w].job
    BY <1>1, <1>6 DEF Acknowledge, TypeInv, ProcOK
  <2>2. job[t].owner = w /\ job[t] \in JobRow /\ proc[w].pc \in {"return", "throw"}
    BY <1>1, <1>4, <1>6, <2>1 DEF Acknowledge
  <2>3. CASE proc[w].pc = "return"
    <3>1. job' = [job EXCEPT ![t].state = "completed", ![t].owner = NoProc]
      BY <1>6, <2>1, <2>2, <2>3 DEF Acknowledge
    <3>2. QED
      BY <1>1, <1>2, <1>4, <2>1, <2>2, <2>3, <3>1 DEF JobRow
  <2>4. CASE proc[w].pc = "throw"
    <3> DEFINE n == job[t].made + 1
               s == IF n < MaxAttempts THEN "waiting" ELSE "failed"
    <3>1. job' = [job EXCEPT ![t].state = s, ![t].made = n, ![t].owner = NoProc]
      BY <1>6, <2>1, <2>2, <2>4 DEF Acknowledge, JobAttempts
    <3>2. s = IF job[t].made + 1 < MaxAttempts THEN "waiting" ELSE "failed"
      OBVIOUS
    <3>3. n = job[t].made + 1
      OBVIOUS
    <3> HIDE DEF n, s
    <3>4. /\ job'[t].state = s /\ job'[t].made = n /\ job'[t].owner = NoProc
          /\ job'[t].stalls = job[t].stalls /\ \A x \in Tasks \ {t} : job'[x] = job[x]
      BY <1>1, <2>2, <3>1 DEF JobRow
    <3>5. QED
      BY <1>1, <1>2, <1>4, <2>1, <2>4, <3>2, <3>3, <3>4
  <2>5. QED
    BY <2>2, <2>3, <2>4
<1>7. QED
  BY <1>5, <1>6

LEMMA DropBase ==
    ASSUME Base, TypeInv', NEW w \in Workers, Acknowledge(w) \/ CrashWorker(w)
    PROVE  Base'
<1>1. /\ w \in Procs /\ UNCHANGED <<task, effects, origin, orphans>>
      /\ proc'[w] = Idle /\ \A q \in Procs \ {w} : proc'[q] = proc[q]
      /\ \A x \in Tasks \ {proc[w].job} : job'[x] = job[x]
      /\ \A x \in Tasks : x = proc[w].job =>
           /\ job[x].owner = w /\ job[x].state = "active"
           /\ job'[x].owner = NoProc /\ job'[x].stalls = job[x].stalls
           /\ \/ CrashWorker(w) /\ job'[x].state = "active" /\ job'[x].made = job[x].made
              \/ proc[w].pc = "return" /\ job'[x].state = "completed" /\ job'[x].made = job[x].made
              \/ /\ proc[w].pc = "throw" /\ job'[x].made = job[x].made + 1
                 /\ job'[x].state = IF job[x].made + 1 < MaxAttempts THEN "waiting" ELSE "failed"
  BY DropFacts
<1>2. \A x \in Tasks : x = proc[w].job => \A q \in Procs \ {w} : proc[q].job # x /\ ~Works(q, x)
  BY <1>1, WorksJob DEF Base, Locks
<1>3. Known'
  BY <1>1, IdleFacts DEF Base, Known
<1>4. Locks'
  <2> SUFFICES ASSUME NEW x \in Tasks
               PROVE  /\ \A p \in Procs : proc'[p].job = x <=> job'[x].owner = p
                      /\ job'[x].owner # NoProc => job'[x].state = "active"
                      /\ job'[x].state = "none" => job'[x].made = 0 /\ job'[x].stalls = 0
    BY DEF Locks
  <2>1. CASE x = proc[w].job
    BY <1>1, <1>2, <2>1, IdleFacts
  <2>2. CASE x # proc[w].job
    BY <1>1, <2>2, IdleFacts DEF Base, Locks
  <2>3. QED
    BY <2>1, <2>2
<1>5. Roles'
  <2>1. \A c \in Callers : c \in Procs
    BY DEF Procs
  <2>2. QED
    BY <1>1, <2>1, IdleFacts DEF Base, Roles
<1>6. \A q \in Procs, x \in Tasks : Works(q, x)' => q # w /\ Works(q, x) /\ x # proc[w].job
  BY <1>1, <1>2, IdleFacts DEF Works, Busy, AtTask
<1>7. Apart'
  BY <1>1, <1>6 DEF Base, Apart
<1>8. Dispatching'
  BY <1>1, IdleFacts DEF Base, Dispatching
<1>9. Counts'
  <2> SUFFICES ASSUME NEW x \in Tasks, job'[x].stalls = 0
               PROVE  /\ job'[x].state = "waiting" => task'[x].attemptCount <= job'[x].made
                      /\ \A q \in Procs : (proc'[q].job = x /\ proc'[q].task = x) => Counted(q, x)'
    BY DEF Counts
  <2>1. CASE x = proc[w].job
    <3>1. proc[w].pc = "throw" => task[x].attemptCount <= job[x].made + 1
      BY <1>1, <2>1 DEF Base, Roles, Counts, Counted
    <3>2. \A q \in Procs : proc'[q].job # x
      BY <1>1, <1>2, <2>1, IdleFacts
    <3>3. job'[x].state = "waiting" => proc[w].pc = "throw" /\ job'[x].made = job[x].made + 1
      BY <1>1, <2>1
    <3>4. QED
      BY <1>1, <3>1, <3>2, <3>3
  <2>2. CASE x # proc[w].job
    <3>1. ASSUME NEW q \in Procs, proc'[q].job = x, proc'[q].task = x PROVE Counted(q, x)'
      <4>1. q # w /\ proc'[q] = proc[q]
        BY <1>1, <3>1, IdleFacts
      <4>2. QED
        BY <1>1, <2>2, <3>1, <4>1 DEF Base, Counts, Counted
    <3>2. QED
      BY <1>1, <2>2, <3>1 DEF Base, Counts
  <2>3. QED
    BY <2>1, <2>2
<1>10. QED
  BY <1>3, <1>4, <1>5, <1>7, <1>8, <1>9 DEF Base

LEMMA StalledFacts ==
    ASSUME Base, NEW t \in Tasks, Stalled(t)
    PROVE  /\ UNCHANGED <<task, proc, effects, origin, orphans>>
           /\ job[t].state = "active" /\ job[t].owner = NoProc /\ job'[t].owner = NoProc
           /\ job'[t].stalls = job[t].stalls + 1 /\ job[t].stalls \in Nat /\ job'[t].made = job[t].made
           /\ job'[t].state = IF job[t].stalls < MaxStalls THEN "waiting" ELSE "failed"
           /\ \A x \in Tasks \ {t} : job'[x] = job[x]
<1>1. job \in [Tasks -> JobRow] /\ job[t] \in JobRow /\ job[t].stalls \in Nat
  BY DEF Base, TypeInv, TypeOK, JobRow
<1> DEFINE n == job[t].stalls + 1
           s == IF job[t].stalls < MaxStalls THEN "waiting" ELSE "failed"
<1>2. /\ job' = [job EXCEPT ![t].state = s, ![t].stalls = n] /\ UNCHANGED <<task, proc, effects, origin, orphans>>
      /\ job[t].state = "active" /\ job[t].owner = NoProc
  BY DEF Stalled
<1>3. n = job[t].stalls + 1 /\ s = IF job[t].stalls < MaxStalls THEN "waiting" ELSE "failed"
  OBVIOUS
<1> HIDE DEF n, s
<1>4. /\ job'[t].state = s /\ job'[t].stalls = n /\ job'[t].made = job[t].made
      /\ job'[t].owner = job[t].owner /\ \A x \in Tasks \ {t} : job'[x] = job[x]
  BY <1>1, <1>2 DEF JobRow
<1>5. QED
  BY <1>1, <1>2, <1>3, <1>4

LEMMA StalledBase ==
    ASSUME Base, TypeInv', NEW t \in Tasks, Stalled(t)
    PROVE  Base'
<1>1. /\ UNCHANGED <<task, proc, effects, origin, orphans>>
      /\ job[t].state = "active" /\ job[t].owner = NoProc /\ job'[t].owner = NoProc
      /\ job'[t].stalls = job[t].stalls + 1 /\ job[t].stalls \in Nat /\ job'[t].made = job[t].made
      /\ job'[t].state = IF job[t].stalls < MaxStalls THEN "waiting" ELSE "failed"
      /\ \A x \in Tasks \ {t} : job'[x] = job[x]
  BY StalledFacts
<1>2. job'[t].stalls # 0 /\ job'[t].state # "none"
  BY <1>1
<1>3. Known'
  BY <1>1 DEF Base, Known
<1>4. Locks'
  BY <1>1, <1>2 DEF Base, Locks
<1>5. Roles' /\ Dispatching'
  BY <1>1 DEF Base, Roles, Dispatching
<1>6. Apart'
  BY <1>1 DEF Base, Apart, Works
<1>7. Counts'
  BY <1>1, <1>2 DEF Base, Counts, Counted
<1>8. QED
  BY <1>3, <1>4, <1>5, <1>6, <1>7 DEF Base

\* The job of t is enqueued and p is done with it, or p runs t itself.
LEMMA DispatchFacts ==
    ASSUME Base, NoOverlap, NEW p \in Procs, NEW o \in EnqueueOutcomes, DispatchTask(p, o)
    PROVE  \E t \in Tasks :
             /\ proc[p].pc = "dispatch" /\ proc[p].task = t /\ proc[p].job # t
             /\ UNCHANGED <<task, effects, origin, orphans>>
             /\ \A q \in Procs \ {p} : proc'[q] = proc[q]
             /\ proc'[p].job = proc[p].job /\ proc'[p].source = proc[p].source
             /\ proc'[p].replacement = proc[p].replacement \/ proc'[p] = Idle
             /\ \/ /\ job'[t].state = "waiting" /\ job'[t].owner = job[t].owner
                   /\ job'[t].made = job[t].made /\ job'[t].stalls = job[t].stalls
                   /\ \A x \in Tasks \ {t} : job'[x] = job[x]
                   /\ proc'[p].task = t \/ proc'[p] = Idle
                   /\ proc'[p].pc \in {"return", "replaced", "idle"}
                \/ job' = job /\ proc'[p].pc = "start" /\ proc'[p].task = t
<1>1. TypeInv /\ TypeOK /\ job \in [Tasks -> JobRow]
  BY DEF Base, TypeInv, TypeOK
<1>2. proc[p].pc = "dispatch" /\ UNCHANGED <<task, effects, origin, orphans>>
  BY DEF DispatchTask
<1>3. PICK t \in Tasks : t = proc[p].task
  BY <1>1, <1>2 DEF TypeInv, ProcOK, AtTask
<1>4. proc[p].job # t
  BY <1>2, <1>3 DEF Base, Dispatching
<1>5. CASE o = "queued"
  <2>1. job' = [job EXCEPT ![t].state = "waiting"] /\ Ends(p, FALSE)
    BY <1>3, <1>5 DEF DispatchTask
  <2>2. /\ job'[t].state = "waiting" /\ job'[t].owner = job[t].owner
        /\ job'[t].made = job[t].made /\ job'[t].stalls = job[t].stalls
        /\ \A x \in Tasks \ {t} : job'[x] = job[x]
    BY <1>1, <2>1 DEF JobRow
  <2>3. /\ \A q \in Procs \ {p} : proc'[q] = proc[q]
        /\ proc'[p].job = proc[p].job /\ proc'[p].source = proc[p].source
        /\ (proc'[p].task = t /\ proc'[p].replacement = proc[p].replacement) \/ proc'[p] = Idle
        /\ proc'[p].pc \in {"return", "throw", "replaced", "idle"} /\ proc'[p].pc # "throw"
    BY <1>1, <1>3, <2>1, EndsFacts
  <2>4. QED
    BY <1>2, <1>3, <1>4, <2>2, <2>3
<1>6. CASE o # "queued"
  <2>1. job' = job /\ Goto(p, "start")
    BY <1>6 DEF DispatchTask, NoOverlap
  <2>2. QED
    BY <1>1, <1>2, <1>3, <1>4, <2>1, GotoFacts
<1>7. QED
  BY <1>5, <1>6

LEMMA DispatchBase ==
    ASSUME Base, NoOverlap, TypeInv', NEW p \in Procs, NEW o \in EnqueueOutcomes, DispatchTask(p, o)
    PROVE  Base'
<1>1. PICK t \in Tasks :
        /\ proc[p].pc = "dispatch" /\ proc[p].task = t /\ proc[p].job # t
        /\ UNCHANGED <<task, effects, origin, orphans>>
        /\ \A q \in Procs \ {p} : proc'[q] = proc[q]
        /\ proc'[p].job = proc[p].job /\ proc'[p].source = proc[p].source
        /\ \/ /\ job'[t].state = "waiting" /\ job'[t].owner = job[t].owner
              /\ job'[t].made = job[t].made /\ job'[t].stalls = job[t].stalls
              /\ \A x \in Tasks \ {t} : job'[x] = job[x]
              /\ proc'[p].task = t \/ proc'[p] = Idle
              /\ proc'[p].pc \in {"return", "replaced", "idle"}
           \/ job' = job /\ proc'[p].pc = "start" /\ proc'[p].task = t
  BY DispatchFacts
<1>2. /\ Works(p, t) /\ job[t].state = "none" /\ job[t].owner = NoProc /\ job[t].made = 0
      /\ task[t].attemptCount = 0 /\ task[t].status = "PENDING"
      /\ \A q \in Procs : Works(q, t) => q = p
      /\ \A q \in Procs : proc[q].job # t
  <2>1. Works(p, t)
    BY <1>1 DEF Works, Busy, AtTask
  <2>2. job[t].state = "none" /\ job[t].owner = NoProc
    BY <1>1, <2>1, WorksJob
  <2>3. QED
    BY <1>1, <2>1, <2>2, OneWorks, IdleFacts DEF Base, Locks, Dispatching
<1>3. \A q \in Procs, x \in Tasks : Works(q, x)' =>
        /\ Works(q, x) /\ proc'[q].job = proc[q].job
        /\ x = t => q = p /\ job' = job
  BY <1>1, <1>2, IdleFacts DEF Works, Busy, AtTask
<1>4. Known'
  BY <1>1, <1>2, IdleFacts DEF Base, Known
<1>5. Locks'
  <2> SUFFICES ASSUME NEW x \in Tasks
               PROVE  /\ \A q \in Procs : proc'[q].job = x <=> job'[x].owner = q
                      /\ job'[x].owner # NoProc => job'[x].state = "active"
                      /\ job'[x].state = "none" => job'[x].made = 0 /\ job'[x].stalls = 0
    BY DEF Locks
  <2>1. \A q \in Procs : proc'[q].job = proc[q].job
    BY <1>1
  <2>2. CASE job'[x] = job[x]
    BY <2>1, <2>2 DEF Base, Locks
  <2>3. CASE job'[x] # job[x]
    BY <1>1, <1>2, <2>1, <2>3, IdleFacts
  <2>4. QED
    BY <2>2, <2>3
<1>6. Roles'
  <2>1. \A c \in Callers : c \in Procs
    BY DEF Procs
  <2>2. QED
    BY <1>1, <2>1 DEF Base, Roles
<1>7. Apart'
  BY <1>1, <1>3 DEF Base, Apart
<1>8. Dispatching'
  <2>1. \A q \in Procs : proc'[q].source = proc[q].source
    BY <1>1
  <2>2. \A q \in Procs : proc'[q].pc = "dispatch" => proc'[q] = proc[q]
    BY <1>1
  <2>3. QED
    BY <1>1, <2>1, <2>2 DEF Base, Dispatching
<1>9. Counts'
  <2> SUFFICES ASSUME NEW x \in Tasks, job'[x].stalls = 0
               PROVE  /\ job'[x].state = "waiting" => task'[x].attemptCount <= job'[x].made
                      /\ \A q \in Procs : (proc'[q].job = x /\ proc'[q].task = x) => Counted(q, x)'
    BY DEF Counts
  <2>1. CASE x = t
    <3>1. \A q \in Procs : proc'[q].job # t
      BY <1>1, <1>2
    <3>2. 0 <= 0
      OBVIOUS
    <3>3. QED
      BY <1>1, <1>2, <2>1, <3>1, <3>2
  <2>2. CASE x # t
    <3>1. proc'[p].task # x
      BY <1>1, <2>2, IdleFacts
    <3>2. job'[x] = job[x]
      BY <1>1, <2>2
    <3>3. QED
      BY <1>1, <3>1, <3>2 DEF Base, Counts, Counted
  <2>3. QED
    BY <2>1, <2>2
<1>10. QED
  BY <1>4, <1>5, <1>6, <1>7, <1>8, <1>9 DEF Base

\* The steps of the system without overlaps, by what they do to the invariant.
Shape ==
    \/ \E p \in Procs, x \in Tasks : LocalKeeps(p, x) /\ ProcessTask(p)
    \/ \E p \in Procs, t \in Tasks : FreshStep(p, t)
    \/ \E p \in Procs, o \in EnqueueOutcomes : DispatchTask(p, o)
    \/ \E c \in Callers, t \in Tasks : ClaimForRetry(c, t)
    \/ \E c \in Callers : RetryByKindFails(c) \/ MarkRetried(c) \/ CrashCaller(c)
    \/ \E t \in Tasks : Prune(t) \/ Stalled(t)
    \/ \E w \in Workers, t \in Tasks : TakeJob(w, t)
    \/ \E w \in Workers : Acknowledge(w) \/ CrashWorker(w)
    \/ UNCHANGED vars

LEMMA Shapes ==
    ASSUME Base, NoOverlap, [Next]_vars, TypeInv'
    PROVE  Shape
<1>1. \A c \in Callers : c \in Procs
  BY DEF Procs
<1>2. ASSUME NEW c \in Callers, Request(c) PROVE Shape
  BY <1>1, <1>2, FreshFacts DEF Shape, Request, CallerStep
<1>3. ASSUME NEW p \in Procs, ProcessTask(p) PROVE Shape
  <2>1. CASE \E o \in EnqueueOutcomes : DispatchTask(p, o)
    BY <2>1 DEF Shape
  <2>2. CASE \E t \in Tasks : QueuePush(p, t)
    BY <2>2, FreshFacts DEF Shape
  <2>3. CASE ~(\E o \in EnqueueOutcomes : DispatchTask(p, o)) /\ ~(\E t \in Tasks : QueuePush(p, t))
    <3>1. LocalKeeps(p, proc[p].task)
      BY <1>3, <2>3, LocalKept
    <3>2. proc[p].task \in Tasks
      BY <3>1 DEF LocalKeeps
    <3>3. QED
      BY <1>3, <3>1, <3>2 DEF Shape
  <2>4. QED
    BY <2>1, <2>2, <2>3
<1>4. ASSUME NEW w \in Workers, Queue(w) PROVE Shape
  BY <1>4 DEF Shape, Queue, NoOverlap, LoseLock, Fault
<1>5. QED
  BY <1>2, <1>3, <1>4, StepKinds DEF Shape

LEMMA BaseNext ==
    ASSUME Base, NoOverlap, Shape, TypeInv'
    PROVE  Base'
<1>1. ASSUME NEW p \in Procs, NEW x \in Tasks, LocalKeeps(p, x) PROVE Base'
  BY <1>1, LocalBase DEF LocalKeeps
<1>2. ASSUME NEW p \in Procs, NEW t \in Tasks, FreshStep(p, t) PROVE Base'
  BY <1>2, FreshBase
<1>3. ASSUME NEW p \in Procs, NEW o \in EnqueueOutcomes, DispatchTask(p, o) PROVE Base'
  BY <1>3, DispatchBase
<1>4. ASSUME NEW c \in Callers, NEW t \in Tasks, ClaimForRetry(c, t) PROVE Base'
  BY <1>4, ClaimFacts, AdminBase
<1>5. ASSUME NEW c \in Callers, RetryByKindFails(c) \/ MarkRetried(c) \/ CrashCaller(c) PROVE Base'
  BY <1>5, ReleaseFacts, AdminBase
<1>6. ASSUME NEW t \in Tasks, Prune(t) PROVE Base'
  BY <1>6, PruneFacts, AdminBase
<1>7. ASSUME NEW t \in Tasks, Stalled(t) PROVE Base'
  BY <1>7, StalledBase
<1>8. ASSUME NEW w \in Workers, NEW t \in Tasks, TakeJob(w, t) PROVE Base'
  BY <1>8, TakeBase
<1>9. ASSUME NEW w \in Workers, Acknowledge(w) \/ CrashWorker(w) PROVE Base'
  BY <1>9, DropBase
<1>10. CASE UNCHANGED vars
  BY <1>10 DEF vars, Base, Known, Locks, Roles, Apart, Works, Dispatching, Counts, Counted
<1>11. QED
  BY <1>1, <1>2, <1>3, <1>4, <1>5, <1>6, <1>7, <1>8, <1>9, <1>10 DEF Shape

LEMMA BaseInit ==
    ASSUME Init
    PROVE  Base
<1>1. \A p \in Procs : proc[p] = Idle
  BY DEF Init
<1>2. \A t \in Tasks : /\ task[t].status = "NONE" /\ job[t].state = "none" /\ job[t].owner = NoProc
                       /\ job[t].made = 0 /\ job[t].stalls = 0 /\ effects[t] = 0 /\ origin[t] = NoTask
  BY DEF Init
<1>3. \A c \in Callers : c \in Procs
  BY DEF Procs
<1>4. Known /\ Locks /\ Roles
  BY <1>1, <1>2, <1>3, IdleFacts DEF Known, Locks, Roles
<1>5. Apart /\ Dispatching /\ Counts
  BY <1>1, <1>2, IdleFacts DEF Apart, Works, Busy, AtTask, Dispatching, Counts
<1>6. QED
  BY <1>4, <1>5, TypeInit DEF Base

\* Once its job is over, a task stays so.
LEMMA OverKept ==
    ASSUME Base, NoOverlap, Shape, NEW t \in Tasks, Over(t),
           \A p \in Procs : ~(proc[p].pc = "dispatch" /\ proc[p].task = t)
    PROVE  Over(t)'
<1>1. \A p \in Procs : proc[p].job = t <=> job[t].owner = p
  BY DEF Base, Locks
<1>2. job[t].owner # NoProc => job[t].state = "active"
  BY DEF Base, Locks
<1>3. ASSUME job'[t] = job[t],
             \A p \in Procs : (proc[p].pc = "throw" /\ proc[p].job = t) => proc'[p] = proc[p]
      PROVE  Over(t)'
  BY <1>3 DEF Over
<1>4. ASSUME NEW p \in Procs, NEW x \in Tasks, LocalKeeps(p, x) PROVE Over(t)'
  BY <1>3, <1>4 DEF LocalKeeps, LocalStep, AtTask
<1>5. ASSUME NEW p \in Procs, NEW x \in Tasks, FreshStep(p, x) PROVE Over(t)'
  BY <1>3, <1>5 DEF FreshStep
<1>6. ASSUME NEW p \in Procs, NEW o \in EnqueueOutcomes, DispatchTask(p, o) PROVE Over(t)'
  <2>1. PICK x \in Tasks :
          /\ proc[p].pc = "dispatch" /\ proc[p].task = x
          /\ x # t => job'[t] = job[t]
          /\ \A q \in Procs \ {p} : proc'[q] = proc[q]
    BY <1>6, DispatchFacts
  <2>2. x # t
    BY <2>1
  <2>3. QED
    BY <1>3, <2>1, <2>2
<1>7. ASSUME AdminStep PROVE Over(t)'
  <2>1. \A c \in Callers : proc[c].job # t
    BY IdleFacts DEF Base, Roles
  <2>2. QED
    BY <1>3, <1>7, <2>1 DEF AdminStep, Released
<1>8. ASSUME NEW x \in Tasks, Stalled(x) PROVE Over(t)'
  <2>1. CASE x = t
    <3>1. job'[t].stalls >= 1
      BY <1>8, <2>1, StalledFacts
    <3>2. QED
      BY <3>1 DEF Over
  <2>2. CASE x # t
    BY <1>3, <1>8, <2>2, StalledFacts
  <2>3. QED
    BY <2>1, <2>2
<1>9. ASSUME NEW w \in Workers, NEW x \in Tasks, TakeJob(w, x) PROVE Over(t)'
  <2>1. CASE x = t
    <3>1. job[t].state = "waiting" /\ job'[t].stalls = job[t].stalls
      BY <1>9, <2>1, TakeFacts
    <3>2. \A p \in Procs : proc[p].job # t
      BY <1>1, <1>2, <3>1, IdleFacts
    <3>3. job[t].stalls >= 1
      BY <3>1, <3>2 DEF Over
    <3>4. QED
      BY <3>1, <3>3 DEF Over
  <2>2. CASE x # t
    BY <1>3, <1>9, <2>2, TakeFacts, IdleFacts
  <2>3. QED
    BY <2>1, <2>2
<1>10. ASSUME NEW w \in Workers, Acknowledge(w) \/ CrashWorker(w) PROVE Over(t)'
  <2>1. CASE proc[w].job = t
    <3>1. /\ w \in Procs /\ job[t].owner = w /\ job[t].state = "active"
          /\ job'[t].owner = NoProc /\ job'[t].stalls = job[t].stalls
          /\ \/ job'[t].state = "active"
             \/ job'[t].state = "completed"
             \/ /\ proc[w].pc = "throw"
                /\ job'[t].state = IF job[t].made + 1 < MaxAttempts THEN "waiting" ELSE "failed"
      BY <1>10, <2>1, DropFacts
    <3>2. CASE job'[t].state \in {"active", "completed"}
      BY <3>1, <3>2 DEF Over
    <3>3. CASE job'[t].state \notin {"active", "completed"}
      <4>1. CASE job[t].stalls >= 1
        BY <3>1, <4>1 DEF Over
      <4>2. CASE ~(job[t].stalls >= 1)
        <5>1. job[t].made + 1 >= MaxAttempts /\ job[t].made \in Nat
          BY <3>1, <4>2, IdleFacts DEF Over, Base, TypeInv, TypeOK, JobRow
        <5>2. job'[t].state = "failed"
          BY <3>1, <3>3, <5>1, ConstantsAssumption
        <5>3. QED
          BY <5>2 DEF Over
      <4>3. QED
        BY <4>1, <4>2
    <3>4. QED
      BY <3>2, <3>3
  <2>2. CASE proc[w].job # t
    BY <1>3, <1>10, <2>2, DropFacts
  <2>3. QED
    BY <2>1, <2>2
<1>11. CASE UNCHANGED vars
  BY <1>3, <1>11 DEF vars
<1>12. QED
  BY <1>4, <1>5, <1>6, <1>7, <1>8, <1>9, <1>10, <1>11, ClaimFacts, ReleaseFacts, PruneFacts DEF Shape

\* A failed task, or one that an administrator is about to replace.
Failing(t) == task[t].status = "FAILED" \/ \E p \in Procs : Claims(p, t)

\* A task begins to fail when processTask gave up and its job ends.
LEMMA FailingFrom ==
    ASSUME Base, NoOverlap, Shape, NEW t \in Tasks, Failing(t)', ~Failing(t)
    PROVE  Over(t)' /\ \E p \in Procs : Works(p, t) /\ ~Works(p, t)' /\ \A q \in Procs \ {p} : proc'[q] = proc[q]
<1> USE DEF Failing
<1>1. ASSUME NEW p \in Procs, NEW x \in Tasks, LocalKeeps(p, x)
      PROVE  Over(t)' /\ \E q \in Procs : Works(q, t) /\ ~Works(q, t)' /\ \A r \in Procs \ {q} : proc'[r] = proc[r]
  <2>1. \A q \in Procs : Claims(q, t)' => Claims(q, t)
    BY <1>1 DEF LocalKeeps, LocalStep, Claims
  <2>2. task'[t].status = "FAILED" /\ task[t].status # "FAILED"
    BY <2>1
  <2>3. x = t /\ proc[p].pc # "push" /\ proc'[p].pc \notin Busy /\ Over(t)'
    BY <1>1, <2>2 DEF LocalKeeps, LocalStep
  <2>4. Works(p, t) /\ ~Works(p, t)'
    BY <1>1, <2>3 DEF LocalKeeps, LocalStep, Works, Busy
  <2>5. QED
    BY <1>1, <2>3, <2>4 DEF LocalKeeps, LocalStep
<1>2. ASSUME task'[t].status = "FAILED" => task[t].status = "FAILED",
             \A q \in Procs : Claims(q, t)' => Claims(q, t)
      PROVE  FALSE
  BY <1>2
<1>3. ASSUME NEW p \in Procs, NEW x \in Tasks, FreshStep(p, x) PROVE FALSE
  BY <1>2, <1>3 DEF FreshStep, Claims
<1>4. ASSUME NEW p \in Procs, NEW o \in EnqueueOutcomes, DispatchTask(p, o) PROVE FALSE
  <2>1. proc'[p].source = proc[p].source /\ task' = task /\ \A q \in Procs \ {p} : proc'[q] = proc[q]
    BY <1>4, DispatchFacts
  <2>2. QED
    BY <1>2, <2>1 DEF Claims
<1>5. ASSUME NEW c \in Callers, NEW x \in Tasks, ClaimForRetry(c, x) PROVE FALSE
  <2>1. x # t
    BY <1>5, ClaimFacts
  <2>2. QED
    BY <1>2, <1>5, <2>1, ClaimFacts DEF Claims
<1>6. ASSUME NEW c \in Callers, RetryByKindFails(c) \/ MarkRetried(c) \/ CrashCaller(c) PROVE FALSE
  <2>1. c \in Procs
    BY DEF Procs
  <2>2. task'[t].status = "FAILED" => task[t].status = "FAILED"
    BY <1>6, <2>1, ReleaseFacts
  <2>3. QED
    BY <1>2, <1>6, <2>2, ReleaseFacts, IdleFacts DEF Claims
<1>7. ASSUME NEW x \in Tasks, Prune(x) PROVE FALSE
  BY <1>2, <1>7, PruneFacts DEF Claims
<1>8. ASSUME NEW x \in Tasks, Stalled(x) PROVE FALSE
  BY <1>2, <1>8, StalledFacts DEF Claims
<1>9. ASSUME NEW w \in Workers, NEW x \in Tasks, TakeJob(w, x) PROVE FALSE
  <2>1. task' = task /\ proc'[w].source = NoTask /\ \A q \in Procs \ {w} : proc'[q] = proc[q]
    BY <1>9, TakeFacts
  <2>2. QED
    BY <1>2, <2>1, IdleFacts DEF Claims
<1>10. ASSUME NEW w \in Workers, Acknowledge(w) \/ CrashWorker(w) PROVE FALSE
  <2>1. task' = task /\ proc'[w].source = NoTask /\ \A q \in Procs \ {w} : proc'[q] = proc[q]
    BY <1>10, DropFacts, IdleFacts
  <2>2. QED
    BY <1>2, <2>1, IdleFacts DEF Claims
<1>11. CASE UNCHANGED vars
  BY <1>2, <1>11 DEF vars, Claims
<1>12. QED
  BY <1>1, <1>3, <1>4, <1>5, <1>6, <1>7, <1>8, <1>9, <1>10, <1>11 DEF Shape

LEMMA ClosingNext ==
    ASSUME Base, NoOverlap, Shape, Closing
    PROVE  Closing'
<1> SUFFICES ASSUME NEW t \in Tasks, Failing(t)' PROVE Over(t)'
  BY DEF Closing, Failing
<1>1. CASE Failing(t)
  <2>1. Over(t)
    BY <1>1 DEF Closing, Failing
  <2>2. \A p \in Procs : ~(proc[p].pc = "dispatch" /\ proc[p].task = t)
    BY <1>1 DEF Base, Dispatching, Failing, Claims
  <2>3. QED
    BY <2>1, <2>2, OverKept
<1>2. CASE ~Failing(t)
  BY <1>2, FailingFrom
<1>3. QED
  BY <1>1, <1>2

WrittenAt(t) ==
    /\ effects[t] <= 1
    /\ \A p \in Procs : proc[p].task = t => proc[p].pc \notin {"run", "sent"}
    /\ effects[t] = 1 =>
         /\ Done(t) \/ Dead(t)
         /\ \A p \in Procs : proc[p].task = t => proc[p].pc \notin Marked \cup {"mark"}

\* The steps that do not write the notifications of t.
LEMMA WrittenFrame ==
    ASSUME NEW t \in Tasks, WrittenAt(t), effects'[t] = effects[t],
           \A p \in Procs : proc'[p].task = t =>
              \/ proc[p].task = t /\ proc'[p].pc = proc[p].pc
              \/ proc'[p].pc \notin Marked \cup {"mark"},
           effects[t] = 1 => (Done(t) \/ Dead(t))'
    PROVE  WrittenAt(t)'
BY DEF WrittenAt, Marked

\* A step of processTask at another task.
LEMMA WrittenElsewhere ==
    ASSUME NEW t \in Tasks, WrittenAt(t), NEW p \in Procs, NEW x \in Tasks, LocalStep(p, x), x # t
    PROVE  WrittenAt(t)'
<1>1. proc'[p].task # t /\ effects'[t] = effects[t] /\ task'[t] = task[t] /\ job' = job
  BY IdleFacts DEF LocalStep
<1>2. \A q \in Procs : Claims(q, t)' => Claims(q, t)
  BY DEF LocalStep, Claims
<1>3. Done(t) => Done(t)'
  BY <1>1, <1>2 DEF Done
<1>4. Dead(t) => Dead(t)'
  BY <1>1 DEF Dead, LocalStep
<1>5. QED
  BY <1>1, <1>3, <1>4, WrittenFrame DEF LocalStep, WrittenAt

\* The step of processTask at the task itself.  When the notifications are committed
\* while an administrator holds the task, its job has used up its one stall.
LEMMA WrittenHere ==
    ASSUME Base, Closing, NEW p \in Procs, NEW x \in Tasks, LocalKeeps(p, x),
           ProcessTask(p), task[x].kind = "fanout", WrittenAt(x)
    PROVE  WrittenAt(x)'
<1>0. TypeOK /\ effects[x] \in Nat /\ effects \in [Tasks -> Nat] /\ proc[p].task = x
      /\ proc[p].pc \in AtTask \ {"dispatch"} /\ job' = job
      /\ \A q \in Procs \ {p} : proc'[q] = proc[q]
  BY DEF Base, TypeInv, TypeOK, LocalKeeps, LocalStep
<1>1. \A q \in Procs : Claims(q, x)' <=> Claims(q, x)
  BY <1>0 DEF LocalKeeps, LocalStep, Claims, AtTask
<1>2. \A pc \in PCs : Goto(p, pc) => proc'[p].pc = pc
  BY <1>0, GotoFacts
<1>3. Ends(p, FALSE) => proc'[p].pc \in {"return", "replaced", "idle"}
  BY <1>0, EndsFacts
<1>4. CASE effects[x] = 1
  <2>1. proc[p].pc \in {"start", "push"} /\ (Done(x) \/ Dead(x))
    BY <1>0, <1>4 DEF WrittenAt, Marked, AtTask
  <2>2. Start(p) \/ SkipPush(p) \/ StatementFails(p) \/ \E t \in Tasks : QueuePush(p, t)
    BY <2>1 DEF ProcessTask, DispatchTask, MarkProcessing, Send, NothingToSend, SendFails,
                MarkSucceeded, MarkSucceededFails, TxRead, TxCommit, TxFails, MarkFailure
  <2>3. ~\E t \in Tasks : QueuePush(p, t)
    <3> SUFFICES ASSUME NEW t \in Tasks, QueuePush(p, t) PROVE FALSE
      OBVIOUS
    <3>1. proc'[p].pc = "dispatch"
      BY FreshFacts DEF FreshStep
    <3>2. QED
      BY <3>1 DEF LocalKeeps, LocalStep
  <2>4. proc[p].pc = "start" => Done(x)
    BY <1>0, <2>1 DEF Dead
  <2>5. (Ends(p, FALSE) \/ (StatementFails(p) /\ Ends(p, TRUE))) /\ UNCHANGED <<task, effects>>
    <3>1. CASE Start(p)
      BY <1>0, <2>4, <3>1 DEF Start, Done, Handled
    <3>2. CASE SkipPush(p)
      BY <3>2 DEF SkipPush
    <3>3. CASE StatementFails(p)
      BY <3>3 DEF StatementFails
    <3>4. QED
      BY <2>2, <2>3, <3>1, <3>2, <3>3
  <2>6. proc'[p].pc \in {"return", "replaced", "idle", "throw"}
    BY <1>0, <1>3, <2>5, EndsFacts
  <2>7. Done(x) => Done(x)'
    BY <1>1, <2>5 DEF Done
  <2>8. Dead(x) => Dead(x)'
    <3> SUFFICES ASSUME Dead(x) PROVE Dead(x)'
      OBVIOUS
    <3>1. proc[p].pc = "push"
      BY <1>0, <2>1 DEF Dead
    <3>2. ~StatementFails(p)
      BY <3>1 DEF StatementFails, StatementThrows
    <3>3. proc'[p].pc \in {"return", "replaced", "idle"}
      BY <1>3, <2>5, <3>2
    <3>4. QED
      BY <1>0, <3>3 DEF Dead
  <2>9. QED
    BY <1>0, <2>1, <2>5, <2>6, <2>7, <2>8, WrittenFrame DEF Marked
<1>5. CASE effects[x] # 1
  <2>0. effects[x] = 0
    BY <1>0, <1>5 DEF WrittenAt
  <2>1. CASE TxCommit(p)
    <3>1. effects'[x] = 1 /\ task'[x].status = "SUCCEEDED" /\ proc[p].pc = "txCommit"
      BY <1>0, <2>0, <2>1, SetStatusRows DEF TxCommit
    <3>2. proc'[p].pc = "push"
      BY <1>2, <2>1 DEF TxCommit, PCs
    <3>3. Works(p, x)
      BY <1>0, <3>1 DEF Works, Busy, AtTask
    <3>4. \A q \in Procs \ {p} : ~Works(q, x)
      BY <3>3, OneWorks
    <3>5. \A q \in Procs \ {p} : proc[q].task = x => proc[q].pc \notin Marked \cup {"mark", "throw", "start"}
      <4> SUFFICES ASSUME NEW q \in Procs \ {p}, proc[q].task = x, proc[q].pc = "throw" PROVE FALSE
        BY <3>4 DEF Works, Busy, AtTask, Marked
      <4>1. proc[q].job = x
        BY DEF Base, Roles
      <4>2. job[x].owner = q
        BY <4>1 DEF Base, Locks
      <4>3. QED
        BY <3>3, <4>2, WorksJob, IdleFacts
    <3>6. Done(x)' \/ Dead(x)'
      <4>1. CASE \A q \in Procs : ~Claims(q, x)
        BY <1>1, <3>1, <4>1 DEF Done
      <4>2. CASE \E q \in Procs : Claims(q, x)
        <5>1. Over(x)
          BY <4>2 DEF Closing
        <5>2. job[x].state # "waiting" /\ (job[x].state = "active" => job[x].stalls >= 1)
          <6>1. CASE job[x].state = "none"
            BY <6>1
          <6>2. CASE job[x].state # "none"
            <7>1. proc[p].job = x /\ job[x].owner = p /\ job[x].state = "active"
              BY <3>3, <6>2, WorksJob
            <7>2. \A q \in Procs : proc[q].job = x => q = p
              BY <7>1 DEF Base, Locks
            <7>3. job[x].stalls >= 1
              BY <3>1, <5>1, <7>1, <7>2, IdleFacts DEF Over
            <7>4. QED
              BY <7>1, <7>3
          <6>3. QED
            BY <6>1, <6>2
        <5>3. QED
          BY <1>0, <3>2, <3>5, <5>2 DEF Dead
      <4>3. QED
        BY <4>1, <4>2
    <3>7. \A q \in Procs : proc'[q].task = x => proc'[q].pc \notin Marked \cup {"mark"}
      BY <1>0, <3>2, <3>5 DEF Marked
    <3>8. effects'[x] <= 1
      BY <3>1
    <3>9. QED
      BY <3>6, <3>7, <3>8 DEF WrittenAt, Marked
  <2>2. CASE ~TxCommit(p)
    <3>1. proc[p].pc \notin {"run", "sent"}
      BY <1>0 DEF WrittenAt
    <3>2. effects' = effects
      BY <2>2, <3>1 DEF ProcessTask, DispatchTask, Start, MarkProcessing, Send, NothingToSend, SendFails,
                MarkSucceeded, MarkSucceededFails, TxRead, TxFails, SkipPush, QueuePush, MarkFailure,
                StatementFails
    <3>3. proc'[p].pc \notin {"run", "sent"}
      <4>1. CASE Start(p)
        <5>1. Ends(p, FALSE) \/ proc'[p].pc = "mark"
          BY <1>0, <4>1 DEF Start, TypeOK, ProcState
        <5>2. QED
          BY <1>3, <5>1
      <4>2. CASE MarkProcessing(p)
        BY <1>0, <1>2, <4>2 DEF MarkProcessing, PCs
      <4>3. CASE TxRead(p)
        BY <1>2, <1>3, <4>3 DEF TxRead, PCs
      <4>4. CASE TxFails(p)
        BY <1>2, <4>4 DEF TxFails, PCs
      <4>5. CASE SkipPush(p)
        BY <1>3, <4>5 DEF SkipPush
      <4>6. CASE MarkFailure(p)
        BY <1>0, <4>6, EndsFacts DEF MarkFailure
      <4>7. ASSUME NEW t \in Tasks, QueuePush(p, t) PROVE proc'[p].pc \notin {"run", "sent"}
        BY <4>7, FreshFacts DEF FreshStep
      <4>8. CASE StatementFails(p)
        BY <1>0, <4>8, EndsFacts DEF StatementFails
      <4>9. QED
        BY <1>0, <2>2, <3>1, <4>1, <4>2, <4>3, <4>4, <4>5, <4>6, <4>7, <4>8
           DEF ProcessTask, DispatchTask, Send, NothingToSend, SendFails, MarkSucceeded, MarkSucceededFails
    <3>4. \A q \in Procs : proc'[q].task = x => proc'[q].pc \notin {"run", "sent"}
      BY <1>0, <3>3 DEF WrittenAt
    <3>5. QED
      BY <2>0, <3>2, <3>4 DEF WrittenAt
  <2>3. QED
    BY <2>1, <2>2
<1>6. QED
  BY <1>4, <1>5

LEMMA WrittenNext ==
    ASSUME Base, NoOverlap, MaxStalls <= 1, Shape, Closing, Written
    PROVE  Written'
<1>1. \A t \in Tasks : task[t].kind = "fanout" => WrittenAt(t)
  BY DEF Written, WrittenAt
<1>2. SUFFICES ASSUME NEW t \in Tasks, task'[t].kind = "fanout" PROVE WrittenAt(t)'
  BY DEF Written, WrittenAt
<1>3. ASSUME NEW p \in Procs, NEW x \in Tasks, LocalKeeps(p, x), ProcessTask(p) PROVE WrittenAt(t)'
  <2>1. task[t].kind = "fanout" /\ LocalStep(p, x)
    BY <1>2, <1>3 DEF LocalKeeps, LocalStep
  <2>2. CASE x = t
    BY <1>1, <1>3, <2>1, <2>2, WrittenHere
  <2>3. CASE x # t
    BY <1>1, <2>1, <2>3, WrittenElsewhere
  <2>4. QED
    BY <2>2, <2>3
<1>4. ASSUME NEW p \in Procs, NEW x \in Tasks, FreshStep(p, x) PROVE WrittenAt(t)'
  <2>1. CASE x = t
    <3>1. effects[t] = 0 /\ \A q \in Procs : proc[q].task # t
      BY <1>4, <2>1 DEF Base, Known, FreshStep
    <3>2. \A q \in Procs : proc'[q].task = t => proc'[q].pc = "dispatch"
      BY <1>4, <3>1 DEF FreshStep
    <3>3. effects'[t] = 0
      BY <1>4, <3>1 DEF FreshStep
    <3>4. QED
      BY <3>2, <3>3 DEF WrittenAt
  <2>2. CASE x # t
    <3>1. task'[t] = task[t] /\ effects' = effects /\ job' = job /\ proc'[p].task # t
      BY <1>4, <2>2 DEF FreshStep
    <3>2. Done(t) => Done(t)'
      BY <1>4, <3>1 DEF Done, Claims, FreshStep
    <3>3. Dead(t) => Dead(t)'
      BY <1>4, <3>1 DEF Dead, FreshStep
    <3>4. WrittenAt(t)
      BY <1>1, <1>2, <3>1
    <3>5. QED
      BY <1>4, <3>1, <3>2, <3>3, <3>4, WrittenFrame DEF FreshStep, WrittenAt
  <2>3. QED
    BY <2>1, <2>2
<1>5. ASSUME NEW p \in Procs, NEW o \in EnqueueOutcomes, DispatchTask(p, o) PROVE WrittenAt(t)'
  <2>1. PICK x \in Tasks :
          /\ proc[p].pc = "dispatch" /\ proc[p].task = x /\ task' = task /\ effects' = effects
          /\ \A q \in Procs \ {p} : proc'[q] = proc[q]
          /\ proc'[p].task = x \/ proc'[p] = Idle
          /\ proc'[p].pc \in {"return", "replaced", "idle", "start"} /\ proc'[p].source = proc[p].source
          /\ \A y \in Tasks \ {x} : job'[y] = job[y]
    BY <1>5, DispatchFacts
  <2>2. WrittenAt(t)
    BY <1>1, <1>2, <2>1
  <2>3. x = t => effects[t] = 0
    BY <2>1 DEF Base, Dispatching
  <2>4. Done(t) => Done(t)'
    BY <2>1 DEF Done, Claims
  <2>5. x # t /\ Dead(t) => Dead(t)'
    BY <2>1, IdleFacts DEF Dead
  <2>6. QED
    BY <2>1, <2>2, <2>3, <2>4, <2>5, WrittenFrame DEF WrittenAt, Marked
<1>6. ASSUME AdminStep, Done(t) => Done(t)' PROVE WrittenAt(t)'
  <2>1. WrittenAt(t)
    BY <1>1, <1>2, <1>6 DEF AdminStep
  <2>2. Dead(t) => Dead(t)'
    BY <1>6, IdleFacts DEF Dead, AdminStep, Released
  <2>3. \A q \in Procs : proc'[q].task = t => proc'[q] = proc[q]
    BY <1>6, IdleFacts DEF AdminStep, Released
  <2>4. effects' = effects
    BY <1>6 DEF AdminStep
  <2>5. QED
    BY <1>6, <2>1, <2>2, <2>3, <2>4, WrittenFrame DEF WrittenAt
<1>7. ASSUME NEW c \in Callers, NEW x \in Tasks, ClaimForRetry(c, x) PROVE WrittenAt(t)'
  <2>1. Done(t) => x # t
    BY <1>7, ClaimFacts DEF Done
  <2>2. Done(t) => Done(t)'
    BY <1>7, <2>1, ClaimFacts DEF Done, Claims
  <2>3. QED
    BY <1>6, <1>7, <2>2, ClaimFacts
<1>8. ASSUME NEW c \in Callers, RetryByKindFails(c) \/ MarkRetried(c) \/ CrashCaller(c)
      PROVE  WrittenAt(t)'
  <2>1. c \in Procs
    BY DEF Procs
  <2>2. Done(t) => Done(t)'
    BY <1>8, <2>1, ReleaseFacts, IdleFacts DEF Done, Claims
  <2>3. QED
    BY <1>6, <1>8, <2>2, ReleaseFacts
<1>9. ASSUME NEW x \in Tasks, Prune(x) PROVE WrittenAt(t)'
  <2>1. Done(t) => Done(t)'
    BY <1>9, PruneFacts DEF Done, Claims
  <2>2. QED
    BY <1>6, <1>9, <2>1, PruneFacts
<1>10. ASSUME NEW x \in Tasks, Stalled(x) PROVE WrittenAt(t)'
  <2>1. WrittenAt(t)
    BY <1>1, <1>2, <1>10, StalledFacts
  <2>2. Done(t) => Done(t)'
    BY <1>10, StalledFacts DEF Done, Claims
  <2>3. Dead(t) => Dead(t)'
    <3>1. CASE x = t
      <4>1. Dead(t) => job'[t].state = "failed"
        BY <1>10, <3>1, StalledFacts, ConstantsAssumption DEF Dead
      <4>2. proc' = proc
        BY <1>10, StalledFacts
      <4>3. QED
        BY <4>1, <4>2 DEF Dead
    <3>2. CASE x # t
      BY <1>10, <3>2, StalledFacts DEF Dead
    <3>3. QED
      BY <3>1, <3>2
  <2>4. QED
    BY <1>10, <2>1, <2>2, <2>3, WrittenFrame, StalledFacts DEF WrittenAt
<1>11. ASSUME NEW w \in Workers, NEW x \in Tasks, TakeJob(w, x) PROVE WrittenAt(t)'
  <2>1. WrittenAt(t)
    BY <1>1, <1>2, <1>11, TakeFacts
  <2>2. Done(t) => Done(t)'
    BY <1>11, TakeFacts, IdleFacts DEF Done, Claims
  <2>3. Dead(t) => Dead(t)'
    <3>1. Dead(t) => x # t
      BY <1>11, TakeFacts DEF Dead
    <3>2. QED
      BY <1>11, <3>1, TakeFacts DEF Dead
  <2>4. \A q \in Procs : proc'[q].task = t => proc'[q] = proc[q] \/ proc'[q].pc = "start"
    BY <1>11, TakeFacts
  <2>5. QED
    BY <1>11, <2>1, <2>2, <2>3, <2>4, WrittenFrame, TakeFacts DEF WrittenAt, Marked
<1>12. ASSUME NEW w \in Workers, Acknowledge(w) \/ CrashWorker(w) PROVE WrittenAt(t)'
  <2>1. WrittenAt(t) /\ w \in Procs
    BY <1>1, <1>2, <1>12, DropFacts
  <2>2. Done(t) => Done(t)'
    BY <1>12, DropFacts, IdleFacts DEF Done, Claims
  <2>3. (effects[t] = 1 /\ Dead(t)) => Dead(t)'
    <3>1. CASE proc[w].job = t
      <4>1. Dead(t) => proc[w].pc # "throw"
        BY <2>1, <3>1 DEF Dead, Base, Roles
      <4>2. /\ job[t].state = "active" /\ job'[t].stalls = job[t].stalls
            /\ proc[w].pc # "throw" => job'[t].state \in {"active", "completed"}
        BY <1>12, <3>1, DropFacts
      <4>3. proc'[w] = Idle /\ \A q \in Procs \ {w} : proc'[q] = proc[q]
        BY <1>12, DropFacts
      <4>4. QED
        BY <4>1, <4>2, <4>3, IdleFacts DEF Dead
    <3>2. CASE proc[w].job # t
      BY <1>12, <3>2, DropFacts, IdleFacts DEF Dead
    <3>3. QED
      BY <3>1, <3>2
  <2>4. \A q \in Procs : proc'[q].task = t => proc'[q] = proc[q]
    BY <1>12, DropFacts, IdleFacts
  <2>5. QED
    BY <1>12, <2>1, <2>2, <2>3, <2>4, WrittenFrame, DropFacts DEF WrittenAt
<1>13. CASE UNCHANGED vars
  BY <1>1, <1>2, <1>13 DEF vars, WrittenAt, Done, Dead, Claims
<1>14. QED
  BY <1>3, <1>4, <1>5, <1>7, <1>8, <1>9, <1>10, <1>11, <1>12, <1>13 DEF Shape

\* The notifications of a broadcast are written at most once per task, for any number of
\* tasks, requests, workers and crashes, if executions do not overlap (no enqueue fails
\* after Redis stored the job, no live worker loses its lock) and BullMQ re-delivers a
\* stalled job once, as it does by default.  (With two re-deliveries a task can be written
\* twice: an administrator's failed retry marks the written task FAILED.)
THEOREM FanoutOnce ==
    ASSUME NoOverlap, MaxStalls <= 1
    PROVE  Spec => []FanoutAtMostOnce
<1>1. Init => FanoutInv
  <2> SUFFICES ASSUME Init PROVE FanoutInv
    OBVIOUS
  <2>1. Closing
    BY DEF Init, Closing, Over
  <2>2. Written
    <3>1. \A t \in Tasks : effects[t] = 0
      BY DEF Init
    <3>2. \A p \in Procs : proc[p].pc = "idle"
      BY IdleFacts DEF Init
    <3>3. QED
      BY <3>1, <3>2 DEF Written
  <2>3. QED
    BY <2>1, <2>2, BaseInit DEF FanoutInv
<1>2. FanoutInv /\ [Next]_vars => FanoutInv'
  <2> SUFFICES ASSUME FanoutInv, [Next]_vars PROVE FanoutInv'
    OBVIOUS
  <2>1. TypeInv'
    BY TypeNext DEF FanoutInv, Base
  <2>2. Shape
    BY <2>1, Shapes DEF FanoutInv
  <2>3. QED
    BY <2>1, <2>2, BaseNext, ClosingNext, WrittenNext DEF FanoutInv
<1>3. FanoutInv => FanoutAtMostOnce
  BY DEF FanoutInv, Written, FanoutAtMostOnce
<1>4. QED
  BY <1>1, <1>2, <1>3, PTL DEF Spec

------------------------------------------------------------------------------
(* One replacement per task, as long as no worker dies either.             *)

\* Nobody starts to work on a task but on a new one or from a waiting job.
LEMMA WorksFrom ==
    ASSUME Base, NoOverlap, Shape, NEW t \in Tasks, NEW q \in Procs, Works(q, t)'
    PROVE  Works(q, t) \/ job[t].state = "waiting" \/ task[t].status = "NONE"
<1>1. ASSUME NEW p \in Procs, NEW x \in Tasks, LocalKeeps(p, x) PROVE Works(q, t)
  BY <1>1, IdleFacts DEF LocalKeeps, LocalStep, Works
<1>2. ASSUME NEW p \in Procs, NEW x \in Tasks, FreshStep(p, x)
      PROVE  Works(q, t) \/ task[t].status = "NONE"
  BY <1>2 DEF FreshStep, Works
<1>3. ASSUME NEW p \in Procs, NEW o \in EnqueueOutcomes, DispatchTask(p, o) PROVE Works(q, t)
  <2>1. /\ proc'[p].task = proc[p].task \/ proc'[p] = Idle
        /\ \A r \in Procs \ {p} : proc'[r] = proc[r]
    BY <1>3, DispatchFacts
  <2>2. proc[p].pc = "dispatch" /\ "dispatch" \in Busy
    BY <1>3 DEF DispatchTask, Busy, AtTask
  <2>3. QED
    BY <2>1, <2>2, IdleFacts DEF Works
<1>4. ASSUME AdminStep PROVE Works(q, t)
  BY <1>4, IdleFacts DEF AdminStep, Released, Works
<1>5. ASSUME NEW x \in Tasks, Stalled(x) PROVE Works(q, t)
  BY <1>5, StalledFacts DEF Works
<1>6. ASSUME NEW w \in Workers, NEW x \in Tasks, TakeJob(w, x)
      PROVE  Works(q, t) \/ job[t].state = "waiting"
  BY <1>6, TakeFacts DEF Works
<1>7. ASSUME NEW w \in Workers, Acknowledge(w) \/ CrashWorker(w) PROVE Works(q, t)
  BY <1>7, DropFacts, IdleFacts DEF Works
<1>8. CASE UNCHANGED vars
  BY <1>8 DEF vars, Works
<1>9. QED
  BY <1>1, <1>2, <1>3, <1>4, <1>5, <1>6, <1>7, <1>8, ClaimFacts, ReleaseFacts, PruneFacts DEF Shape

LEMMA CalmNext ==
    ASSUME Base, NoOverlap, "workerCrash" \notin Faults, Shape, Calm
    PROVE  Calm'
<1> SUFFICES ASSUME NEW t \in Tasks
             PROVE  job'[t].stalls = 0 /\ (job'[t].state = "active" => job'[t].owner # NoProc)
  BY DEF Calm
<1>1. job[t].stalls = 0 /\ (job[t].state = "active" => job[t].owner # NoProc)
  BY DEF Calm
<1>2. CASE job'[t] = job[t]
  BY <1>1, <1>2
<1>3. ASSUME NEW p \in Procs, NEW o \in EnqueueOutcomes, DispatchTask(p, o)
      PROVE  job'[t].stalls = 0 /\ (job'[t].state = "active" => job'[t].owner # NoProc)
  <2>1. job'[t] = job[t] \/ (job'[t].state = "waiting" /\ job'[t].stalls = job[t].stalls)
    BY <1>3, DispatchFacts
  <2>2. QED
    BY <1>1, <2>1
<1>4. ASSUME NEW x \in Tasks, Stalled(x) PROVE job'[t] = job[t]
  BY <1>4, StalledFacts DEF Calm
<1>5. ASSUME NEW w \in Workers, NEW x \in Tasks, TakeJob(w, x)
      PROVE  job'[t].stalls = 0 /\ (job'[t].state = "active" => job'[t].owner # NoProc)
  BY <1>1, <1>5, TakeFacts, IdleFacts
<1>6. ASSUME NEW w \in Workers, Acknowledge(w) \/ CrashWorker(w)
      PROVE  job'[t].stalls = 0 /\ (job'[t].state = "active" => job'[t].owner # NoProc)
  <2>1. ~CrashWorker(w)
    BY DEF CrashWorker, Fault
  <2>2. CASE t = proc[w].job
    BY <1>1, <1>6, <2>1, <2>2, DropFacts
  <2>3. CASE t # proc[w].job
    BY <1>1, <1>6, <2>3, DropFacts
  <2>4. QED
    BY <2>2, <2>3
<1>7. QED
  BY <1>2, <1>3, <1>4, <1>5, <1>6, ClaimFacts, ReleaseFacts, PruneFacts
     DEF Shape, LocalKeeps, LocalStep, FreshStep, AdminStep, vars

\* A replacement is only made of a claimed task.
LEMMA OriginFrom ==
    ASSUME Base, NoOverlap, Shape, NEW r \in Tasks, NEW t \in Tasks, origin'[r] = t, origin[r] # t
    PROVE  \E p \in Procs : Opens(p, t) /\ FreshStep(p, r)
<1>1. origin' # origin
  OBVIOUS
<1>2. \E p \in Procs, x \in Tasks : FreshStep(p, x)
  BY <1>1, ClaimFacts, ReleaseFacts, PruneFacts, DispatchFacts, StalledFacts, TakeFacts, DropFacts
     DEF Shape, LocalKeeps, LocalStep, AdminStep, vars
<1>3. QED
  BY <1>2 DEF FreshStep, Opens

LEMMA QuietNext ==
    ASSUME Base, NoOverlap, Shape, Calm, Quiet
    PROVE  Quiet'
<1> SUFFICES ASSUME NEW t \in Tasks, Taken(t)' PROVE Over(t)' /\ \A p \in Procs : ~Works(p, t)'
  BY DEF Quiet
<1>1. CASE Taken(t)
  <2>1. Over(t) /\ \A p \in Procs : ~Works(p, t)
    BY <1>1 DEF Quiet
  <2>2. \A p \in Procs : ~(proc[p].pc = "dispatch" /\ proc[p].task = t)
    BY <2>1 DEF Works, Busy, AtTask
  <2>3. Over(t)'
    BY <2>1, <2>2, OverKept
  <2>4. task[t].status # "NONE"
    BY <1>1 DEF Taken, Base, Known, Claims
  <2>5. job[t].state # "waiting"
    <3>1. job[t].stalls = 0 /\ ~(job[t].stalls >= 1)
      BY DEF Calm
    <3>2. \A p \in Procs : proc[p].job = t => job[t].state = "active"
      BY IdleFacts DEF Base, Locks
    <3>3. QED
      BY <2>1, <3>1, <3>2 DEF Over
  <2>6. QED
    BY <2>1, <2>3, <2>4, <2>5, WorksFrom
<1>2. CASE ~Taken(t)
  <2>1. ~Failing(t)
    BY <1>2 DEF Taken, Failing
  <2>2. Failing(t)'
    <3>1. \A r \in Tasks : origin'[r] # t
      BY <1>2, OriginFrom DEF Taken, Opens, Claims
    <3>2. QED
      BY <3>1 DEF Taken, Failing
  <2>3. /\ Over(t)'
        /\ \E p \in Procs : Works(p, t) /\ ~Works(p, t)' /\ \A q \in Procs \ {p} : proc'[q] = proc[q]
    BY <2>1, <2>2, FailingFrom
  <2>4. PICK p \in Procs : Works(p, t) /\ ~Works(p, t)' /\ \A q \in Procs \ {p} : proc'[q] = proc[q]
    BY <2>3
  <2>5. \A q \in Procs \ {p} : ~Works(q, t)
    BY <2>4, OneWorks
  <2>6. QED
    BY <2>3, <2>4, <2>5 DEF Works
<1>3. QED
  BY <1>1, <1>2

\* What Single says of task t.
SingleAt(t) ==
    /\ (task[t].status = "FAILED" \/ \E p \in Procs : Opens(p, t)) => Kept(t) = {}
    /\ \A p \in Procs : Claims(p, t) =>
         /\ task[t].status # "FAILED" /\ \A q \in Procs : Claims(q, t) => q = p
         /\ Kept(t) \subseteq {proc[p].replacement}

\* A step that claims nothing, fails nothing and creates no replacement of t.
LEMMA SingleFrame ==
    ASSUME NEW t \in Tasks, SingleAt(t), origin' = origin, orphans \subseteq orphans',
           \A q \in Procs : Claims(q, t)' =>
              Claims(q, t) /\ (Opens(q, t)' => Opens(q, t)) /\ proc'[q].replacement = proc[q].replacement,
           task'[t].status = "FAILED" => task[t].status = "FAILED"
    PROVE  SingleAt(t)'
<1>1. Kept(t)' \subseteq Kept(t)
  BY DEF Kept
<1>2. \A q \in Procs : Opens(q, t)' => Opens(q, t)
  BY DEF Opens, Claims
<1>3. ASSUME task'[t].status = "FAILED" \/ \E p \in Procs : Opens(p, t)' PROVE Kept(t)' = {}
  <2>1. task[t].status = "FAILED" \/ \E p \in Procs : Opens(p, t)
    BY <1>2, <1>3
  <2>2. QED
    BY <1>1, <2>1 DEF SingleAt
<1>4. ASSUME NEW p \in Procs, Claims(p, t)'
      PROVE  /\ task'[t].status # "FAILED" /\ \A q \in Procs : Claims(q, t)' => q = p
             /\ Kept(t)' \subseteq {proc'[p].replacement}
  <2>1. Claims(p, t) /\ proc'[p].replacement = proc[p].replacement
    BY <1>4
  <2>2. /\ task[t].status # "FAILED" /\ \A q \in Procs : Claims(q, t) => q = p
        /\ Kept(t) \subseteq {proc[p].replacement}
    BY <2>1 DEF SingleAt
  <2>3. QED
    BY <1>1, <2>1, <2>2
<1>5. QED
  BY <1>3, <1>4 DEF SingleAt

LEMMA SingleNext ==
    ASSUME Base, NoOverlap, Shape, Quiet, Single
    PROVE  Single'
<1> SUFFICES ASSUME NEW t \in Tasks PROVE SingleAt(t)'
  BY DEF Single, SingleAt
<1>1. SingleAt(t)
  BY DEF Single, SingleAt
<1>2. ASSUME NEW p \in Procs, NEW x \in Tasks, LocalKeeps(p, x) PROVE SingleAt(t)'
  <2>1. /\ origin' = origin /\ orphans' = orphans
        /\ \A q \in Procs : Claims(q, t)' =>
              Claims(q, t) /\ (Opens(q, t)' => Opens(q, t)) /\ proc'[q].replacement = proc[q].replacement
    BY <1>2, IdleFacts DEF LocalKeeps, LocalStep, Claims, Opens
  <2>2. CASE task'[t].status = "FAILED" => task[t].status = "FAILED"
    BY <1>1, <2>1, <2>2, SingleFrame
  <2>3. CASE task'[t].status = "FAILED" /\ task[t].status # "FAILED"
    <3>1. x = t /\ proc[p].pc # "push"
      BY <1>2, <2>3 DEF LocalKeeps, LocalStep
    <3>2. Works(p, t)
      BY <1>2, <3>1 DEF LocalKeeps, LocalStep, Works, Busy
    <3>3. ~Taken(t)
      BY <3>2 DEF Quiet
    <3>4. Kept(t)' = {} /\ \A q \in Procs : ~Claims(q, t)'
      BY <2>1, <3>3 DEF Taken, Kept
    <3>5. QED
      BY <3>4 DEF SingleAt
  <2>4. QED
    BY <2>2, <2>3
<1>3. ASSUME NEW p \in Procs, NEW x \in Tasks, FreshStep(p, x) PROVE SingleAt(t)'
  <2>1. /\ \A q \in Procs : (Claims(q, t)' <=> Claims(q, t)) /\ (Opens(q, t)' => q # p /\ Opens(q, t))
        /\ \A q \in Procs \ {p} : proc'[q].replacement = proc[q].replacement
        /\ task'[t].status = "FAILED" => task[t].status = "FAILED"
        /\ orphans' = orphans
    BY <1>3 DEF FreshStep, Claims, Opens
  <2>2. CASE Opens(p, t)
    <3>1. Kept(t) = {} /\ task[t].status # "FAILED" /\ \A q \in Procs : Claims(q, t) => q = p
      BY <1>1, <2>2 DEF SingleAt, Opens, Claims
    <3>2. proc'[p].replacement = x /\ \A r \in Tasks \ {x} : origin'[r] = origin[r]
      BY <1>3, <2>2 DEF FreshStep, Opens
    <3>3. Kept(t)' \subseteq {x}
      BY <2>1, <3>1, <3>2 DEF Kept
    <3>4. \A q \in Procs : ~Opens(q, t)'
      BY <2>1, <3>1 DEF Opens, Claims
    <3>5. task'[t].status # "FAILED" /\ \A q \in Procs : Claims(q, t)' => q = p
      BY <2>1, <3>1
    <3>6. QED
      BY <3>2, <3>3, <3>4, <3>5 DEF SingleAt
  <2>3. CASE ~Opens(p, t)
    <3>1. \A r \in Tasks : origin'[r] = t => origin[r] = t
      <4> SUFFICES ASSUME NEW r \in Tasks, origin'[r] = t, origin[r] # t PROVE FALSE
        OBVIOUS
      <4>1. r = x /\ proc[p].pc = "create" /\ proc[p].source = t
        BY <1>3 DEF FreshStep
      <4>2. QED
        BY <2>3, <4>1 DEF Opens
    <3>2. Kept(t)' \subseteq Kept(t)
      BY <2>1, <3>1 DEF Kept
    <3>3. Claims(p, t) => proc'[p].replacement = proc[p].replacement
      BY <1>3, <2>3 DEF FreshStep, Opens, Claims
    <3>4. ASSUME task'[t].status = "FAILED" \/ \E q \in Procs : Opens(q, t)' PROVE Kept(t)' = {}
      <4>1. task[t].status = "FAILED" \/ \E q \in Procs : Opens(q, t)
        BY <2>1, <3>4
      <4>2. QED
        BY <1>1, <3>2, <4>1 DEF SingleAt
    <3>5. ASSUME NEW q \in Procs, Claims(q, t)'
          PROVE  /\ task'[t].status # "FAILED" /\ \A k \in Procs : Claims(k, t)' => k = q
                 /\ Kept(t)' \subseteq {proc'[q].replacement}
      <4>1. Claims(q, t) /\ proc'[q].replacement = proc[q].replacement
        BY <2>1, <3>3, <3>5
      <4>2. /\ task[t].status # "FAILED" /\ \A k \in Procs : Claims(k, t) => k = q
            /\ Kept(t) \subseteq {proc[q].replacement}
        BY <1>1, <4>1 DEF SingleAt
      <4>3. QED
        BY <2>1, <3>2, <4>1, <4>2
    <3>6. QED
      BY <3>4, <3>5 DEF SingleAt
  <2>4. QED
    BY <2>2, <2>3
<1>4. ASSUME NEW p \in Procs, NEW o \in EnqueueOutcomes, DispatchTask(p, o) PROVE SingleAt(t)'
  <2>1. /\ proc'[p].pc # "create" /\ task' = task /\ origin' = origin /\ orphans' = orphans
        /\ proc'[p].source = proc[p].source
        /\ proc'[p].replacement = proc[p].replacement \/ proc'[p] = Idle
        /\ \A q \in Procs \ {p} : proc'[q] = proc[q]
    BY <1>4, DispatchFacts
  <2>2. \A q \in Procs : Claims(q, t)' =>
          Claims(q, t) /\ (Opens(q, t)' => Opens(q, t)) /\ proc'[q].replacement = proc[q].replacement
    BY <2>1, IdleFacts DEF Claims, Opens
  <2>3. QED
    BY <1>1, <2>1, <2>2, SingleFrame
<1>5. ASSUME NEW c \in Callers, NEW x \in Tasks, ClaimForRetry(c, x) PROVE SingleAt(t)'
  <2>1. /\ origin' = origin /\ orphans' = orphans /\ \A q \in Procs \ {c} : proc'[q] = proc[q]
        /\ task[x].status = "FAILED" /\ task'[x].status = "PROCESSING"
        /\ \A y \in Tasks \ {x} : task'[y] = task[y]
        /\ proc'[c].source = x
    BY <1>5, ClaimFacts DEF AdminStep
  <2>2. CASE x = t
    <3>1. \A q \in Procs \ {c} : ~Claims(q, t)'
      BY <1>1, <2>1, <2>2 DEF Claims, SingleAt
    <3>2. Kept(t)' = {}
      BY <1>1, <2>1, <2>2 DEF SingleAt, Kept
    <3>3. QED
      BY <2>1, <2>2, <3>1, <3>2 DEF SingleAt
  <2>3. CASE x # t
    <3>1. \A q \in Procs : Claims(q, t)' =>
            Claims(q, t) /\ (Opens(q, t)' => Opens(q, t)) /\ proc'[q].replacement = proc[q].replacement
      BY <2>1, <2>3 DEF Claims, Opens
    <3>2. QED
      BY <1>1, <2>1, <2>3, <3>1, SingleFrame
  <2>4. QED
    BY <2>2, <2>3
<1>6. ASSUME NEW c \in Callers, RetryByKindFails(c) \/ MarkRetried(c) \/ CrashCaller(c)
      PROVE  SingleAt(t)'
  <2>1. /\ c \in Procs /\ origin' = origin /\ orphans \subseteq orphans'
        /\ \A q \in Procs : Claims(q, t)' => q # c /\ Claims(q, t) /\ proc'[q] = proc[q]
    BY <1>6, ReleaseFacts, IdleFacts DEF AdminStep, Claims, Procs
  <2>2. \A q \in Procs : Claims(q, t)' =>
          Claims(q, t) /\ (Opens(q, t)' => Opens(q, t)) /\ proc'[q].replacement = proc[q].replacement
    BY <2>1 DEF Opens
  <2>3. CASE task'[t].status = "FAILED" => task[t].status = "FAILED"
    BY <1>1, <2>1, <2>2, <2>3, SingleFrame
  <2>4. CASE task'[t].status = "FAILED" /\ task[t].status # "FAILED"
    <3>1. Claims(c, t) /\ {proc[c].replacement} \ {NoTask} \subseteq orphans'
      BY <1>6, <2>4, ReleaseFacts
    <3>2. Kept(t) \subseteq {proc[c].replacement} /\ \A q \in Procs : Claims(q, t) => q = c
      BY <1>1, <2>1, <3>1 DEF SingleAt
    <3>3. Kept(t)' = {}
      BY <2>1, <3>1, <3>2, IdleFacts DEF Kept
    <3>4. \A q \in Procs : ~Claims(q, t)'
      BY <2>1, <3>2
    <3>5. QED
      BY <3>3, <3>4 DEF SingleAt
  <2>5. QED
    BY <2>3, <2>4
<1>7. ASSUME NEW x \in Tasks, Prune(x) \/ Stalled(x) PROVE SingleAt(t)'
  <2>1. /\ proc' = proc /\ origin' = origin /\ orphans' = orphans
        /\ task'[t].status = "FAILED" => task[t].status = "FAILED"
    BY <1>7, PruneFacts, StalledFacts DEF AdminStep
  <2>2. QED
    BY <1>1, <2>1, SingleFrame DEF Claims, Opens
<1>8. ASSUME NEW w \in Workers, (\E x \in Tasks : TakeJob(w, x)) \/ Acknowledge(w) \/ CrashWorker(w)
      PROVE  SingleAt(t)'
  <2>1. /\ proc'[w].source = NoTask /\ task' = task /\ origin' = origin /\ orphans' = orphans
        /\ \A q \in Procs \ {w} : proc'[q] = proc[q]
    BY <1>8, TakeFacts, DropFacts, IdleFacts
  <2>2. \A q \in Procs : Claims(q, t)' =>
          Claims(q, t) /\ (Opens(q, t)' => Opens(q, t)) /\ proc'[q].replacement = proc[q].replacement
    BY <2>1, IdleFacts DEF Claims, Opens
  <2>3. QED
    BY <1>1, <2>1, <2>2, SingleFrame
<1>9. CASE UNCHANGED vars
  BY <1>1, <1>9, SingleFrame DEF vars, Claims, Opens
<1>10. QED
  BY <1>2, <1>3, <1>4, <1>5, <1>6, <1>7, <1>8, <1>9 DEF Shape

LEMMA OneReplacementNext ==
    ASSUME Base, NoOverlap, Shape, Single, OneReplacementPerTask, TypeInv'
    PROVE  OneReplacementPerTask'
<1>0. orphans \subseteq orphans'
  BY ClaimFacts, ReleaseFacts, PruneFacts, DispatchFacts, StalledFacts, TakeFacts, DropFacts
     DEF Shape, LocalKeeps, LocalStep, FreshStep, vars
<1> SUFFICES ASSUME NEW r1 \in Tasks \ orphans', NEW r2 \in Tasks \ orphans', origin'[r1] # NoTask,
                    origin'[r1] = origin'[r2], r1 # r2
             PROVE  FALSE
  BY DEF OneReplacementPerTask
<1>1. PICK s \in Tasks : s = origin'[r1] /\ s = origin'[r2]
  BY DEF TypeInv, TypeOK
<1>2. ASSUME NEW a \in Tasks, NEW b \in Tasks \ orphans', a # b, origin'[a] = s, origin'[b] = s,
             origin[a] # s
      PROVE  FALSE
  <2>1. PICK p \in Procs : Opens(p, s) /\ FreshStep(p, a)
    BY <1>2, OriginFrom
  <2>2. origin[b] = s /\ b \notin orphans
    BY <1>0, <1>2, <2>1 DEF FreshStep
  <2>3. b \in Kept(s)
    BY <2>2 DEF Kept
  <2>4. QED
    BY <2>1, <2>3 DEF Single
<1>3. QED
  BY <1>0, <1>1, <1>2, IdleFacts DEF OneReplacementPerTask

\* A failed task is replaced at most once, apart from replacements whose retry threw and
\* gave the task back, for any number of administrators, requests that die or whose
\* statements fail, workers and attempts, if executions do not overlap and no worker dies.
\* (Run delivery_double_retry shows the two replacements when a worker does.)
THEOREM ReplacedOnce ==
    ASSUME NoOverlap, "workerCrash" \notin Faults
    PROVE  Spec => []OneReplacementPerTask
<1>1. Init => ReplaceInv
  <2> SUFFICES ASSUME Init PROVE ReplaceInv
    OBVIOUS
  <2>1. \A t \in Tasks : origin[t] = NoTask /\ task[t].status = "NONE" /\ job[t].state = "none"
                         /\ job[t].stalls = 0
    BY DEF Init
  <2>2. \A p \in Procs : proc[p].pc = "idle"
    BY IdleFacts DEF Init
  <2>3. Calm /\ OneReplacementPerTask
    BY <2>1 DEF Calm, OneReplacementPerTask
  <2>4. Quiet /\ Single
    <3>1. \A p \in Procs : proc[p].source = NoTask
      BY IdleFacts DEF Init
    <3>2. \A t \in Tasks : ~Taken(t) /\ Kept(t) = {} /\ \A p \in Procs : ~Claims(p, t)
      BY <2>1, <3>1, IdleFacts DEF Taken, Kept, Claims
    <3>3. QED
      BY <3>2 DEF Quiet, Single
  <2>5. QED
    BY <2>3, <2>4, BaseInit DEF ReplaceInv
<1>2. ReplaceInv /\ [Next]_vars => ReplaceInv'
  <2> SUFFICES ASSUME ReplaceInv, [Next]_vars PROVE ReplaceInv'
    OBVIOUS
  <2>1. TypeInv'
    BY TypeNext DEF ReplaceInv, Base
  <2>2. Shape
    BY <2>1, Shapes DEF ReplaceInv
  <2>3. QED
    BY <2>1, <2>2, BaseNext, CalmNext, QuietNext, SingleNext, OneReplacementNext DEF ReplaceInv
<1>3. ReplaceInv => OneReplacementPerTask
  BY DEF ReplaceInv
<1>4. QED
  BY <1>1, <1>2, <1>3, PTL DEF Spec

------------------------------------------------------------------------------
(* What recipients get: a task that succeeded is left alone, and attempts  *)
(* are counted.                                                            *)

\* The steps of processTask at its task x, but for enqueues and new tasks.
Opening(p, x) ==
    /\ proc[p].pc = "start" /\ proc'[p].pc = "mark" /\ task[x].status \notin Handled
    /\ proc'[p].attempt = task[x].attemptCount + 1 /\ UNCHANGED <<task, effects>>
Marking(p, x) ==
    /\ proc[p].pc = "mark" /\ proc'[p].pc \in {"run", "txRead"} /\ effects' = effects
    /\ task'[x].attemptCount = proc[p].attempt /\ task'[x].status = "PROCESSING"
Sending(p, x) ==
    /\ proc[p].pc \in {"run", "txCommit"} /\ effects'[x] = effects[x] + 1
    /\ task'[x].attemptCount = task[x].attemptCount
    /\ \/ proc'[p].pc = "sent" /\ task' = task
       \/ proc'[p].pc = "push"
Moving(p) ==
    /\ UNCHANGED <<task, effects>> /\ proc[p].pc \in Marked
    /\ \/ proc'[p].pc \in {"sent", "failure"}
       \/ proc'[p].pc = "txCommit" /\ proc[p].pc = "txRead"
Leaving(p, x) ==
    /\ effects' = effects /\ proc'[p].pc \in {"return", "throw", "replaced", "idle"}
    /\ task'[x].attemptCount = task[x].attemptCount
    /\ task' = task \/ proc[p].pc \in Marked

LEMMA LocalMoves ==
    ASSUME Base, NEW p \in Procs, NEW x \in Tasks, LocalKeeps(p, x), ProcessTask(p)
    PROVE  Opening(p, x) \/ Marking(p, x) \/ Sending(p, x) \/ Moving(p) \/ Leaving(p, x)
<1>0. /\ TypeOK /\ proc[p] \in ProcState /\ task[x] \in TaskRow /\ effects \in [Tasks -> Nat]
      /\ task \in [Tasks -> TaskRow] /\ proc[p].task = x /\ proc'[p].pc # "dispatch" /\ proc'[p].pc # "start"
      /\ proc[p].pc # "dispatch"
  BY DEF Base, TypeInv, TypeOK, LocalKeeps, LocalStep
<1>1. \A pc \in PCs : Goto(p, pc) => proc'[p].pc = pc
  BY <1>0, GotoFacts
<1>2. \A threw \in BOOLEAN : Ends(p, threw) => proc'[p].pc \in {"return", "throw", "replaced", "idle"}
  BY <1>0, EndsFacts
<1>3. \A s : SetStatus(x, s) => task'[x].attemptCount = task[x].attemptCount
  BY <1>0, SetStatusRows
<1>4. CASE Start(p)
  <2>1. CASE task[x].status \in Handled
    BY <1>0, <1>2, <1>4, <2>1 DEF Start, Leaving
  <2>2. CASE task[x].status \notin Handled
    BY <1>0, <1>4, <2>2 DEF Start, Opening, TypeOK, ProcState
  <2>3. QED
    BY <2>1, <2>2
<1>5. CASE MarkProcessing(p)
  <2>1. /\ proc[p].pc = "mark" /\ effects' = effects
        /\ task'[x].attemptCount = proc[p].attempt /\ task'[x].status = "PROCESSING"
    BY <1>0, <1>5 DEF MarkProcessing, TaskRow
  <2>2. proc'[p].pc \in {"run", "txRead"}
    BY <1>1, <1>5 DEF MarkProcessing, PCs
  <2>3. QED
    BY <2>1, <2>2 DEF Marking
<1>6. CASE Send(p)
  BY <1>0, <1>1, <1>6 DEF Send, Sending, PCs
<1>7. CASE TxCommit(p)
  BY <1>0, <1>1, <1>3, <1>7 DEF TxCommit, Sending, PCs
<1>8. CASE NothingToSend(p) \/ SendFails(p) \/ MarkSucceededFails(p) \/ TxFails(p)
  BY <1>1, <1>8 DEF NothingToSend, SendFails, MarkSucceededFails, TxFails, Moving, Marked, PCs
<1>9. CASE TxRead(p)
  BY <1>1, <1>2, <1>9 DEF TxRead, Moving, Leaving, Marked, PCs
<1>10. CASE MarkSucceeded(p)
  BY <1>0, <1>2, <1>3, <1>10 DEF MarkSucceeded, Leaving, Marked
<1>11. CASE MarkFailure(p)
  BY <1>0, <1>2, <1>3, <1>11 DEF MarkFailure, Leaving, Marked
<1>12. CASE SkipPush(p) \/ StatementFails(p)
  BY <1>2, <1>12 DEF SkipPush, StatementFails, Leaving
<1>13. ~\E t \in Tasks : QueuePush(p, t)
  BY <1>0, FreshFacts DEF FreshStep
<1>14. QED
  BY <1>0, <1>4, <1>5, <1>6, <1>7, <1>8, <1>9, <1>10, <1>11, <1>12, <1>13 DEF ProcessTask, DispatchTask

\* Nobody else works on the task of a step of processTask, unless the step is only the
\* end of a fan-out.
LEMMA LocalAlone ==
    ASSUME Base, NEW p \in Procs, NEW x \in Tasks, LocalStep(p, x), NEW q \in Procs \ {p},
           proc[q].task = x, proc[q].pc \in Busy
    PROVE  UNCHANGED <<task, effects>>
<1>1. CASE proc[p].pc = "push"
  BY <1>1 DEF LocalStep
<1>2. CASE proc[p].pc # "push"
  <2>1. Works(p, x) /\ Works(q, x)
    BY <1>2 DEF LocalStep, Works, Busy
  <2>2. QED
    BY <2>1, OneWorks
<1>3. QED
  BY <1>1, <1>2

\* From the status check to the end of an attempt the task has not succeeded.
Unfinished == \A p \in Procs, t \in Tasks :
    (proc[p].task = t /\ proc[p].pc \in Marked \cup {"mark"}) => task[t].status # "SUCCEEDED"

LEMMA UnfinishedNext ==
    ASSUME Base, NoOverlap, Shape, Unfinished
    PROVE  Unfinished'
<1> SUFFICES ASSUME NEW q \in Procs, NEW t \in Tasks, proc'[q].task = t, proc'[q].pc \in Marked \cup {"mark"},
                    task'[t].status = "SUCCEEDED"
             PROVE  FALSE
  BY DEF Unfinished
<1>1. CASE proc'[q] = proc[q] /\ (task'[t].status = "SUCCEEDED" => task[t].status = "SUCCEEDED")
  BY <1>1 DEF Unfinished
<1>2. ASSUME NEW p \in Procs, NEW x \in Tasks, LocalKeeps(p, x), ProcessTask(p) PROVE FALSE
  <2>0. LocalStep(p, x)
    BY <1>2 DEF LocalKeeps
  <2>1. CASE q # p
    <3>1. proc'[q] = proc[q] /\ proc[q].pc \in Busy
      BY <2>0, <2>1 DEF LocalStep, Marked, Busy, AtTask
    <3>2. task'[t] = task[t]
      BY <2>0, <2>1, <3>1, LocalAlone DEF LocalStep
    <3>3. QED
      BY <1>1, <3>1, <3>2
  <2>2. CASE q = p
    <3>1. x = t
      BY <2>0, <2>2, IdleFacts DEF LocalStep
    <3>2. proc[p].task = t
      BY <2>0, <3>1 DEF LocalStep
    <3>3. proc[p].pc \in Marked \cup {"mark"} => task[t].status # "SUCCEEDED"
      BY <3>2 DEF Unfinished
    <3>4. QED
      BY <1>2, <2>2, <3>1, <3>3, LocalMoves
         DEF Opening, Marking, Sending, Moving, Leaving, Handled, Marked
  <2>3. QED
    BY <2>1, <2>2
<1>3. ASSUME NEW p \in Procs, NEW x \in Tasks, FreshStep(p, x) PROVE FALSE
  BY <1>1, <1>3 DEF FreshStep, Marked
<1>4. ASSUME NEW p \in Procs, NEW o \in EnqueueOutcomes, DispatchTask(p, o) PROVE FALSE
  <2>1. /\ proc'[p].pc \in {"return", "replaced", "idle", "start"} /\ task' = task
        /\ \A r \in Procs \ {p} : proc'[r] = proc[r]
    BY <1>4, DispatchFacts
  <2>2. QED
    BY <1>1, <2>1 DEF Marked
<1>5. ASSUME AdminStep, task'[t].status = "SUCCEEDED" => task[t].status = "SUCCEEDED" PROVE FALSE
  BY <1>1, <1>5, IdleFacts DEF AdminStep, Released
<1>6. ASSUME NEW c \in Callers, NEW x \in Tasks, ClaimForRetry(c, x) PROVE FALSE
  BY <1>5, <1>6, ClaimFacts
<1>7. ASSUME NEW c \in Callers, RetryByKindFails(c) \/ MarkRetried(c) \/ CrashCaller(c) PROVE FALSE
  BY <1>5, <1>7, ReleaseFacts
<1>8. ASSUME NEW x \in Tasks, Prune(x) PROVE FALSE
  BY <1>5, <1>8, PruneFacts
<1>9. ASSUME NEW x \in Tasks, Stalled(x) PROVE FALSE
  BY <1>1, <1>9, StalledFacts
<1>10. ASSUME NEW w \in Workers, NEW x \in Tasks, TakeJob(w, x) PROVE FALSE
  BY <1>1, <1>10, TakeFacts DEF Marked
<1>11. ASSUME NEW w \in Workers, Acknowledge(w) \/ CrashWorker(w) PROVE FALSE
  BY <1>1, <1>11, DropFacts, IdleFacts DEF Marked
<1>12. CASE UNCHANGED vars
  BY <1>1, <1>12 DEF vars
<1>13. QED
  BY <1>2, <1>3, <1>4, <1>6, <1>7, <1>8, <1>9, <1>10, <1>11, <1>12 DEF Shape

\* No step processes a task that succeeded.
LEMMA SuccessKept ==
    ASSUME Base, NoOverlap, Shape, Unfinished, NEW t \in Tasks, task[t].status = "SUCCEEDED"
    PROVE  effects'[t] = effects[t] /\ task'[t].status \notin {"PENDING", "PROCESSING"}
<1>1. CASE effects'[t] = effects[t] /\ task'[t].status = task[t].status
  BY <1>1
<1>2. ASSUME NEW p \in Procs, NEW x \in Tasks, LocalKeeps(p, x), ProcessTask(p)
      PROVE  effects'[t] = effects[t] /\ task'[t].status = task[t].status
  <2>1. CASE x # t
    BY <1>2, <2>1 DEF LocalKeeps, LocalStep
  <2>2. CASE x = t
    <3>1. proc[p].task = t
      BY <1>2, <2>2 DEF LocalKeeps, LocalStep
    <3>2. proc[p].pc \notin Marked \cup {"mark"}
      BY <3>1 DEF Unfinished
    <3>3. QED
      BY <1>2, <2>2, <3>2, LocalMoves DEF Opening, Marking, Sending, Moving, Leaving, Marked
  <2>3. QED
    BY <2>1, <2>2
<1>3. ASSUME NEW p \in Procs, NEW x \in Tasks, FreshStep(p, x)
      PROVE  effects'[t] = effects[t] /\ task'[t].status = task[t].status
  BY <1>3 DEF FreshStep
<1>4. ASSUME NEW p \in Procs, NEW o \in EnqueueOutcomes, DispatchTask(p, o)
      PROVE  effects'[t] = effects[t] /\ task'[t].status = task[t].status
  BY <1>4, DispatchFacts
<1>5. ASSUME NEW c \in Callers, NEW x \in Tasks, ClaimForRetry(c, x)
      PROVE  effects'[t] = effects[t] /\ task'[t].status = task[t].status
  BY <1>5, ClaimFacts DEF AdminStep
<1>6. ASSUME NEW c \in Callers, RetryByKindFails(c) \/ MarkRetried(c) \/ CrashCaller(c)
      PROVE  effects'[t] = effects[t] /\ task'[t].status \in {"SUCCEEDED", "FAILED", "RETRIED"}
  BY <1>6, ReleaseFacts DEF AdminStep
<1>7. ASSUME NEW x \in Tasks, Prune(x)
      PROVE  effects'[t] = effects[t] /\ task'[t].status \in {"SUCCEEDED", "GONE"}
  BY <1>7, PruneFacts DEF AdminStep
<1>8. ASSUME \/ \E x \in Tasks : Stalled(x) \/ \E w \in Workers : TakeJob(w, x)
             \/ \E w \in Workers : Acknowledge(w) \/ CrashWorker(w)
             \/ UNCHANGED vars
      PROVE  effects'[t] = effects[t] /\ task'[t].status = task[t].status
  BY <1>8, StalledFacts, TakeFacts, DropFacts DEF vars
<1>9. QED
  BY <1>1, <1>2, <1>3, <1>4, <1>5, <1>6, <1>7, <1>8 DEF Shape

\* No step processes a task that was reported SUCCEEDED, for any number of tasks, requests,
\* workers and attempts, whoever dies and whatever statement fails, if executions do not
\* overlap (no enqueue fails after Redis stored the job, no live worker loses its lock).
THEOREM SucceededOnce ==
    ASSUME NoOverlap
    PROVE  Spec => SuccessIsLast
<1>1. Init => Base /\ Unfinished
  <2> SUFFICES ASSUME Init PROVE Base /\ Unfinished
    OBVIOUS
  <2>1. \A p \in Procs : proc[p].pc = "idle"
    BY IdleFacts DEF Init
  <2>2. QED
    BY <2>1, BaseInit DEF Unfinished, Marked
<1>2. Base /\ Unfinished /\ [Next]_vars => Base' /\ Unfinished'
  <2> SUFFICES ASSUME Base, Unfinished, [Next]_vars PROVE Base' /\ Unfinished'
    OBVIOUS
  <2>1. TypeInv'
    BY TypeNext DEF Base
  <2>2. Shape
    BY <2>1, Shapes
  <2>3. QED
    BY <2>1, <2>2, BaseNext, UnfinishedNext
<1>3. Base /\ Unfinished /\ [Next]_vars =>
        [\A t \in Tasks : task[t].status = "SUCCEEDED" =>
            effects'[t] = effects[t] /\ task'[t].status \notin {"PENDING", "PROCESSING"}]_vars
  <2> SUFFICES ASSUME Base, Unfinished, [Next]_vars, NEW t \in Tasks, task[t].status = "SUCCEEDED"
               PROVE  effects'[t] = effects[t] /\ task'[t].status \notin {"PENDING", "PROCESSING"}
    OBVIOUS
  <2>1. TypeInv'
    BY TypeNext DEF Base
  <2>2. Shape
    BY <2>1, Shapes
  <2>3. QED
    BY <2>2, SuccessKept
<1>4. QED
  BY <1>1, <1>2, <1>3, PTL DEF Spec, SuccessIsLast

\* The row counts an attempt before anything of it is sent.
EffectsAt(t) ==
    /\ effects[t] <= task[t].attemptCount
    /\ \A p \in Procs : proc[p].task = t =>
         /\ proc[p].pc \in {"run", "txRead", "txCommit"} => effects[t] + 1 <= task[t].attemptCount
         /\ proc[p].pc = "mark" => proc[p].attempt = task[t].attemptCount + 1

\* What BullMQ counted (failed attempts and stalls) bounds what the row counted: the run in
\* progress is the only one the row may be ahead by.
BudgetAt(t) ==
    /\ job[t].state \in {"waiting", "active", "completed"} =>
         job[t].made < MaxAttempts /\ job[t].stalls <= MaxStalls
    /\ job[t].state = "failed" => job[t].made + job[t].stalls <= MaxAttempts + MaxStalls
    /\ task[t].attemptCount <= job[t].made + job[t].stalls + 1
    /\ job[t].state \in {"waiting", "failed"} => task[t].attemptCount <= job[t].made + job[t].stalls
    /\ \A p \in Procs : (proc[p].task = t /\ proc[p].pc \in {"start", "mark"}) =>
         task[t].attemptCount <= job[t].made + job[t].stalls

Attempted == \A t \in Tasks : EffectsAt(t) /\ BudgetAt(t)

\* the points of processTask that EffectsAt and BudgetAt speak of
Counting == {"start", "mark", "run", "txRead", "txCommit"}

\* They hold on when the row, what was sent and the job stay and nobody gets to these points.
LEMMA AttemptsFrame ==
    ASSUME NEW t \in Tasks, EffectsAt(t), BudgetAt(t), effects'[t] = effects[t], job'[t] = job[t],
           task'[t].attemptCount = task[t].attemptCount,
           \A q \in Procs : proc'[q] = proc[q] \/ proc'[q].task # t \/ proc'[q].pc \notin Counting
    PROVE  EffectsAt(t)' /\ BudgetAt(t)'
BY DEF EffectsAt, BudgetAt, Counting

LEMMA AttemptsLocal ==
    ASSUME Base, Attempted, NEW p \in Procs, NEW t \in Tasks, LocalKeeps(p, t), ProcessTask(p)
    PROVE  EffectsAt(t)' /\ BudgetAt(t)'
<1>0. /\ LocalStep(p, t) /\ EffectsAt(t) /\ BudgetAt(t) /\ job' = job
      /\ job[t].made \in Nat /\ job[t].stalls \in Nat /\ task[t].attemptCount \in Nat /\ effects[t] \in Nat
      /\ MaxAttempts \in Nat /\ MaxStalls \in Nat
  BY ConstantsAssumption DEF LocalKeeps, LocalStep, Attempted, Base, TypeInv, TypeOK, TaskRow, JobRow
<1>1. CASE UNCHANGED <<task, effects>> /\ (proc'[p].task # t \/ proc'[p].pc \notin Counting)
  BY <1>0, <1>1, AttemptsFrame DEF LocalStep
<1>2. ASSUME task' # task \/ effects' # effects
      PROVE  /\ \A q \in Procs \ {p} : proc'[q].task = t => proc'[q].pc \notin Counting
             /\ proc[p].task = t /\ (proc[p].pc \in Busy => job[t].state \in {"active", "none"})
  <2>1. ASSUME NEW q \in Procs \ {p}, proc'[q].task = t PROVE proc'[q].pc \notin Counting
    <3>1. proc'[q] = proc[q]
      BY <1>0 DEF LocalStep
    <3>2. QED
      BY <1>0, <1>2, <2>1, <3>1, LocalAlone DEF Busy, AtTask, Counting
  <2>2. proc[p].task = t /\ (proc[p].pc \in Busy => Works(p, t))
    BY <1>0 DEF LocalStep, Works
  <2>3. QED
    BY <2>1, <2>2, WorksJob
<1>3. CASE Opening(p, t)
  <2>1. \A q \in Procs : proc'[q] = proc[q] \/ (q = p /\ proc'[q].pc = "mark" /\ proc'[q].attempt = task[t].attemptCount + 1)
    BY <1>0, <1>3 DEF LocalStep, Opening
  <2>2. task[t].attemptCount <= job[t].made + job[t].stalls
    BY <1>0, <1>3 DEF BudgetAt, Opening, LocalStep
  <2>3. task' = task /\ effects' = effects
    BY <1>3 DEF Opening
  <2>4. EffectsAt(t)'
    BY <1>0, <2>1, <2>3 DEF EffectsAt
  <2>5. BudgetAt(t)'
    BY <1>0, <2>1, <2>2, <2>3 DEF BudgetAt
  <2>6. QED
    BY <2>4, <2>5
<1>4. CASE Marking(p, t)
  <2>1. CASE task' = task
    <3>1. proc[p].attempt = task[t].attemptCount + 1 /\ task[t].attemptCount = proc[p].attempt
      BY <1>0, <1>4, <2>1 DEF EffectsAt, Marking, LocalStep
    <3>2. QED
      BY <1>0, <3>1
  <2>2. CASE task' # task
    <3>1. /\ \A q \in Procs \ {p} : proc'[q].task = t => proc'[q].pc \notin Counting
          /\ proc[p].task = t /\ job[t].state \in {"active", "none"}
      BY <1>2, <1>4, <2>2 DEF Marking, Busy, AtTask
    <3>2. /\ proc[p].attempt = task[t].attemptCount + 1 /\ task'[t].attemptCount = task[t].attemptCount + 1
          /\ task[t].attemptCount <= job[t].made + job[t].stalls /\ effects'[t] = effects[t]
          /\ proc'[p].pc \in {"run", "txRead"}
      BY <1>0, <1>4, <3>1 DEF EffectsAt, BudgetAt, Marking
    <3>3. EffectsAt(t)'
      BY <1>0, <3>1, <3>2 DEF EffectsAt, Counting
    <3>4. BudgetAt(t)'
      BY <1>0, <3>1, <3>2 DEF BudgetAt, Counting
    <3>5. QED
      BY <3>3, <3>4
  <2>3. QED
    BY <2>1, <2>2
<1>5. CASE Sending(p, t)
  <2>1. /\ \A q \in Procs : proc'[q].task = t => proc'[q].pc \notin Counting
        /\ proc[p].task = t
    <3>1. effects' # effects
      BY <1>0, <1>5 DEF Sending
    <3>2. proc'[p].pc \notin Counting
      BY <1>5 DEF Sending, Counting
    <3>3. QED
      BY <1>2, <3>1, <3>2
  <2>2. /\ effects[t] + 1 <= task[t].attemptCount /\ effects'[t] = effects[t] + 1
        /\ task'[t].attemptCount = task[t].attemptCount
    BY <1>0, <1>5, <2>1 DEF EffectsAt, Sending
  <2>3. EffectsAt(t)'
    BY <2>1, <2>2 DEF EffectsAt, Counting
  <2>4. BudgetAt(t)'
    BY <1>0, <2>1, <2>2 DEF BudgetAt, Counting
  <2>5. QED
    BY <2>3, <2>4
<1>6. CASE Moving(p)
  <2>1. CASE proc'[p].pc \in {"sent", "failure"}
    BY <1>1, <1>6, <2>1 DEF Moving, Counting
  <2>2. CASE proc'[p].pc = "txCommit" /\ proc[p].pc = "txRead"
    <3>1. /\ effects[t] + 1 <= task[t].attemptCount /\ task' = task /\ effects' = effects
          /\ \A q \in Procs : proc'[q] = proc[q] \/ (q = p /\ proc'[q].pc = "txCommit")
      BY <1>0, <1>6, <2>2 DEF Moving, LocalStep, EffectsAt
    <3>2. EffectsAt(t)'
      BY <1>0, <3>1 DEF EffectsAt
    <3>3. BudgetAt(t)'
      BY <1>0, <3>1 DEF BudgetAt
    <3>4. QED
      BY <3>2, <3>3
  <2>3. QED
    BY <1>6, <2>1, <2>2 DEF Moving
<1>7. CASE Leaving(p, t)
  <2>1. /\ effects' = effects /\ task'[t].attemptCount = task[t].attemptCount /\ proc'[p].pc \notin Counting
    BY <1>7 DEF Leaving, Counting
  <2>2. QED
    BY <1>0, <2>1, AttemptsFrame DEF LocalStep
<1>8. QED
  BY <1>3, <1>4, <1>5, <1>6, <1>7, LocalMoves

LEMMA AttemptsNext ==
    ASSUME Base, NoOverlap, Shape, Attempted
    PROVE  Attempted'
<1> SUFFICES ASSUME NEW t \in Tasks PROVE EffectsAt(t)' /\ BudgetAt(t)'
  BY DEF Attempted
<1>0. /\ EffectsAt(t) /\ BudgetAt(t) /\ MaxAttempts \in Nat \ {0} /\ MaxStalls \in Nat
      /\ job[t].made \in Nat /\ job[t].stalls \in Nat /\ task[t].attemptCount \in Nat /\ effects[t] \in Nat
  BY ConstantsAssumption DEF Attempted, Base, TypeInv, TypeOK, TaskRow, JobRow
<1>1. CASE \E p \in Procs, x \in Tasks : LocalKeeps(p, x) /\ ProcessTask(p)
  <2>1. PICK p \in Procs, x \in Tasks : LocalKeeps(p, x) /\ ProcessTask(p)
    BY <1>1
  <2>2. CASE x = t
    BY <2>1, <2>2, AttemptsLocal
  <2>3. CASE x # t
    <3>1. /\ job' = job /\ task'[t] = task[t] /\ effects'[t] = effects[t]
          /\ \A q \in Procs : proc'[q] = proc[q] \/ proc'[q].task # t
      BY <2>1, <2>3, IdleFacts DEF LocalKeeps, LocalStep
    <3>2. QED
      BY <1>0, <3>1, AttemptsFrame
  <2>4. QED
    BY <2>2, <2>3
<1>2. CASE \E p \in Procs, x \in Tasks : FreshStep(p, x)
  <2>1. PICK p \in Procs, x \in Tasks : FreshStep(p, x)
    BY <1>2
  <2>2. \A q \in Procs : proc'[q] = proc[q] \/ proc'[q].pc \notin Counting
    BY <2>1 DEF FreshStep, Counting
  <2>3. CASE x = t
    <3>1. /\ task[t].status = "NONE" /\ effects' = effects /\ job' = job /\ task'[t].attemptCount = 0
          /\ \A q \in Procs \ {p} : proc'[q] = proc[q]
          /\ proc'[p].pc = "dispatch"
      BY <2>1, <2>3 DEF FreshStep
    <3>2. effects[t] = 0 /\ job[t].state = "none" /\ \A q \in Procs : proc[q].task # t
      BY <3>1 DEF Base, Known
    <3>3. EffectsAt(t)'
      BY <3>1, <3>2 DEF EffectsAt
    <3>4. BudgetAt(t)'
      BY <1>0, <3>1, <3>2 DEF BudgetAt
    <3>5. QED
      BY <3>3, <3>4
  <2>4. CASE x # t
    BY <1>0, <2>1, <2>2, <2>4, AttemptsFrame DEF FreshStep
  <2>5. QED
    BY <2>3, <2>4
<1>3. ASSUME NEW p \in Procs, NEW o \in EnqueueOutcomes, DispatchTask(p, o)
      PROVE  EffectsAt(t)' /\ BudgetAt(t)'
  <2>1. PICK x \in Tasks :
             /\ proc[p].pc = "dispatch" /\ proc[p].task = x /\ proc[p].job # x
             /\ UNCHANGED <<task, effects>>
             /\ \A q \in Procs \ {p} : proc'[q] = proc[q]
             /\ \/ /\ job'[x].state = "waiting"
                   /\ job'[x].made = job[x].made /\ job'[x].stalls = job[x].stalls
                   /\ \A y \in Tasks \ {x} : job'[y] = job[y]
                   /\ proc'[p].pc \in {"return", "replaced", "idle"}
                \/ job' = job /\ proc'[p].pc = "start" /\ proc'[p].task = x
    BY <1>3, DispatchFacts
  <2>2. CASE x # t
    BY <1>0, <2>1, <2>2, AttemptsFrame DEF Counting
  <2>3. CASE x = t
    <3>1. Works(p, t)
      BY <2>1, <2>3 DEF Works, Busy, AtTask
    <3>2. job[t].made = 0 /\ job[t].stalls = 0
      BY <2>1, <2>3, <3>1, WorksJob DEF Base, Locks
    <3>3. task[t].attemptCount = 0 /\ effects[t] = 0
      BY <2>1, <2>3 DEF Base, Dispatching
    <3>4. \A q \in Procs : proc'[q] = proc[q] \/ proc'[q].pc \notin {"run", "txRead", "txCommit", "mark"}
      BY <2>1
    <3>5. EffectsAt(t)'
      BY <1>0, <2>1, <3>4 DEF EffectsAt
    <3>6. job'[t].made = 0 /\ job'[t].stalls = 0 /\ job'[t].state \in {"waiting", job[t].state}
          /\ task'[t].attemptCount = 0
      BY <2>1, <2>3, <3>2, <3>3
    <3>7. BudgetAt(t)'
      BY <1>0, <3>2, <3>6 DEF BudgetAt
    <3>8. QED
      BY <3>5, <3>7
  <2>4. QED
    BY <2>2, <2>3
<1>4. CASE AdminStep
  BY <1>0, <1>4, AttemptsFrame DEF AdminStep, Released, Counting
<1>5. ASSUME NEW x \in Tasks, Stalled(x) PROVE EffectsAt(t)' /\ BudgetAt(t)'
  <2>1. CASE x # t
    BY <1>0, <1>5, <2>1, StalledFacts, AttemptsFrame
  <2>2. CASE x = t
    <3>1. /\ UNCHANGED <<task, proc, effects>> /\ job[t].state = "active"
          /\ job'[t].stalls = job[t].stalls + 1 /\ job'[t].made = job[t].made
          /\ job'[t].state = IF job[t].stalls < MaxStalls THEN "waiting" ELSE "failed"
      BY <1>5, <2>2, StalledFacts
    <3>2. EffectsAt(t)'
      BY <1>0, <3>1 DEF EffectsAt
    <3>3. BudgetAt(t)'
      BY <1>0, <3>1 DEF BudgetAt
    <3>4. QED
      BY <3>2, <3>3
  <2>3. QED
    BY <2>1, <2>2
<1>6. ASSUME NEW w \in Workers, NEW x \in Tasks, TakeJob(w, x) PROVE EffectsAt(t)' /\ BudgetAt(t)'
  <2>0. /\ w \in Procs /\ UNCHANGED <<task, effects>> /\ job[x].state = "waiting"
        /\ job'[x].state = "active" /\ job'[x].made = job[x].made /\ job'[x].stalls = job[x].stalls
        /\ \A y \in Tasks \ {x} : job'[y] = job[y]
        /\ \A q \in Procs \ {w} : proc'[q] = proc[q]
        /\ proc'[w].pc = "start" /\ proc'[w].task = x
    BY <1>6, TakeFacts
  <2>1. CASE x # t
    BY <1>0, <2>0, <2>1, AttemptsFrame
  <2>2. CASE x = t
    <3>1. task[t].attemptCount <= job[t].made + job[t].stalls
      BY <1>0, <2>0, <2>2 DEF BudgetAt
    <3>2. EffectsAt(t)'
      BY <1>0, <2>0 DEF EffectsAt
    <3>3. BudgetAt(t)'
      BY <1>0, <2>0, <2>2, <3>1 DEF BudgetAt
    <3>4. QED
      BY <3>2, <3>3
  <2>3. QED
    BY <2>1, <2>2
<1>7. ASSUME NEW w \in Workers, Acknowledge(w) \/ CrashWorker(w) PROVE EffectsAt(t)' /\ BudgetAt(t)'
  <2>0. /\ w \in Procs /\ UNCHANGED <<task, effects>> /\ proc'[w] = Idle
        /\ \A q \in Procs \ {w} : proc'[q] = proc[q]
        /\ \A x \in Tasks \ {proc[w].job} : job'[x] = job[x]
    BY <1>7, DropFacts
  <2>1. \A q \in Procs : proc'[q] = proc[q] \/ proc'[q].task # t
    BY <2>0, IdleFacts
  <2>2. CASE t # proc[w].job
    BY <1>0, <2>0, <2>1, <2>2, AttemptsFrame
  <2>3. CASE t = proc[w].job
    <3>1. /\ job[t].state = "active" /\ job'[t].stalls = job[t].stalls
          /\ \/ job'[t].state \in {"active", "completed"} /\ job'[t].made = job[t].made
             \/ /\ job'[t].made = job[t].made + 1
                /\ job'[t].state = IF job[t].made + 1 < MaxAttempts THEN "waiting" ELSE "failed"
      BY <1>7, <2>3, DropFacts
    <3>2. EffectsAt(t)'
      BY <1>0, <2>0, <2>1 DEF EffectsAt
    <3>3. BudgetAt(t)'
      BY <1>0, <2>0, <2>1, <3>1 DEF BudgetAt
    <3>4. QED
      BY <3>2, <3>3
  <2>4. QED
    BY <2>2, <2>3
<1>8. CASE UNCHANGED vars
  BY <1>0, <1>8, AttemptsFrame DEF vars
<1>9. QED
  BY <1>1, <1>2, <1>3, <1>4, <1>5, <1>6, <1>7, <1>8, ClaimFacts, ReleaseFacts, PruneFacts DEF Shape

\* A message goes out no more often than its row says, and the row counts no more than the
\* attempts and stalls BullMQ allows, for any number of tasks, requests, workers, attempts
\* and stalls, whoever dies and whatever statement fails, if executions do not overlap.
THEOREM DeliveriesCounted ==
    ASSUME NoOverlap
    PROVE  Spec => []AttemptsCounted
<1>1. Init => Base /\ Attempted
  <2> SUFFICES ASSUME Init PROVE Base /\ Attempted
    OBVIOUS
  <2>1. \A p \in Procs : proc[p].pc = "idle"
    BY IdleFacts DEF Init
  <2>2. \A t \in Tasks : /\ effects[t] = 0 /\ task[t].attemptCount = 0
                         /\ job[t].state = "none" /\ job[t].made = 0 /\ job[t].stalls = 0
    BY DEF Init
  <2>3. QED
    BY <2>1, <2>2, BaseInit DEF Attempted, EffectsAt, BudgetAt
<1>2. Base /\ Attempted /\ [Next]_vars => Base' /\ Attempted'
  <2> SUFFICES ASSUME Base, Attempted, [Next]_vars PROVE Base' /\ Attempted'
    OBVIOUS
  <2>1. TypeInv'
    BY TypeNext DEF Base
  <2>2. Shape
    BY <2>1, Shapes
  <2>3. QED
    BY <2>1, <2>2, BaseNext, AttemptsNext
<1>3. Base /\ Attempted => AttemptsCounted
  <2> SUFFICES ASSUME Base, Attempted, NEW t \in Tasks
               PROVE  effects[t] <= task[t].attemptCount /\ task[t].attemptCount <= MaxAttempts + MaxStalls
    BY DEF AttemptsCounted
  <2>1. /\ EffectsAt(t) /\ BudgetAt(t) /\ MaxAttempts \in Nat \ {0} /\ MaxStalls \in Nat /\ job[t].state \in JobStates
        /\ job[t].made \in Nat /\ job[t].stalls \in Nat /\ task[t].attemptCount \in Nat /\ effects[t] \in Nat
    BY ConstantsAssumption DEF Attempted, Base, TypeInv, TypeOK, TaskRow, JobRow
  <2>2. job[t].state = "none" => job[t].made = 0 /\ job[t].stalls = 0
    BY DEF Base, Locks
  <2>3. QED
    BY <2>1, <2>2 DEF EffectsAt, BudgetAt, JobStates
<1>4. QED
  BY <1>1, <1>2, <1>3, PTL DEF Spec
=============================================================================
