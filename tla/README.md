# Towerdesk backend: a TLA+ verification project

Towerdesk is a multi-tenant property-management backend (NestJS, Prisma on
PostgreSQL, BullMQ on Redis). This directory holds TLA+ models of the parts of
it whose correctness depends on the order in which things happen, TLC
configurations that check them on small instances, and TLAPS proofs of the
properties that hold for every instance. Paths below are relative to the
repository root.

## 1. The system

All durable state is in PostgreSQL; Redis holds BullMQ jobs. Several API
processes serve requests, worker processes (`APP_RUNTIME=worker`) run jobs.
Nothing sets an isolation level, so every transaction runs at READ COMMITTED:
a check made by a `findFirst` may be out of date when the same transaction
writes. What serialises requests is a handful of partial unique indexes, a
`SELECT ... FOR UPDATE` on `Unit` in two handlers, the row lock an `UPDATE`
takes, and conditional `updateMany` statements.

| component | state | operations | hard because |
|---|---|---|---|
| delivery queue (`infra/queue`, with the auth, broadcast and push delivery services and the platform administration) | `DeliveryTask` rows, BullMQ jobs | create, dispatch, process, mark, claim, retry, prune | a row and a job are two stores; workers die, jobs are delivered again, enqueues fail after succeeding, administrators retry while workers run |
| push devices and receipts (`modules/notifications`) | `PushDevice`, `PushDeliveryReceipt` | register, send, look up, settle | answers come late or never, and the order of the look-ups decides who waits |
| contracts, move requests (`modules/leases/contracts.service.ts`) | `Lease`, `MoveInRequest`, `MoveOutRequest` | draft, activate, cancel, request, review, execute | checks before transactions, two transactions in one handler |
| lease lifecycle (`lease-lifecycle.service.ts`) | `Occupancy`, `Lease`, parking, access items | move-in, move-out | shared by three callers |
| occupancies, resident grants (`modules/occupancies`, `modules/users`) | `Occupancy` | create, ADD, MOVE, MOVE_OUT | compete with move-in for units and residents |
| parking (`modules/parking`) | `ParkingAllocation`, slots, vehicles | allocate, end | no constraint in the database |
| access cards, stickers (`modules/leases`) | items and their status | issue, transition, delete | mass update by move-out |
| maintenance requests (`modules/maintenance-requests`, owner's decisions in `modules/owner-portfolio`) | `MaintenanceRequest` with estimate and approval columns, approval audit | create, edit, cancel, assign staff, provider or worker, estimate, ask, approve, reject, override, complete, remind | residents, staff, providers, owners and a timer write the same row by id after checks on an earlier read |
| auth (`modules/auth`) | users, refresh-token hash, reset and invite tokens | register, login, refresh, reset, invite | rotation and reset are read-then-write |
| owner and provider grants (`modules/owners`, `modules/service-providers`) | grants of parties to users, memberships | invite, link, activate, disable, resend, accept | an invitation is accepted by another component, by id, after a read |
| access control (`modules/access-control`, `common/guards`, the decorators of the controllers) | role templates, assignments, overrides; the tables of keys in the source | grant, revoke, resolve, guard | rows are deleted between a check and an insert; five tables kept by hand must agree |
| messaging, notifications | conversations, messages, read markers, notifications | create, send, read, dismiss | one request is many statements, with times taken in the process |
| listings (of every module) | none | page after page by cursor | the list changes between two pages |
| units, ownerships, amenities, visitors | the owner of a unit in two tables, visitors with a status | create, update, import, announce | updates, imports and deletions race; three readers of the owner |
| parties, user profiles, unit types, dashboard, health, adapters | plain records | CRUD, reads, I/O | not concurrent by themselves |

`PROJECT.json` lists every component with its status, and under `hazards` the
places where the code is exposed to an order of events no test covers.

## 2. Modules

| module | content |
|---|---|
| `DeliveryTasks` | the queue, its three users, BullMQ, crashes |
| `Tenancy` | contracts, occupancies, move requests, parking, access items |
| `OccupancyRegister` | abstract specification: who lives where |
| `Maintenance` | maintenance requests, policy routes, estimates, approval, reminder monitor |
| `Accounts` | accounts, sessions, tokens, owner and provider grants |
| `Permissions` | the tables of permission keys |
| `Endpoints` | every route with its guards and key |
| `Access` | roles, assignments, overrides, provisioning, the guards |
| `Conversations` | conversations, messages, read markers, notifications |
| `Pages` | a client walking a listing by cursor |
| `Push` | devices, tickets, receipts, the receipt monitor |
| `Premises` | units, owners, amenities, CSV import, visitors |
| `MC...` | instances for TLC: model values, symmetry, bounds |
| `...Proofs` | TLAPS proofs about `DeliveryTasks`, `Tenancy`, `Maintenance`, `Accounts`, `Access`, `Conversations`, `Premises`; `CommsProofs` is about `Pages`, `Push` and the composition `MCComms` |

### DeliveryTasks

`task[t]` is the row, `job[t]` the BullMQ job with the same id, `proc[p]` the
position of request or worker `p` in its handler. Every `await` of a handler
that touches shared state is one action. The three kinds of delivery share
`processTask`: `Start` is `findById` with the status checks, `MarkProcessing`
the update that follows, then either `Send`/`MarkSucceeded` (email and push) or
`TxRead`/`TxCommit` (fan-out), then `MarkFailure` for the catch block. The
fan-out goes on to `QueuePush`, which creates a push task in the same process.
`ClaimForRetry`, `CreateReplacement`, `DispatchTask` and `MarkRetried` are the
administrator's retry; `RetryByKindFails` is the catch around it that calls
`releaseRetryClaim`: before the replacement exists, or after, when the request runs
it inline and a statement fails. A push without active devices or without a provider
ends as a success with nothing sent (`NothingToSend`).

Statements inside the `try` block of `processTask` may always fail. Those outside
of it (the two before it, the update in the catch block) fail as a fault,
`dbError`: the error goes to BullMQ, to the administrator's retry or to the caller,
and the row stays as it was (`StatementFails`).

BullMQ is external: `TakeJob` (only one worker holds the lock), `Acknowledge`
(attempts), `Stalled` (re-delivery, limited), `LoseLock`. `EnqueueOutcomes`
says what an enqueue may do, including the "ambiguous" call that throws although
Redis stored the job. `effects[t]` counts provider calls or fan-out commits and
`origin[t]` remembers whose replacement a task is; `orphans` are the replacements
whose retry threw after creating them. All three are observers.

`Prune` (retention) waits until nothing is busy with the row: the code deletes
rows older than at least a day, far longer than a handler or a job's back-off.

### Tenancy

Each handler is split into the reads its checks are made on (`...Check`) and
each transaction it commits. `NoClash` and `NoPending` are the unique indexes, as
guards of the insert; `UnitLocked` is the row lock. `Abandon` ends a request at
any point: a thrown error, an index violation or a dead process. `MoveOut` is
shared by its endpoint, `cancelContract` and `executeApprovedMoveOut`, as in the
code; `req[c].arg` says where control returns to.

Left out: authorisation, dates (whether a move-out is "early" is a free choice),
amounts, history and activity rows, names. Editing a contract's terms
(`updateContract`) does not touch the fields modelled and is left out.
An access item stands for a card or a sticker: the two services are the same code.

`OccupancyRegister` promises what a user of the system would expect: a set of
(resident, unit) pairs, in which each step moves one resident in, out or across,
and never into an occupied unit. `Tenancy` refines it under
`lives <- {(resident, unit) of the ACTIVE occupancies}`.

### Maintenance

`row[r]` holds the columns of a request that decisions depend on. A column of
which the code only asks whether it is NULL is `"null"` or `"set"`; text, type,
priority and emergency signals of the intake are one column `intake` (what the
keyword rules conclude from them), and the four scope flags one column `scope`.
The pair "decided by this owner" / "overridden by this user" is `decider`.

Each handler is two steps: the action named after it reads the row, checks it and
records in `pend[c]` the columns it will write, computed from the row it read
(`Triage` copies unchanged triage columns back, as `buildPolicyTriageUpdateData`
does); `Commit` overwrites these columns in whatever row is there by then.
`Abandon` is an error or a crash in between. `Route` and `Unlocked`
are the policy functions. `overrideOwnerApproval` accepts every decision source
the validator accepts, OWNER included, and no handler checks that a deadline
given in a body lies in the future, so neither does the model.

The monitor lists overdue estimates (`ListPending`), marks one with a conditional
update (`MarkReminder`) and emits its event (`EmitReminder`); `ScanFails` drops
the rest of a scan. `rounds[r]` counts estimates asked for, so that a reminder can
be attributed to the estimate it is about; it also bounds the state space
(`MaxRounds`). The passing of time is `EstimateFallsDue` and `DeadlinePasses`.

Left out: authorisation, comments and attachments, currencies, reasons and other
texts, listings and work queues. Members of a provider are fixed.

### Accounts

`account[u]` is a user row: `must` is `mustChangePassword`, `epoch` counts the
passwords set by token, `session` is the epoch of the sign-in whose refresh token
is stored. A statement of a request is a step; `resetPasswordByToken` is a
transaction that updates the user (`ResetFindGrants` takes the row lock,
`Unlocked` is the wait for it), lists the pending grants and activates them by id
(`ResetCommit`). `MayActivate`, `NoActiveGrant` and `NoOpenGrant` are the partial
unique indexes on owner grants. A provider's administrator needs an ACTIVE grant
only if she was ever invited (`Accessible`, from `toAccessibleMembership`).
Some rows are checked and then written without asking again. `late` is a history
variable that names the rows for which this went wrong: users with a sign-in or a
refresh (`Storing`) between its check and its write when a reset committed, tokens
that a second reset (`Resetting`) had read by then, owner grants that were disabled
while an activation (`Activating`) had read them as pending, memberships whose
request died before it inserted the grant. The properties except these rows and no
others.

Left out: passwords and hashes (who does not know one takes no step), JWTs, the
age of a token (an expired token is one nobody uses), e-mails, audit rows.

### Permissions, Endpoints, Access

`Permissions` has the catalogue `prisma/seed.ts` writes, the keys of the system
roles, the resident baseline and the aliases of renamed keys. `Endpoints` has one
set of routes per controller, each with the guards in front of it, the key it
requires and where its building is found. Both are constants: they are the
source's tables, in the form the guards see them.

`Access` has the state (`assignment`, `override`, `custom` roles, users,
buildings, organisations) and the guards as operators: `Allowed(u, route, ctx)`
is the conjunction of `OrgScopeGuard`, `PermissionsGuard`, `BuildingAccessGuard`
and `PlatformAuthGuard` that the decorators of the route ask for, over
`Effective` and `EffectiveAnywhere`, the queries of the access-control service. A
handler's action is guarded by its own route. `PlatformKey` says whether the
deployment has a platform API key, and a request may carry it (`keyed`):
`PlatformAuthGuard` then lets it pass without a user, as the code does.
A role's keys and a user's
overrides are replaced by a DELETE and an INSERT in one transaction; `doomed` are
the rows the DELETE saw.

Left out: the superadmin's `x-org-id` header, and what the handlers behind the
other routes do.

### Conversations

Each statement of a request is a step: the insert of a message, the time of the
conversation, the author's `lastReadAt`, one notification per recipient. A
`new Date()` is any time between the statement before and now (`Stamps`).
`Classification` is `inferConversationClassification` over the participants.
`whole` (no request died) and `calm` (no two overlapped) are history variables.
Notifications of members and of owners have routes of their own, with the same
four operations.

### Pages

Every listing reads one row more than a page, ordered by a column and the id, and
returns the last row's column and id as a cursor; the next page has the rows
after it. One client walks one of sixteen listings to its end while rows appear,
disappear and move. `Before` is false for a null, as in SQL, and `Encode` writes
an unset name as an empty string, as `encodeDirectoryCursor` does; `exact` says
that this has not happened. `owed` are the rows that had a value at the start and
were left alone since.

### Push

`line` is the order in which `listPendingExpoReceipts` takes pending receipts, a
relation on tickets: the time of the last look-up, then of creation, with those never looked up last
(PostgreSQL sorts NULL last). A poll takes `Take` of them, asks Expo, marks all as
looked up and settles the answered ones, one update each. Expo answers a ticket
at some time, or loses it (`MaxLost`). A purge may remove a receipt while a poll
has it, which ends the poll (`SettleFails`). A device may be registered by another
user, renamed or deactivated meanwhile.

### Premises

The owner of a unit is in `Unit.ownerId` and in the `UnitOwnership` row without
an end. `UpdateRow`, `Unlink`, `SyncCurrentOwner` and `CommitUpdate` are the
statements of the transaction of `update`; what it writes is seen when it
commits, and `lock` is the row lock it holds from its first update on. `CommitUpdate`
and `InsertUnit` may be refused by an index. `ImportCsv` checks every row of a file and
`ImportUnits` is its transaction, which waits for the rows it updates.
`ActiveOwnerUserIdsForUnit`, `ActiveOwnerRecipientsForRequest` and
`AccessibleUnitScope` are the three readers: messaging, notifications and the
owner portfolio, each with its own query. Visitors are created for a unit, moved,
announced to the resident and cancelled; each check is one step and the write
another.

Left out: descriptive fields, unit types, ended ownerships, which cell of a CSV
file is wrong.

## 3. Runs

| run | question | bounds |
|---|---|---|
| `delivery_queue` | do crashes and re-delivery duplicate a fan-out, send more than the row counts, reopen what succeeded or strand a task? | 2 tasks (a fan-out and its push, or a task and its replacement), 1 request, 2 workers, 2 attempts, 1 worker crash, 1 stall |
| `delivery_overlap` | does a RETRIED row name its replacement when two executions overlap? | 2 tasks, ambiguous enqueue (request and worker overlap), 1 lost lock or failing statement, 1 attempt |
| `delivery_retry` | can two administrators replace one task twice? | 3 tasks (a source and two replacements), 2 requests, 2 faults: a request dies, or a statement fails |
| `delivery_double_retry` | the same with a worker crash: violated | 3 tasks, 2 requests, 1 worker |
| `tenancy_races` | are occupancies exclusive under races, is the register implemented? | 2 requests, 2 units, 2 residents, 1 contract, 3 occupancies, 1 move request |
| `tenancy_serial` | does a sequence of requests, each of which may die half-way, keep contracts, parking and reviews consistent? | 1 request at a time, 1 unit, 1 resident, 2 contracts, 2 occupancies, 2 move requests, 1 slot, 2 allocations, 1 item |
| `race_cancel_move_in` | cancel against move-in: violated | 2 requests, 1 of each row |
| `maintenance_races` | do decisions, assignments and reminders stay consistent when handlers and scans overtake each other? | 2 handlers, 2 scans, 1 request, 1 provider, 1 amount above the limit, 1 estimate |
| `maintenance_serial` | does a sequence of API calls complete only work that was allowed, and is every overdue estimate reminded of? | 1 handler at a time beside 1 scan, 1 request, 2 providers of which one has a worker, amounts 1000 and 1001 (the limit and one above), 1 deadline, plain and emergency intake |
| `accounts` | are grants earned, and do resets and disabling last? | 2 requests, 2 users, 1 token, 1 owner with 2 grants, 1 provider with 1 grant, 2 resets, at most one `late` row; symmetric in requests, users and grants |
| `access` | does the platform stay closed, do assignments stay well formed, do the five tables agree? | 2 requests, with and without the API key, that overlap when one assigns a role and the other deletes it, beside the transactions, the superadmin and 1 user, 1 organisation, 1 building, 1 custom role, 3 assignments; all keys and all routes |
| `comms` | messages and notifications, listings, owners of units, receipts | see below |

`MCComms` runs four modules that share no state as one instance: a behaviour is
one of them, chosen in the initial state, so that the run is the union of four.
Each part has a bound on where interleaving is explored:

* `Talking`: two requests that overlap within one tick, or one request at a time
  with ticks, deaths, move-outs and notifications read and dismissed; one
  conversation of at most three people, two messages.
* `Listing`: two rows, and three for the two columns that can be written or
  unset and whose order the caller chooses; pages of one and two.
* `Pushing`: one receipt and any change of its device, or three receipts of a
  device that stays; a poll takes two, one ticket is lost, one poll fails.
* `Housing`: two requests on one unit, or one on two; amenities, visitors and the
  activity of owners are varied one kind at a time. Each owner has a portal user
  of its own, so that readers who named the wrong owner would be seen.

`MCAccounts` has the analogous bound: two overlapping requests about one person,
or one request at a time about two. It explores histories with at most one `late`
row, and none with two people. `MCAccess` lets two requests overlap when one is between the check and
the write of an assignment and the other of the deletion of a role: the two that
read each other's rows.

Deadlock checking is off everywhere: row ids are finite, so a run may use them
up, and a system nobody calls may rest.

The bounds are enough in this sense: a race needs two requests and a row they
both want; a re-delivery needs one crash and two workers; a double replacement
needs a source and two replacements; a cursor between equal values needs two
rows of one value; a receipt that starves needs a lost one in front of it and a
third one. The properties proved in section 5 do not depend on the bounds at all.

The properties of `tenancy_serial` are about requests that run one at a time.
`Abandon` between any two transactions makes this more than a sequential test.
With `Requests = {c1, c2}` TLC violates `ClosedLeaseVacated`,
`SlotAllocatedOnce`, `ReviewedIsFinal` and `OneOpenMoveRequest`, because each of
them rests on a check-then-write without a lock. The one with the clearest
contrary statement in documentation and tests is a violation run and a finding;
the rest are recorded as hazards. The transitions of an access item are checked by
the update itself and overlapping updates break them, so no property is stated.

The safety properties of `maintenance_serial` rest on checks that are not repeated
when the row is written: with two handlers TLC violates all four, for instance an
assignment checked before an estimate is asked for and committed after it. They
are recorded as hazards. Section 5 proves three of them for any number of handlers,
as long as no two work on the same request.

## 4. Fairness

`delivery_queue`, `maintenance_serial` and `comms` check liveness. In
`DeliveryTasks`, `FairSpec` assumes weak fairness of each
step of a started handler (an event loop that is alive runs on), of BullMQ
handing out jobs, of the acknowledgement and of the stalled-job check. Nobody
has to create or retry a task and no fault has to happen. Strong fairness is not
needed there. The run keeps crashes within BullMQ's stall limit, because beyond it the
code really abandons the row, and injects no crash of a request, because a task
created but not enqueued, or claimed but not released, is never picked up again. It
injects no `dbError` either: an attempt that ends there counts for BullMQ and not
for the row, and when BullMQ's attempts are used up the row stays as it is.

In `Maintenance`, `setInterval` starts scan after scan, whatever happened to the
earlier ones: `ListPending` and `EmitReminder` (synchronous after the update
returned) are weakly fair. A scan may fail at any point, again and again, and
`ScanFails` disables the update; `MarkReminder` is therefore strongly fair, which
says that not every scan fails before its first update. Handlers have no fairness.

In `Push`, `setInterval` polls again and again (`PollStep`), time passes
(`DelayPasses`) and Expo decides about some ticket (`ExpoSpeaks`), which may be to
lose it: all weakly fair. Polls that fail are finitely many (`MaxFaults`).
`AnsweredReceiptSettles` needs `MaxLost < Take`, an assumption of the module: with
as many lost tickets as a poll takes, the others are never looked up.

## 5. Proofs

Assumptions are the named `ASSUME`s of the modules: `ConstantsAssumption`
(bounds are naturals, markers are outside the sets, requests and workers differ),
`TenancyAssumption` (the null id is no row, every unit has a building),
`MaintenanceAssumption` (members are pairs, amounts are naturals, NULL is no
value of a column), `PushAssumption` (tickets are naturals, bounds too, fewer
tickets are lost than a poll takes, null is no row), `PagesAssumption` (ids and values are integers, null and no
cursor are neither), `PremisesAssumption` (null and "left out" are no values),
`AccountsAssumption` (finitely many requests, null is no row),
`ConversationsAssumption` (ids are naturals, null is neither a user nor a type) and
`AccessAssumption` (the superadmin is a user; null, "absent" and "gone" are no ids;
a customer's role is no system role; an override that is sent says ALLOW or DENY;
the API key is set or not).
The inductive invariants were checked by TLC on small instances before they were
proved (that of `Access` exhaustively for one request at a time only).

`DeliveryTasksProofs`:

* `TypeCorrect`. `TypeOK` is not inductive: `SetStatus(proc[p].task, ...)` keeps
  the function's domain only if `proc[p].task` is a task. `TypeInv` adds `ProcOK`,
  which says which fields are set at which program point.
* `RetriedReplaced`. `RowsLinked` and `ProcsLinked` say that a replacement, once
  remembered by the retrying request or written in a row, is a task other than
  the source, created for it, of the same kind; both facts are stable because no
  step changes a row's kind or origin once it exists.
* `FanoutOnce`, under `NoOverlap` (an enqueue reports truthfully whether Redis
  stored the job, and no live worker loses its lock) and `MaxStalls <= 1`, which is
  BullMQ's default and nothing in the repository changes it. Workers and requests
  may die and enqueues may fail. `Base` says that who works on a task holds its
  job or there is none, and counts attempts and stalls; `Closing` says
  that a task which is FAILED or claimed has no execution ahead of it but the one
  re-delivery of a job whose worker died, and `Written` that a task whose fan-out
  is written is finished, or nobody will run it again. The bound on stalls is
  needed: with two, a task can be written, its worker die, and an administrator's failed retry mark it
  FAILED before it is delivered once more, and TLC finds a second fan-out.
* `ReplacedOnce`, under `NoOverlap` and without a death of a worker (requests may
  die, statements may fail): a task that is FAILED or claimed has no replacement but
  `orphans` (`Single`), one request at most claims it, and nobody else writes a row
  that is claimed (`Quiet`). Run `delivery_double_retry` shows why workers must not
  die. Orphans have to be left out: after a retry that failed behind the creation,
  the claim is released and the next retry creates another replacement.
* `SucceededOnce`, under `NoOverlap`: from the status check to the end of an attempt
  the task is not SUCCEEDED (`Unfinished`), because only the one execution at work
  could have written it. Any number of processes may die and statements fail.
* `DeliveriesCounted`, under `NoOverlap`: the row counts an attempt before anything
  of it is sent (`EffectsAt`), and is never ahead of BullMQ's failed attempts and
  stalls by more than the run in progress (`BudgetAt`).

`TenancyProofs` has one inductive invariant for every interleaving, `HousingInv`:
`TypeInv`, the row ids remembered by requests are of the right rows (`ReqsLinked`), ACTIVE and ENDED
occupancies have a unit and a resident (`Placed`), a linked occupancy exists
(`LinkedExists`), a move request has its contract (`MoveHasLease`), and the three
invariants `OneActiveOccupancy`, `LeaseMatchesOccupancy` and
`CompletedMoveInOccupied`. Steps that only read (the `...Check` actions) are
handled by one group of lemmas, steps that write by another, split by table.
`RegisterImplemented` follows: a step that inserts an occupancy is a `MoveIn` or
a `Move` because of `NoClash`, a step that ends one is a `MoveOut`, any other
stutters; that a building-wide `MOVE_OUT` removes only one pair needs
`OneActiveOccupancy`.

`ClosedLeaseVacated` and `ClosedLeaseReleasedParking` are proved from
`Spec /\ []ConflictFree`: no two requests decide on the same contract at once. A
request decides on a contract (`Concerns`) from its last check to its commit when it
activates, cancels, moves in or moves out, or allocates parking to the contract's
occupancy. Any number of requests may overlap otherwise, also on one contract while
they review, create or cancel move requests, on one slot and on one access item; so
may single statements (a `MOVE_OUT` grant, the ends of allocations). `OneRequest`
shows that a single request at a time, as in the run, is a special case. `SerialInv`
adds to `HousingInv` what a handler checked and relies on when it commits
(`ReqsRely`): that the contract it cancels or completes has no resident and no
parking, that the one it moves out of has the occupancy it read, that the one it
allocates for is ACTIVE. This survives the commits of others (`CommitRelies`),
because a commit writes only its own contract (`LeaseKept`) and opens an allocation
only for an occupancy of an active one (`AllocationOpened`). The invariant also needs
that a DRAFT contract has no occupancy (`DraftUnlinked`), and the parking of a closed
contract together with its occupancy (`ClosedVacated`). The hypothesis is needed:
run `race_cancel_move_in` is two requests that decide on one contract.

`MaintenanceProofs` has one inductive invariant for every interleaving, `IInv`. A handler commits long
after its checks, so nothing about the row at that time can be assumed; what is
true is that each pending patch is harmless whatever row it meets (`PendSound`):
it is well typed; it writes the approval status, the source and the decider
together or not at all, and consistently (`Together`); it names staff only if it
also clears the provider, and a provider only if it clears staff (`OneSide`); it
touches the reminder only together with the estimate, as a new round or as its
submission (`Restarts`). From this, `DecisionAttributed` and `ExclusiveAssignment` are
preserved by `Commit` in every row. For the reminders, `SentSpent` and `EmitSpent`
say that an estimate a reminder was emitted or is about to be emitted for is
marked, submitted or superseded, so the conditional update cannot select it again.

`CompletedWasUnlocked`, `AuditIsCurrent` and `ClosedIsFinal` are proved from `Spec /\ []OneAtATime`: no
two handlers work on the same request at once, however many work on different
ones, and scans overlap with all of them. The invariant is `SerialInv`: rows are
good (`RowsGood`: completed work is unlocked, the audit is current), and a pending patch, applied to the row as it is now, gives a
good row and leaves a closed one closed (`PendFresh`). Only the monitor and the
clock write the row in between, and only columns on which neither depends.

`AccountsProofs` proves all properties of `accounts`, for any number of users,
tokens, grants and requests, in every interleaving and wherever requests die.
`ActiveGrantsEarned`: having set a password is stable, a request that is about to
activate a grant remembers a user who has, or is about to set it (`JobOK`), and the
indexes do the rest (`Unique`). The type invariant bounds how often a token is used
by the number of requests, which needs counting (`UsesOK`: uses so far plus the
requests still holding the token). For the other three, `FreshOK` says that what a
request has read is still so, unless `late` names the row: the epoch a refresh is
about to store, the unused token, the grant that is not disabled. It is preserved
because a step that changes such a row puts it in `late` if another request has read
it (`Marked`), and `late` only grows (`LateGrows`). `Invited` says that an invited
member has a grant, a request about to insert it, or lost that request.

`AccessProofs` proves all properties of `access`, for any organisations, users,
buildings, roles, requests, and whatever keys and overrides are sent.
`AssignmentsWellScoped` needs what a handler's check established to survive until
its insert (`JobsOK`): organisations of users and scopes of roles never change
(`Settled`), and the existence of the role and the building is what the insert's
foreign keys ask again. `PlatformStaysClosed` follows from three facts: roles of
customers and overrides hold catalogue keys, none of them the platform's
(`CustomsOK`, `OverridesOK`), and only the superadmin has the platform's role
(`PlatformOnlyRoot`); it is about requests without the platform API key, which opens
these routes to whoever has it. `GrantsOpenRoutes` combines the guards with facts about the
tables, one proof step per controller (`StaffRoutesFit`, `ResidentRoutesFit`), and
`BaselineOK`.

`ConversationsProofs` proves `CaughtUp` and the module's type invariant. The request
that wrote a message owes its notifications: until it is done exactly those it
has come to are notified (`JobOK`), no two requests owe for one message (`Apart`),
and once it is done all are, unless it died (`Told`). Without overlaps every message
is older than the last statement of the request at work (`Ahead`), so the time it
writes as read covers its own message.

`PremisesProofs` proves `OwnersAgree` for any number of requests, units, owners
and rows of a file. That the two records agree is not inductive: what a commit
writes depends on the ownerships its request read earlier. `OwnerInv` adds that a
request which gives an owner holds the lock of its unit from its first statement
on, and that the unit is there (`Locked`), so that what it has read is what is
open when it commits (`Current`); and that a row that is not there has no owner
(`Vacant`), on which the import relies when it creates units. The deletion of a
building needs that nobody holds a lock. That the three readers agree follows
from the agreement of the records alone (`ViewsAgree`): with one open ownership
at most, and none beside a different `ownerId`, the fallback never applies.

`CommsProofs` proves `ListedOnce` for any rows, values and page sizes. The
invariant is `Split`: of the rows the client is owed, it has got exactly those
that are not after its cursor. A page moves the cursor to its last row; rows got
before stay behind it because the order by value and id is transitive, rows of
the page are not after it, and the others are, because a page is what comes
first. A cursor for a row without a value breaks this, hence `exact`.

It also proves the safety of `Push`, for any devices, tickets, page sizes and
failed polls, from `PushInv`: `line` is a strict total order of the pending
receipts, those never looked up last (`InLine`); these are in the order of
creation, and the ones younger than the look-up delay are the last of them
(`ByCreation`); a poll has taken tickets in that order (`PollOK`); what receipts
and the monitor say is what Expo answered (`Truthful`). From it follow
`LookedUpInTurn` (`NoOvertaking`: nothing comes in front of a pending receipt but
by the poll that has looked it up), `ReceiptsSettleOnce` (`SettledForGood`) and
`ReceiptsTellTheAnswer`. `NoOvertaking` is the safety half of
`AnsweredReceiptSettles`: that a receipt comes to the front at all rests on
fairness and is left to TLC. It is not obvious that the look-up of others leaves
a receipt's place alone: a receipt that was looked up goes before those never
looked up, so `markLookupAttempted` would move it past one of them unless it
was before that one already, which `ByCreation` and `PollOK` show. The invariants
and both action properties were checked with TLC for three tickets first.

`CommsTypeCorrect` puts the four modules of `MCComms` together: a step is a step of one
component and leaves the others alone, so each keeps its own invariant
(`CommsInv`), and with it the types, those of amenities and visitors included.

Of the passing runs' properties these are only model-checked: `QueuedTaskSettles`,
`OverdueIsReminded` and `AnsweredReceiptSettles`, because liveness under fairness is
out of the prover's reach; and `SlotAllocatedOnce`, `OneOpenMoveRequest`,
`ReviewedIsFinal` and `WorkerOfProvider`, because a hypothesis under which they hold
for overlapping requests would assume away the one race they are about. All others
are proved, with the hypotheses given above. Of amenities and visitors in `Premises` nothing but the types
is proved: nothing stronger holds of visitors when requests overlap.

## 6. Findings

* `delivery_double_retry`: a job delivered again after a crash puts a claimed
  task back to FAILED, and it is retried twice.
* `race_cancel_move_in`: a cancelled contract keeps its resident.

Recorded as hazards with a note: a retry that fails after it created its
replacement and leaves the task open to another one, two overlapping allocations of one parking slot,
and a request for maintenance whose estimate is outstanding and whose owner has
approved, which is in no work queue. `modules/maintenance-requests.md`
says that unassigning a provider resets a requested estimate; the code has the
branch, but `assertExecutionUnlocked`, called before it, refuses every request
with a requested estimate.

## 7. Not modelled

* Parties and their identifiers, user and resident profiles, unit types, the
  organisation's profile: single-row records; the matching of identities by
  e-mail or identifier is a matter of normalisation and hashing.
* Dashboard, portfolio views, health, metrics: they only read.
* E-mail, storage, Prisma, Redis, Expo: adapters; what they do to the state is
  in the modules as external actions.
* Comments and attachments of maintenance requests, documents of contracts:
  rows that are inserted and listed.
* Parking slots and vehicles, the audience of a broadcast, the buildings a
  provider serves: lists checked once, at the time of a request.
* The superadmin's `x-org-id` header.
* The `markResidentInviteFailed` in the catch block of a password email's task:
  `Accounts` has it as a step of its own, `DeliveryTasks` has no invitations.

## 8. Plan

What is left to model: the recipients of maintenance events and the audience of a
broadcast, over the state of `Access` and `Premises`; slots and vehicles of `parking`.
