# OpenKit execution core: TLA+ models and proofs

OpenKit is a TypeScript and Rust monorepo. `apps/nanocore` ("Core") is the server
that owns workspaces, threads, Turns and their execution; `apps/nanohost` is the
native (Rust) host that runs Workers in sandboxes; `apps/web` is the user
interface; `packages/` holds the Worker shim, schemas, clients and kernels.

This project models the part of Core on which everything else rests: how a Turn
is admitted, dispatched to a Worker, executed at most once, stopped, recovered
after a failure or a crash, and finally decided; the journal of what was sent to
the host, and the retirement of an idle Sandbox through it; recurring schedules,
which admit Turns by themselves; and the requests for approval or an answer that
outlive the Turn that raised them. Paths below are relative to
`src/apps/nanocore/src/` unless they start with `src/`.

## 1. Inventory

### Components, their state and operations

| Component | State | Operations |
|---|---|---|
| Scheduler records: `scheduler-records.ts`, `runtime/execution-attempt-records.ts`, `storage/execution-attempt-native.ts`, `storage/scheduler-admission-native.ts` | Tables `scheduler_admission_entries` (queued, admitted, denied, cancelled) and `scheduler_execution_attempts` (open, closing, closed; session, package, operation, disposition, deadline, first cause, outcome, fence) | create, deny, retry, cancel an entry; create an attempt, bind session, finalize input, record operation, accept observation, mark closing, close without effects (perhaps requeue), close with fence |
| Core writer: `storage/control-store-worker-client.ts` | FIFO of posted commands, served by a thread of its own | post, commit, answer |
| Dispatch loop: `runtime/scheduler-dispatch-loop.ts` | Process-local preparation claims | select, deny, create attempt, prepare, start, catch (requeue or fail) |
| Turn executor: `runtime/worker-governance-turn-executor.ts`, `runtime/orchestrator.ts` | Process-local execution of a Turn | materialize, operate, wait for final status, close out, fail, clean up, release |
| Execution backend: `runtime/turn-executor-factory.ts`, `runtime/execution-backend.ts`, `runtime/worker-backend-session-records.ts` | Backend session of an attempt, what was delivered to the host | effect, submit, cancel, inspect, release, cleanup |
| Worker control: `runtime/worker-control-records.ts`, `storage/worker-control-final-status-native.ts`, `runtime/worker-control-gateway.ts` | Lease, sequence numbers, accepted final status | accept status, wait for it, reconnect |
| Stop: `turn-routes.ts` (`turn.interrupt`) | One request in flight | cancel queued work, close a prepared attempt, interrupt a running Worker |
| Maintenance: `runtime/scheduler-restart-recovery.ts`, `runtime/nanohost-attempt-recovery.ts` | One pass at a time, scheduler stage and native stage | revoke, expire, cancel, inspect, close, publish, clean up, release, retire |
| Restart: the same files and `index.ts` | The durable records only | close attempts without operation, classify the rest, listen |
| Turns: `runtime/worker-turn-failure.ts`, `runtime/product-turn-start.ts` | Product status of a Turn (pending, running, four terminal ones) | publish, start, terminalize (first outcome stays) |
| Recurring schedules: `storage/automation-definition-native.ts`, `storage/automation-scanner-native.ts`, `storage/recurring-attempt-native.ts`, `runtime/recurring-schedule-service.ts` | Definition with its cursor, occurrences, expired ranges, queue entries | create, pause, resume, edit, delete; plan and publish a scan; accept, retry, expire, fail, cancel an occurrence |
| Execution journal: `runtime/execution-journal.ts` | Roots (open, closing, closed) with revision and exclusion, steps (intent, completed, failed, unknown, cancelled) | write an intent, settle a step, inspect an unknown one, close |
| Idle Sandboxes: `runtime/turn-executor-factory.ts`, `runtime/execution-reconciler.ts` | Residents (accepting, claimed, fenced), cleanup results awaited | evict, retire, reconcile, give up, forget |
| Host session: `runtime/nanohost-session-dispatch.ts` | A slot per pending effect, connection, epoch | enqueue, poll, receive, acknowledge, expect a late result |
| Pending requests: `runtime/pending-requests.ts`, `runtime/pending-request-flow.ts`, `storage/control-store-pending.ts` | A row per request: state, resolution, claim, disposition, delivery, publication | raise, decide, claim, execute, finish, freeze, deliver, release, close out, archive, recover |
| Goals and tasks: `runtime/goal-owner.ts`, `runtime/worker-turn-loop.ts` | Goal steps, next Turn | prepare next Turn, stop after Turn |
| Command receipts: `storage/command-request-records.ts` | Receipts of accepted commands | replay, refuse |
| Usage ledger: `capability/usage-ledger.ts` | Reservations and charges | reserve, charge, release |
| NanoHost: `src/apps/nanohost/src/` | Effect epochs, start barrier, credential slots, volumes, images | prepare, submit, collect, release |
| Everything else (knowledge, memory, policy, auth, vault, LLM gateway, artifacts, reviews, generative UI, channels, administration, local AI, updates, web) | Product content | Mostly pure functions and input/output around the core |

### Interactions

Routes and services run on Core's one JavaScript thread and interleave at every
`await`. They read the SQLite records directly and write them by posting commands
to the Core writer, which commits them one by one in posting order. So a decision
is made on a row that may be changed by commands posted earlier, and the owner of
such a command goes on (delivers an effect, for instance) before the decision
commits. The writer's connection is opened once and remembered, so a read and the
posting that follows it are one step.

Four owners write the same attempt: the dispatcher with its executor, the Stop
route, the maintenance pass, and restart. The native host only knows what the
executor delivers. The Worker answers through worker control, whenever it likes.

The journal, the schedules and the pending requests follow one pattern: read on the
main thread, await, post a command that names what was read (a revision, a plan, a
hash of the row, a list of rows), and have the writer refuse it when that changed.
Nobody repeats a refused command unless the code says so, which is where their
liveness is won or lost.

### Hard behaviours and what correctness means

* Stop, revocation, expiry and failure race the executor's next operation: the
  exclusion of a Thread must outlive every delivered effect.
* A crash loses all process state between any two steps: nothing may be delivered
  twice, no attempt may stay with an owner that is gone, and every Turn must be
  decided.
* Observations arrive late, repeated, out of order: first facts stay.
* Capacity may be missing after admission: the entry goes back to the queue, with
  its Turn pending and its schedule's slot respected.
* Turns are decided by several owners: the first outcome stays.
* A result comes after its producer gave up, or on another connection: it must be
  recorded or linked, and acknowledged, and never make the journal lie.
* A Sandbox that cannot be reached is not gone: its capacity is given away only
  with a proof of deletion or a fresh epoch of the host.
* Every instant of a schedule counts once, whatever pauses, edits, overload and
  restarts do, and a schedule keeps one waiting occurrence.
* A grant is executed at most once, an outcome is delivered at most once, and each
  gets where it belongs although the Thread is busy, archived or recovering.

`PROJECT.json` lists each hazard at its line with the properties aimed at it.

## 2. Modules

| Module | Models |
|---|---|
| `SchedulerStore` | The two tables and every command on them, issued by arbitrary callers in arbitrary order. |
| `TurnExecution` (extends `SchedulerStore`) | Core writer queue, dispatch loop, executor, host as Core sees it, product Turns. |
| `SchedulerSystem` (extends `TurnExecution`) | Stop, both maintenance stages, crash and restart; the composed specification, its fairness, its properties, and the refinement mapping to `ExecutionLane`. |
| `ExecutionLane` | Abstract specification: one holder per Thread, effects once and only while holding, settled before leaving. |
| `ExecutionJournal` | The rules of a journal root: what writing an intent and settling a step require and do. A root is a value; no variables. |
| `TurnJournal` (extends `ExecutionJournal`) | The journal of one Worker Turn and all of its writers. |
| `IdleCleanup` (extends `ExecutionJournal`) | The retirement of an idle Sandbox: owner, producer, reconciler, session dispatcher, host. |
| `RecurringSchedule` | One schedule: its owner, the scanner, its occurrences and queue entries, the clock. |
| `PendingRequests` | The requests of one Thread, with the callers, Turn barriers and recovery that move them. |
| `SchedulerStoreProofs`, `SchedulerSystemProofs`, `ExecutionLaneProofs`, `ExecutionJournalProofs`, `TurnJournalProofs`, `IdleCleanupProofs`, `RecurringScheduleProofs`, `PendingRequestsProofs` | The theorems about the module each is named after, with the inductive invariants and lemmas they need (section 4). |
| `MCSchedulerStore`, `MCSchedulerSystem`, `MCPendingRequests` | Constants and symmetry for TLC; the other modules take theirs from the cfg. |

### SchedulerStore

`status[t]` and `rowid[t]` are the admission entry of Turn `t` (one entry per
Turn: the create command treats a known turn id as a replay), `attempt[a]` is an
attempt row, `authority[t]` the answer of the authorization check, which may
change at any time. Every action is one writer command with all of its refusals:
the unique indexes of `drizzle/core/0000_setup.sql` are `LaneFree` and the last
conjunct of `CanBindSession`, SQL `COALESCE` is `Coalesce`. A refused command
changes nothing. Data is abstracted to identities; `(inputRef, bindingRef)`, always
written together, are one `Input`; the release proof is the set of barriers it
names.

### TurnExecution

`exec[t].pc` is the `await` at which the dispatch of `t` stands. `Post` and the
read-and-post actions (`Claim`, `Fail`, `Catch`, `PostOperation`) append the owner
to `writer`; the action that commits takes the head of `writer` and applies the
store command or goes to the code's error path. `host[a]` is the native side:
nothing, a recorded session, a delivered preparation effect, a delivered
submission, an accepted final status, and the three cleaned states (`retired`:
nothing had been delivered, `fenced`: cleaned without a final status, `collected`:
with one). Cleanup and publication of an accepted final status are two steps
(`Closeout`, `PublishOutcome`), between which Core may crash. `turn[t]` is the
product status. `Deliver` may follow `Operate` at any later time, with the check
before contact in between; a reply may be lost (`ExecutionFails`) and a delivery
refused (`NotEnqueued`).

A preparation effect that reads its attempt closing is journalled as cleanup and
is delivered without a record: `PrepareWhileClosing`.

### SchedulerSystem

`stop[t]` and `maint` are the Stop route and the maintenance pass at their awaits,
with what they remember of the row they read. Marking or closing an attempt that is
already closed succeeds and does nothing in the code; `RevokeAttempt` and
`RefuseAttempt` keep that. The native stage (`NativeExpire` ... `RetireOrphan`)
interleaves freely with the scheduler stage. A native pass may clean up an attempt or
leave it as it is: `nanohost-attempt-recovery.ts` keeps it closing while a workspace
capture is pending (164-173), for good when cleanup left it in `needs-evidence`
(245-255), during a takeover (256-266) and when cleanup fails. `Crash` resets all process-local
state at any moment; `BootStep` runs restart recovery, one committed step at a time
and itself interruptible by another crash when the bound allows it.

### ExecutionJournal and TurnJournal

`CanIntend`, `Intend`, `CanSettle` and `Settle` are the two transactions
of `execution-journal.ts`: kinds a closing root refuses, expected revision, output
references, the links of an unknown step to the inspection that resolves it, and
the qualification of a release. `TurnJournal` is one root and everybody who settles
it against a revision read earlier: the executor, the caller and the receiver of an
effect, Stop's interrupt, the publishers of the outcome, native recovery and
restart. A refused settlement follows the code's own error path.

Native recovery never settles the release step, and a settlement refused or cut by a
crash leaves its intent. The root then stays closing with its exclusion, on purpose
("keep that journal obligation for inspection"); it blocks a backup of the Workspace
(`storage/workspace-backup.ts`). So no property says that roots are closed.

### IdleCleanup

`root[o]` is the journal root of the bridge's close or the Sandbox's deletion,
`slot[o]` the dispatcher's pending effect, `resident` the inventory entry,
`recovery` the promise a resident waits for, `invalidated` the flag that makes a
running pass of the reconciler start over. The host (`src/apps/nanohost/src/main.rs`,
`nanocore_session.rs`) runs what a poll returned, keeps a result until it is
acknowledged, offers results before it polls, and may restart empty. The model's host is
more patient than the real one, a superset: after a fencing poll, after a failed cleanup
effect and after any answer other than 204 the real one ends its epoch
(`nanocore_session.rs:2713-2719`), the model's may also stay and offer its result again.
So `ResultsAreAcknowledged` is what Core promises to a host that keeps asking; the real
host asks again only after a lost connection.

### RecurringSchedule

Time is counted in units of the cadence. The scanner reads a plan, publishes it if a
second reading is equal, and handles its candidates one by one, each with a
preparation outside the writer and a decision inside it. `ranges` are the expired
ranges of instants that nobody ran. `owed` and `anchor` are history: the instants the
definition in force named as time passed, against which the books are checked.

### PendingRequests

`row[r]` is the row of a request. `job[j]` is what a caller, a Turn's terminal barrier
or the recovery at boot is about to do, with the rows its command expects; a command
whose expectation no longer holds is dropped when the row changes instead of when it
is committed, which gives the same outcomes, since nothing happens in between. Turns
are numbered; a service Turn (`Service`), complete when published, has no number of
its own. `effects` and `shown` are history: how often a grant was executed and an
outcome submitted.

A Worker's Turn that carries outcomes goes from `pending` to `preparing` (attempt
admitted, Turn `running`, `runtime/orchestrator.ts:361`), `recorded` (an operation is
recorded), `submitted` (`runtime/worker-governance-turn-executor.ts:3319`), `settled`
(delivery proved or called unknown, Worker still running) and `done`. Core may crash
between any two. At boot the scheduler's recovery runs first, without the hooks of the
pending requests (`index.ts:507` and `521`): it fails a Turn whose attempt recorded
nothing and keeps one whose attempt did; then every frozen outcome of a Turn that is not
pending becomes `delivery-unknown`. A Turn that was kept is `stranded` or `settled`: it
runs until its attempt is recovered, which may be never. A refused start passes through
`releasing`, with the second try after a failed release; a Turn whose delivery is called
unknown after it ended is `disputed`.

### What the models leave out

For the scheduler:

* Actor permission on retry and cancel, and the refusals for a frozen workspace.
* Contents of packages, workspaces, receipts, credentials and messages.
* Sharing of sandboxes and harnesses by several sessions, storage bindings.
* Several preparation effects of an attempt stand as one.
* The session-busy test in the dispatch handler; the lineage guard of
  `interruptTurn` (over-approximated: the interruption always proceeds).
* `workspace_access_denied` ends a Turn as interrupted in the code and as failed
  here; the `raw-output-*` causes are folded into `turn-cancelled`.
* Heartbeats are a nondeterministic expiry, and a stopped Worker's wait may end at
  once; checkpoints and workspace capture are part of the native pass that may leave
  an attempt closing.
* A recorded submission counts as invoked (only the launching mark lies between).
* Publication of a Turn after a crash inside `startProductTurn` depends on the
  client's retry, so `Publish` has no fairness.
* The branch of the dispatch handler for a failure with a recorded operation: the
  executor handles such failures itself, so the branch is unreachable here.

For the others:

* Journal: spans, deadlines, parents of nested Harness invocations, the receipt step
  of an interrupt, roots of other capabilities.
* Idle cleanup: collection and export of an idle Sandbox, storage and capture (they
  only make a step fail); a busy slot, which needs a second Sandbox on the target;
  two owners of one resident, which exclude each other.
* Schedules: monthly cadences (the same cursor with uneven gaps), competition of
  several schedules for the limit of a scan, event triggers, the frozen selection of
  Agent and model, audits. Authority once lost stays lost.
* Requests: contents, several Agents or users of a Thread, requests of the Assistant
  and the Coordinator, reactivation of a Thread, unusable rows, the Goal owner's
  claim, effect and finish in one commit. The consecutive reads of
  `admitNextOutcome` are one step, and so is the boot: a crash inside it is a crash
  before or after it. An execution error and an unknown outcome are one disposition,
  `failed`; authority once lost stays lost.

## 3. What is checked

All runs use small instances in which every race of interest happens: one Turn with
two attempts has requeue, recovery and replay; two Turns on a Thread have
contention; one effect has a caller, a receiver and a releaser that race; three
instants with two cadences have a due, a missed and an edited one; two requests and
room for one outcome per Turn make outcomes wait for each other. The budget of one
tick makes a deadline pass while the executor works. Faults (crashes, lost answers,
refusals) are counted and bounded by `MaxCrash` or `MaxFault`; two of them suffice for
a fault during the recovery from another. A cfg says `CHECK_DEADLOCK FALSE` where the
system may come to rest; `idle_cleanup` never does.

| Run | Bounds | Shows |
|---|---|---|
| `store_lanes` | two Turns of a Thread, two interchangeable attempts | The store's seven promises under arbitrary, late and contradictory callers |
| `turn_stop` | one Turn, two attempts, Stop, one crash | `SystemTypeOK`; `NoReplay`: at most one attempt of a Turn reaches the host; `OutcomesAreFinal` |
| `turn_lane` | one Turn, two attempts, revocation, one crash, no Stop | `RecordedEffectsHeld`: a recorded operation keeps its attempt live until fenced; `KeepsLane`: the scheduler implements `ExecutionLane`; `AttemptsAreLetGo`: no attempt stays open or in the hands of its executor for ever |
| `shared_thread` | two Turns of a Thread, one direct and one recurring | `KeepsLane` between Turns that compete |
| `turns_end` | one Turn, one attempt, Stop and revocation, no crash | `AdmittedTurnsEnd`: every admitted Turn is decided or waits again |
| `turn_journal` | one effect, one interrupt, one crash | `ExclusionHeld`: nothing is released that may run; `OutcomesAreTrue`: the journal states only what happened; `ClosedIsProved`; `JournalAdvances`: no writer undoes another; `ResultsAreRecorded`: a result is recorded in the end although settlements are refused |
| `recurring` | four instants, cadences 1 and 3, scans of one, two attempts, one fault | `ExactAccounting`: each instant once; `PendingIsCurrent`; `OneWaitingOccurrence`; `DecidedOnce`; `InstantsSettle` |
| `idle_cleanup` | one Sandbox, two operations, two faults | `RemovedIsGone`; `ContactedOnce`; `ExclusionNeedsProof`; `AcceptingIsUntouched`; `CleanupContinues`: a recorded completion is always followed up; `ResultsAreAcknowledged` |
| `pending_grants` | a call and a command, two interchangeable callers, two Turns, two faults | `ExecutedOnce`, `DeliveredOnce`, `ArchivedIsSettled`, `DecisionsAreFinal` |
| `pending_outcomes` | a call and a question, one caller, three Turns, one fault | `ClaimedCallsEnd`: a claimed call gets its disposition, at boot at the latest; `OutcomesAreAdmitted`: a ready outcome does not stay at an idle Thread, with the exceptions below |

`OutcomesAreAdmitted` speaks of a Thread with nothing running: a Turn may run, or wait
for the recovery of its attempt, for ever, and outcomes then wait with it. It excepts what
the code leaves to a later trigger: a refused start (its Turn has no barrier), lost
authority and commands of people (observations 6 and 7), a delivery called unknown after
its Turn ended (its record may refuse an admission under way), and the end of the Turns of
the instance. TLC finds a counterexample when any one of these is left out.
`AttemptsAreLetGo` does not say that attempts are closed: see observation 10.
`OneWaitingOccurrence` speaks of occurrences
admitted or retried; observation 4 is about those that come back. Claims of commands,
unlike those of calls, may outlive their command until the next boot (observation 8).

### Where the code and its documents disagree

Two runs expect a violation; each is a behaviour of the code that contradicts a
comment of the repository (quoted in `PROJECT.json`).

| Run | What happens |
|---|---|
| `stop_race` / `CancelledBeforeEffects` | Stop reads an attempt without operation; an operation commits and is delivered before Stop's mark; Stop closes the attempt as never affected and publishes a cancellation "before any backend effect". Maintenance, which looks at the row the mark returns, does not have this race. |
| `lost_outcome` / `ClosuresArePublished` | A crash after a Stop's closure and before its publication leaves an admitted Turn that nobody decides. |

Other behaviours of the code that the models reach and a maintainer may want to know:

1. `runtime/turn-executor-factory.ts:6165`: an effect that reads its attempt closing is
   delivered without a record (`PrepareWhileClosing`); others may then close the
   attempt as never affected while it runs.
2. `runtime/scheduler-dispatch-loop.ts:616`: a busy requeue that commits after
   maintenance revoked the attempt queues an admission whose Turn is published as
   failed; it is never dispatched.
3. `runtime/scheduler-dispatch-loop.ts:157`: between a claim and the commit of its
   attempt a second call of the loop claims another entry ("single-flight").
4. `runtime/execution-attempt-records.ts:412`: a requeue does not look at the
   schedule's slot, which another occurrence may have taken.
5. `runtime/execution-reconciler.ts:286`: an unknown effect without outputs whose late
   result was consumed is selected again, and a result that was consumed is awaited
   once more. It costs an expectation, not a delivery.
6. `runtime/pending-request-flow.ts:1164`: an admission that closed out or invalidated
   requests returns without looking at what is ready, and its service Turn has no
   barrier: ready outcomes wait for the next trigger. `src/docs/specs/20260930-pending_requests.md`
   says "Every ready outcome is delivered to its requester".
7. A freeze that is refused because a person raised another request, or because a
   late record of an unknown delivery changed a row, is not repeated by anyone.
8. A freeze or a proof that commits between a command's read after its effect and its
   finish makes the finish fail: the claim stays until the next boot, which records an
   unknown outcome for what was executed.
9. `lib/store.ts:3188`: the depth that limits terminal hooks is shared by all Threads of
   the store.
10. `runtime/nanohost-attempt-recovery.ts:245`: an attempt whose cleanup needs evidence is
    not retried; it may keep its lane, and its Thread, for ever.
11. `index.ts:507`: a crash after a Turn left pending and before it recorded an operation is
    closed as `restart-before-effects` while no hook of the pending requests is
    installed, so `prepareTerminal` does not release its outcomes, and
    `runtime/pending-request-flow.ts:375` records `delivery-unknown` for outcomes that
    were never submitted; they are not delivered again.
    `src/docs/specs/20260930-pending_requests.md:239` says "A refusal proved before that
    proof returns the frozen outcomes to `undelivered`". Likewise any error of the start
    other than a refusal makes the delivery unknown, also one before the submission
    (`runtime/pending-request-flow.ts:1352`). So `DeliveredOnce` cannot say that what is
    unknown was submitted.
12. A Stop of a queued Turn that carries outcomes leaves them frozen; the next boot makes
    them unknown.
13. `runtime/pending-request-flow.ts:1332`: a crash between the release of a refused
    start's outcomes and the failure of its Turn leaves a pending Turn that no frozen
    outcome names, so nothing at boot resumes or ends it, and the Thread stays busy.

They explain the conditions of the passing runs: `turn_lane` has no Stop because of
`stop_race` and speaks of recorded operations because of 1; `turns_end` has no crash
because of `lost_outcome`.

### Fairness

`FairSpec` assumes what the process guarantees while it is up. Weak fairness of
each dispatch, of its steps, of a Stop in flight, of the maintenance pass, of time and
of boot: awaited promises resolve and timers repeat. Strong fairness of listing each attempt: a pass goes over all live
attempts, so none is overlooked for ever although the pass is busy with another in
between. Nothing is assumed of Workers, users, the authority, new requests or the native
recovery of an attempt, which may wait for evidence for ever.

`TurnJournal` assumes only that a result is redelivered until its receiver
acknowledges it. `RecurringSchedule` assumes the scanner's timer and time.
`IdleCleanup` assumes that promises settle, maintenance repeats, an effect's own timer
ends it, and that the host reconnects, polls and offers its results again; faults are
bounded, not fair. `PendingRequests` assumes each job's promise and that a crashed
Core is started again. No Turn has to be dispatched, submitted or ended, and nobody has
to raise, answer or start anything.

## 4. What is proved

Every safety invariant, every action property and the refinement that the runs check
on a small instance is also a theorem, proved by TLAPS for all values of the constants:
any number of Turns, attempts, requests, effects, crashes and faults. Two of them,
`RecordedEffectsHeld` and `KeepsLane`, are theorems, like their runs, only without
Stop. The theorems use the ASSUMEs of the modules and nothing else: types of the
constants, `Null` outside the data sets, bounds that are positive where the code's
limits are, and for the scheduler that the identities it derives (session from Thread,
package and fence from the attempt) exist and that the causes it writes are causes.
TLC evaluates each ASSUME in some run.

Each proof has the same shape. An inductive invariant says, besides the property, what
each owner may still rely on when its posted command commits; it was checked with TLC
on the run's instance before it was proved. Frame lemmas say that a step of one owner
keeps what the others rely on; then there is one lemma per action.

### The store and the scheduler

`SchedulerStoreProofs`: `StoreSpec` implies the five invariants and the two action
properties of `store_lanes`. `StoreInv` conjoins them with `FreshRowsEmpty` (an unused
identity carries nothing). None is inductive alone: a requeue keeps
`AdmissionHoldsAttempt` only because at most one live attempt belongs to a Turn;
creating an attempt keeps exclusion only by the index over live lanes; a closure with
fence is settled only because an operation is recorded. The runs check exclusion of an
AgentSession only trivially (two Turns of one Thread cannot both be live); the theorem
`Exclusion` covers it in full.

`SchedulerSystemProofs`: `SystemInvariance` establishes `SystemInv`, which contains
`StoreInv` and says

* of a dispatch (`DispatchOK`): its attempt is its own; before contact its attempt has
  no operation and no attempt of its Turn has a session; what it contacts has one;
  cleanup and unrecorded deliveries are of stopped attempts;
* of a session (`HostOK`, `OneSession`): its admission is admitted; reported, cleaned or
  unrecorded effects are of stopped attempts; recorded effects that may run keep their
  attempt live, unless the Turn is one that may be stopped; a Turn has one session;
* of maintenance (`MaintOK`) and Stop (`StopOK`): what maintenance is about to close
  was ended by a mark that found no operation, or is closed already; Stop works on a
  Turn that may be stopped;
* of the writer (`WriterOK`): an owner has at most one command there, at the step that
  posted it.

The argument: only the dispatch of a Turn records operations, opens the session and
gives the admission back, and it does the last only before the first two. An
operation is recorded only while the attempt is open, so an owner that marks it and
finds none may close it later, however late. Stop closes on what it read before the
mark; that is why the exclusion holds "unless stopped", and `stop_race` shows that
it cannot be had otherwise. From `SystemInv` follow `SystemTypes`, `NothingIsReplayed`
(`NoReplay`), `PromisesKept` (the store's promises, for the callers it really has),
`EffectsHeldUnlessStopped` for every Turn outside `Stoppable` whoever else is stopped,
its special case `EffectsHeld` (`RecordedEffectsHeld` without Stop), and
`FirstOutcomeStays` (`OutcomesAreFinal`).

`ImplementsLane` proves `KeepsLane` without Stop: creating an attempt is `Take`, a
requeue `GiveBack`, a closure or a release `Leave`, the first delivery of a recorded
operation `Act`, cleanup `Settle`, requests `Enter` and `Withdraw`; the lane sees no
other step. `Take` needs that a queued Turn never had a session, `Leave` that the
closed attempt recorded nothing or was cleaned, `Act` that no other attempt of the
Turn has a session. `ExecutionLaneProofs` proves `LaneSeparatesEffects` of the
abstract lane; `EffectsApart` states it of the scheduler.

### The journal

`ExecutionJournalProofs` has what the two transactions leave of a root, for any steps,
outputs and references; `SettleProves` says that a root they close is proved, whatever
revision its writer read. `TurnJournalProofs` builds on it: `TurnInv` says that the root
is well formed (`JournalOK`), that a writer's reading is either out of date, so that its
settlement is refused, or the present root (`ReadingsCurrent`), where executor and calls
stand (`ExecutorInv`, `CallsInv`), and that once the attempt is no longer live nobody
sends and nothing runs (`FencedIsQuiet`, `ClosedIsFenced`). From it: `TypeCorrect`,
`ExclusionOutlivesEffects`, `JournalIsTrue`, `ClosedRootsAreProved` and
`WritersAdvanceTheJournal`.

`IdleCleanupProofs`: `IdleInv` identifies who acts on the Sandbox by the recovery map.
A producer has its entry there (`ProducerOK`), so has the one waiter for a result
(`SlotsOK`, `OneWaiter`), and the reconciler acts only when the map is empty
(`ReconcilerOK`); a claim that can still be taken back has no root unless its producer
is about to fence it (`OwnerOK`); roots say of the host only what it did
(`JournalsOK`, `ContactsOK`); a deletion follows a completed close (`CloseFirst`). From
it: `ForgottenIsGone`, `OperationsContactedOnce`, `ExclusionsNeedProof`,
`ClaimsTakenBackInTime`.

### Schedules and requests

`RecurringScheduleProofs` has two invariants. `RecurringInv`: the cursor is ahead of
every occurrence (`CursorAhead`), so no publication and no sealing touches a decided
one; a plan is of the past (`ScannerOK`); pending occurrences follow the definition;
one entry is queued. From it: `RecurringTypes`, `PendingFollowsDefinition`,
`OneOccurrenceQueued`, `OccurrencesDecidedOnce`. `AccountInv`: what is owed beyond the
cursor is exactly what the cadence counts from its anchor (`Outstanding`, `CadenceOK`),
what the cursor passed has an occurrence or lies in one of disjoint ranges, and each
range counts what it holds (`RangeOK`). From it: `AccountsKept` (`ExactAccounting`), for
every set of cadences and every sequence of edits, pauses and scans.

`PendingRequestsProofs`: in `PendingInv` a posted command holds rows as they are
(`JobOK`), the claim of a row belongs to at most one job (`OneOwner`), so its effect
happens at most once and its disposition is its owner's (`ExecOK`); a frozen outcome
belongs to one Turn; before that Turn's submission nobody saw it, so a release is safe,
after it its Worker did; what is undelivered or closed out was never submitted, and nothing
is said of an unknown delivery (`DeliveryOK`); an
archived Thread starts nothing (`ArchivedIsQuiet`). From it: `PendingTypes`,
`GrantsExecuteOnce`, `OutcomesDeliverOnce`, `ArchivesAreSettled`, `DecisionsStayFinal`.

### Only model-checked

Liveness (`AttemptsAreLetGo`, `AdmittedTurnsEnd`, `ResultsAreRecorded`, `InstantsSettle`,
`CleanupContinues`, `ResultsAreAcknowledged`, `ClaimedCallsEnd`, `OutcomesAreAdmitted`):
it rests on fairness and ENABLED, which the prover does not handle. The two expected
violations are counterexamples TLC finds.

## 5. Not modelled

* Failure of the writer thread alone, its capacity and holds: Core stops when its
  writer fails, which is the models' crash.
* Worker control beyond the accepted final status, goals and tasks, command receipts,
  the usage ledger: state machines of their own that rest on the ones above;
  candidates for later modules.
* The Rust host beyond its polls, results and epochs. Its start barrier and
  credential slots are self-contained candidates.
* Knowledge, memory, context, policy, auth, vault, LLM gateway and providers,
  artifacts, reviews, generative UI, channels, administration, local AI, updates, the
  web application, schemas and clients: decision functions over rich data, content
  pipelines and input/output, most of the repository by size and with little
  concurrent state. A model of them would have to invent their data.

## 6. Plan

1. Done: scheduler, lane, journal, idle cleanup, schedules, pending requests; every
   safety and action property and the refinement proved.
2. Next:
   * what the lane still promises to the other Turns of a Thread when one of them is
     stopped, as a theorem that does not ask for an empty `Stoppable`;
   * `RecordedEffectsHeld` for a Stop that looks at the row its mark returns, as
     maintenance does: the proof shows that nothing else is missing;
   * lemmas that lead towards the liveness properties: from every state in which an
     attempt is live, which owner acts next.
