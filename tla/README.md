# A verification project for the HYClaw gateway

HYClaw is a personal-assistant gateway: one long-lived Node process that takes
messages from chat channels, runs model agents for them, answers, keeps timers
and jobs, and restarts itself in place when its configuration or its code
changes. This directory holds TLA+ modules for the parts of that process that
decide what may run when, TLC configurations that check them, and proofs that
TLAPS checks. `PROJECT.json` maps every definition to the lines it models.

## 1. Inventory

The gateway is single threaded. Its concurrency is that of promises, timers,
signals and sockets: every synchronous stretch of code is atomic, and anything
can happen between two of them. So an action of a module is one such stretch,
the whole of it, and everything after an `await` is another action.

| part | state | operations | what must hold |
| --- | --- | --- | --- |
| command queue (`process/command-queue.ts`) | lanes: queue, active tasks, limit, generation; waiters | enqueue, pump, complete, time out, set limit, clear, reset, wait | slots are never leaked or given twice; no work waits beside a free slot; every promise is settled; order within a priority; one run per session |
| work admission (`process/gateway-work-admission.ts`) | active roots and their references, restart drain, signal fence, suspend phase, parked chains, drain waiters | begin, wait until open, continue, retain, release, drain, fence, lease, reset | nobody sleeps before an open door; the drain ends; idle stays idle |
| suspension coordinator (`infra/gateway-suspend-coordinator.ts`) | the held or recovering entry, its timer, the retired entry | prepare, renew, status, resume, expire, retry, supersede, reset | a lease is honoured; prepared means idle; the scheduler is never left paused |
| restart signal (`infra/restart.ts`, `cli/gateway-cli/run-loop.ts`) | cycle tokens, pending hooks, timer, fence lease, deferral polls | schedule, defer, prepare, emit, coalesce, handle, roll back | a signal is handled once; the fence is not orphaned |
| outbound delivery (`infra/outbound/deliver.ts`, `delivery-queue-*.ts`) | rows with attempt evidence, in-process claims, retry counters | enqueue, claim, mark, ack, fail, recover, reconcile | one deliverer per row; no required message lost, none sent twice blindly; replays are bounded; every row is settled |
| session and nested lanes (`agents/embedded-agent-runner/lanes.ts`) | a run in a session lane that queues in a global lane | resolve lanes, run | no deadlock between lanes |
| session lifecycle admission (`sessions/session-lifecycle-admission.ts`, `session-work-admission-handoff.ts`) | FIFO locks per identity, active admissions, active mutations, idle waiters, hand-off tokens, the store's writer lane | begin, register, cross the writer barrier, hand over, release; activate, interrupt, drain, run, close; maintenance | a mutation and the turns of its session exclude each other; a turn loses its session to nobody that looks at admissions; an interrupt reaches the owner; no deadlock |
| heartbeat wake (`infra/heartbeat-wake.ts`, `infra/heartbeat-runner.ts`) | pending wakes with their priorities, wake timer, running and scheduled flags, batches, the runner's interval timer | request, fire, answer, put back, throw, register, start, stop, update | no wake lost or lowered before it is answered; the live handler is called for it; the interval goes on |
| gateway lock (`infra/gateway-lock.ts`) | lock file, owner | acquire, steal, release | one gateway per state directory |
| process supervisor (`process/supervisor/`) | child runs and their timers | spawn, time out, cancel, exit | each run ends once |
| follow-up queue (`auto-reply/reply/queue/`) | queued turns per session | enqueue, drain, drop, collect | order, no loss |
| cron service (`cron/service/`) | jobs, timer, paused and started flags | tick, pause, resume, run | a due job runs |
| subagent and task registries | runs and their outcome | register, settle, announce, archive | each outcome announced once |
| desktop shell (`apps/desktop/src/`) | child process, restart count, readiness | start, exit, stop, wait | the child is restarted, and stays stopped |
| channels, plugins, secrets, configuration, pairing, media, speech, interfaces, extensions | adapters, stores and presentation | | left out, see section 7 |

How they interact: a request or timer tick becomes an active root (admission);
within it, work is enqueued in lanes (command queue), which refuse it while a
restart drains. A host freezes the process through the coordinator, which
closes admission, pauses cron and inspects everything else. A restart emits a
signal behind its own fence, promotes the fence to a one-way drain that
supersedes a suspension, waits for the roots and the active tasks, closes the
server, and at last resets coordinator, admission and lanes for the next
lifecycle, keeping queued entries. A turn that wants to work on a session takes
an admission for it, refused behind the same door; a reset, a deletion or a
rollover of the session interrupts and drains those turns first. Heartbeats are
timer ticks that go through the door as well, and their queue outlives the
runner, which every restart in place replaces.

What is hard here is listed line by line under `hazards` in `PROJECT.json`: late
results of tasks that timed out or were reset, wake-ups that must follow every
reopening, closures of old leases, failures half way through a handover, timers
racing calls, lost replies and stale ids, and work admitted behind a door that
has just been found closed.

## 2. Modules

| module | models | state it takes from the code |
| --- | --- | --- |
| `CommandQueue` | all lanes of `command-queue.ts` | `LaneState` field by field; of a `QueueEntry` its sequence number, its race against the timeout, its body, its caller's promise |
| `LaneExecutor` | what the queue promises, an abstract specification that `CommandQueue` implements | |
| `WorkAdmission` | `gateway-work-admission.ts` | `GatewayWorkAdmissionState` field by field; a chain's life in `rootState` |
| `AdmissionDoor` | what admission promises, an abstract specification that `SuspendCoordinator` and `RestartSignal` implement through `WorkAdmission` | |
| `SuspendCoordinator` | `gateway-suspend-coordinator.ts` with its RPC handlers and the reset of the run loop, extends `WorkAdmission` | `current`, `retired`, the expiry as `overdue`, the cron pause, and for each host what it knows and trusts |
| `RestartSignal` | the emission in `infra/restart.ts`, the SIGUSR1 handler and the restarts of the run loop, a direct request and the reload hooks, extends `WorkAdmission` | the pending lease, the tokens as one bit, the authorizations, where the run loop stands and its `restartDrainingMarked`, and for each emission where it stands and whether it may still emit |
| `OutboundDelivery` | the write-ahead queue of outbound messages: live sends, startup recovery, drains, reconciliation, crashes | of a row its status, `recoveryState` and `retryCount`; `entriesInProgress`; of an attempt the local variables of `deliverOutboundPayloadsWithQueueCleanup` and `drainQueuedEntry` that decide its end |
| `DeliveryLedger` | what the outbound queue promises, an abstract specification that `OutboundDelivery` implements | |
| `HeartbeatWake` | the wake queue and the runner behind it, through restarts in place | the module variables of `heartbeat-wake.ts`; of a batch its handler's runner, the wake it has reached, those to come and all it took; of a runner whether it has agents and whether its timer is armed |
| `SessionAdmission` | admissions of turns and mutations of sessions, their hand-off, and the maintenance of the store | `SessionLifecycleAdmissionState` field by field, the FIFO queues with the holder first; of a turn or a mutation where it stands |
| `SessionExclusion` | what session admission promises, an abstract specification that `SessionAdmission` implements | |
| `CommandQueueProofs`, `WorkAdmissionProofs`, `SuspendProofs`, `RestartProofs`, `OutboundProofs`, `OutboundSendProofs`, `HeartbeatProofs`, `SessionProofs` | the theorems about these modules | |
| `MCCommandQueue`, `MCSuspend`, `MCRestartSignal`, `MCOutbound`, `MCHeartbeat`, `MCSession` | instances for TLC | |

### Notes on correspondence

*Command queue.* `pump` never yields, so every action that calls `drainLane`
contains the whole loop (operator `Drain`). An entry is dispatched at most once
and stands for its task id. A body's value and its error take the same steps.
A timer re-armed by progress reports is a timer that fires later; the fairness
of `Timeout` says that the reports stop at some time. In `Complete` the code
notifies waiters before it pumps, in the resets after; a captured task was
active before the step, and a pump only adds tasks that no waiter captured, so
the order does not show. A reset of a lane nobody used is a no-op in the code
and bumps a generation that nothing refers to in the module. Logging, wait
warnings and the snapshot getters are left out.

`LaneExecutor` is the abstract specification: calls that wait, run, are
abandoned by a reset or are over, slots, and those who sleep for the running
calls. It has no queues, generations, races, sequence numbers to draw, pumps or
notifications. `StatusOf` reads a call's place off its promise, its race and its
generation; a waiter's captured tasks are what it sleeps for until it is
resolved. Every event of the executor ends in `StartAfter`, which says in one
formula what the code does in `pump` and `notifyActiveTaskWaiters`: which calls
start, that the lane is then full or has nothing to start, in which order, and
who wakes up.

*Work admission.* Async-local storage is the knowledge of which chain a call
belongs to: the root is a parameter of the action. The resolution of a parked
promise and the next turn of its loop are two actions (`Woken`, then
`BeginRootWhenOpen`), so the door can close in between. The closures of a lease
carry their generation and may be called at any later time. The callback for an
invalidated lease is registered exactly while the phase is not `accepting`, by
the lease of the current generation; it needs no variable.

`AdmissionDoor` is the abstract specification: one door, open, shut or closed
by a restart; the place of each chain before or behind it; the restart that
waits for those behind it. It has no fences, phases, generations, leases or
references. A chain may shut the door behind it in the step in which it enters,
as an emission does; letting go of a shut door may leave it shut, since another
fence may still hold it, and wakes the sleepers in either case. `DoorIsKept`
maps the fences to the door and the chains to themselves. It is a statement
about everybody who moves the fences, so the two modules that extend
`WorkAdmission` check and prove it, each with its own actors; the reset of a
lifecycle that did not drain, which `WorkAdmission` alone allows, is no step of
the door of `Spec`. `SpecButEviction` allows that step and names it: an
`Eviction` puts out whoever is inside a process whose door was not closed.

*Suspension.* `prepareGatewaySuspend` has no await, so ending an expired lease,
closing the door, pausing, inspecting and committing are one action. The
suspension id is the lease generation, unique like a random one. Time is one
bit: the lease has run out or not, for the gateway and the host at once (the
host is told the deadline); a renewal keeps it from running out. A reply may be lost (`delivered`).
`resumeScheduling` may throw (cron `ops.ts` rolls back to paused when arming
fails); `pauseScheduling` does not. Work that is no root is a nondeterministic
answer of the snapshot.

*Restart signal.* An emission is a patient chain of `WorkAdmission`. All its
hooks, its own and those parked by others, are one await (`Prepared`); one with
no hooks at all does not await, and appears as one whose hooks settle at once.
`emittedRestartToken > consumedRestartToken` is the variable `unconsumed`. The
authorization of a signal may expire before its handler reads it, so
`HandleUnauthorized` and `HandleIntent` are possible whatever `authorized` says.
An emission of an older lifecycle is `stale`. The timer that schedules an
emission, its cooldown, and the polls of a deferral decide only when `Attempt`
happens, which may be any time here. `loop` is where the run loop stands:
serving, with a restart accepted, draining for it, resetting for the next
lifecycle, or resetting with the next restart already queued
(`pendingStartupRequest`); `drainMarked` is the run loop's mirror of the closed
door, `restartDrainingMarked`. `request` accepts, queues or ignores a restart
(`Accept`), `markRestartDraining` closes the door unless the mirror says that it
is closed (`MarkDraining`), and the awaits of the iteration hook lie between
`NextIteration`, which clears the mirror, and `LifecycleReset`. Processes that
are stopped, or replaced by another one, end here.

*Outbound delivery.* A message is a row and one or two units, each one send to
the platform: a payload of a batch, or a part of a payload. The live sender and
the drains run the same delivery loop (`Suppress` to `Result`) and end it
differently. Each await on the platform, on a write or on a hook is a step; a
sequence of fallback writes (mark, else acknowledge, else record a failure) is
one step that chooses which of them fail, since nobody else writes a claimed
row. `work` carries `queuedPreSendState` (`pre`), `queuedPostSendState` or
`postSendState` (`post`), whether there are results (`got`), partial failures
(`bad`) and whether all were proven (`proven`). `sent`, `muted`, `aborted`,
`reported` and `attempts` are history: what the platform accepted, what there
was nothing to send of, and what became of it. Platforms and adapters are external: they may accept, fail
with or without proof, accept and fail, or answer without an identity; asked to
reconcile, they know what they accepted, except that an adapter which looks for
marks (`byMark`) does not see sends that carried none (`Seen`). The walk order
of a snapshot is left open. A drain that selects by account is one that finds
fewer rows. A required pin may fail after the send it belongs to, which fails
the unit with an error that proves nothing (`AfterSend`). When the row itself
cannot be written, a required message is refused and any other one is sent
without a row, which the queue never sees (`EnqueueFails`). That an exact
delivery is `required` and its adapter `hooked` is a contract of the callers and
the adapters, not a check of `deliver.ts`, and an assumption here. A live sender
reaches its claim within microtasks of its row, so a
drain that got between them waits for it (`Examining`).

`DeliveryLedger` is the abstract specification: an entry that is posted once and
settled once, the attempt that is under way, the results on record, and for a
message of one send how often it was accepted. It has no workers, claims, marks,
retries or write failures. A message is busy while a worker is between `unit`
and `caught` with it; a claim on it without an attempt (`taken`, `reconcile`) is
none. What a crash lets arrive is that which was under way.

*Heartbeat wake.* A wake is its target and its priority; reasons, sources and
due times are left out, and where the code compares due times both outcomes are
possible (`Armed`). The loop over a batch is a slot of `batch`: admission
through the door is one await (`Enter`, `Refused`), the handler another (`Answer`,
`Busy`, `Throw`), and each continuation includes what the loop does next
(`Proceed`). A
batch keeps running when its runner is stopped, and the flags it finds and
leaves are those of the process. `Answer` covers every result that is not a
retry. The `muted` bit remembers that a wake was swallowed while heartbeats were
switched off and the interval timer was not armed, which is what the finding is
about; nothing in the code reads it. The interval timer, its re-arming by the
handler's finally, `updateConfig`, `cleanup` and the `set-heartbeats` method are
actions of the runner. The door is the one of `WorkAdmission` with three states.

*Session admission.* An identity is a session key or a session id in one store;
locks are taken in the order of identities, as the code sorts them. A lock is a
FIFO queue whose first entry holds it (`Holds`), and so is the writer's lane.
One action runs from one await to the next: `Round` to the first lock,
`Enter` when all locks are held, `Assert`, `Register` (the continuation that
checks the door again, registers and queues for the lane, in one stretch),
`Cross` in the lane. `JoinLock` takes one lock after the other, as the code
nests the calls. `CURRENT_SESSION_WORK_ADMISSIONS` is the constant `Initiator`:
the turn in whose context a mutation was asked for waits for it and is exempt
from the interrupt. A hand-off token is offered with the admission to the turns
in `Handed`; its creator's finally cancels it. The prepare and run functions are
those of the callers: reset and rollover interrupt with a timeout and change the
session only when the drain was complete; a call that finds out that it cannot
go on, or that throws in prepare, goes through an empty run (the code goes
straight to the finally, which takes the same locks). What is decided about an
entry under the lane changes nothing else. A mutation in `Rollover` queues for
the writer's lane twice, to look at its session once more before it interrupts
anyone (`Revalidate`) and to commit; a reset or a deletion commits in the queue
of the SQLite writer. There are three kinds of maintenance. `LaneSweep` is that
of the file-backed store: it plans and removes in the writer's lane and keeps
the sessions of registered turns. `SqliteSweep` is
`runSessionRegistryMaintenanceForStore`, which keeps them as well, but removes
later in another queue. `RowSweep` is the automatic maintenance of the SQLite
store, the one the running gateway uses: the write of any row plans and removes
at once (`PruneOnWrite`), in the SQLite writer's queue, and does not look at the
admissions. What is stale, too much or too large is left open, so any rows may
go. `evicted` is history: what the last two have removed. A closed door is what `isGatewaySubordinateWorkAdmissionClosed` answers
outside an admitted root.

`SessionExclusion` is the abstract specification: leases, users, changes and the
door, without locks. A lease begins with `Register`, use with a successful
`Cross`; the change of a mutation begins with `Run` and ends with `Commit`.

## 3. Runs

| run | instance | shows |
| --- | --- | --- |
| `queue_lanes` | two lanes (a session lane and a probe lane), three entries, a waiter, one reset per lane | refinement of `LaneExecutor`; slots, promises, waiters and session exclusivity under timeouts and resets |
| `queue_order` | one lane, two normal entries and a foreground one, limits from -1 to 2, timeouts on every entry, bodies that may hang | order, pumping; no entry is stuck unless its lane is suspended |
| `queue_session_doc` | a session lane | expected violation: see section 6 |
| `suspend` | two hosts, the chain of a prepare request, two others and a patient one, three generations | lease, scheduler; refinement of `AdmissionDoor`: wake-ups, restart drain and idleness of admission; every suspension ends |
| `restart` | two prepared emissions, one of a deferral that may be cancelled, a requesting chain, another chain, one foreign signal | the fence and its owner, the signal behind it, the order with a suspension; refinement of `AdmissionDoor` but for resets that find the door open; the fence is transient |
| `restart_doc` | the same without fairness | expected violation: see section 6 |
| `delivery` | one message of nine kinds, its live sender, startup recovery and a drain, one crash, two failed writes, two retries | refinement of `DeliveryLedger`; claims, evidence, retries, settlement |
| `delivery_doc` | a send that is not exact, by an adapter that looks for marks | expected violation: see section 6 |
| `heartbeat` | a wake for everyone and one for a session, two runners, two batches at a time | wakes and priorities survive until they are answered; the interval goes on; the live handler is called for every wake |
| `heartbeat_doc` | the same | expected violation: see section 6 |
| `session` | two turns that share one of two identities, one handed over to an RPC and abortable, two mutations of both identities, one asked for by a turn, the other one a rollover; a sweep in the lane, a write of a row | refinement of `SessionExclusion`, sessions lost to SQLite maintenance only, interrupts delivered, no deadlock |
| `session_doc` | two turns, a rollover, a sweep of each kind | expected violation: see section 6 |

Bounds. Three entries allow a running task, a queued one and one that
arrives between them; two normal ones beside a foreground one compare order
within a priority and across. One reset per lane gives an
old and a new generation; a third adds no new relation between a completion and
its lane. Two ordinary chains in `suspend` are one that
carries another on (`ContinueRoot`); the chain of a prepare request may prepare
for either host while it is active, and a second such chain would only be active
work to the first, which the ordinary ones already are. Three lease generations give a stale lease, a current one and its successor.
Two emissions are one that holds the fence and one that meets it; four signal
generations let a fence be taken, lost, taken by another and rolled back by the
first. Two references (`MaxReferences`) in `suspend` are a root's own lease and
that of a handler or continuation that keeps it (`RetainRoot`), so that the first
release is not the last; `restart`, whose roots do nothing but be active, has
one. Messages share
nothing but the claims, which are per message, and the order of a drain, which
is open: one message is enough. Two units are one that went through and one that does
not; two retries are a counted failure and the last one; one crash separates
two lives of the process; two failed writes defeat a mark and its first
fallback. Two runners are the one before a restart and the one after it; two
batches are one each, or two of one runner when the first was given up by the
flags. Two targets are the one the interval uses and one beside it, so that
merging, and a batch of more than one wake, happen. Two identities are the
fewest that can be locked in the wrong order; two mutations are one that holds
and one that waits, and one asked for by a turn beside one that interrupts it; a sweep of a kind
may take anything, so a second one adds nothing;
each turn and mutation lives once, since a second life is that of another one.
Bounds appear as guards (`MaxConcurrency`, `MaxGeneration`,
`MaxReferences`, `MaxCrashes`, `MaxFaults`, `MaxBatch`, `MaxRunner`).

Deadlock checking is off in all runs: every entry, root and generation of an
instance is used up at the end, and an idle gateway waits for its environment.

## 4. Fairness

`CommandQueue!Fairness`: an armed timeout fires and the continuation of a
settled race runs; nothing is assumed of bodies. `SuspendCoordinator!Fairness`:
the expiry and retry timers fire, a lease is not renewed for ever, and the
scheduler resumes at one of its retries; nothing is assumed of hosts or roots.
`RestartSignal!Fairness`: hooks settle, continuations run, and a handler that was
called ends in one of its four ways. The drain and the reset of an accepted
restart have no fairness, which is why `FenceIsTransient` stops at its
acceptance.
`OutboundDelivery!Fairness`: requests, writes and reconciliations settle, a
channel drains its rows again and again (WhatsApp by an interval, Telegram at
each polling session), and a backoff passes, so that a drain does not defer the
same entry for ever. A channel that never drains settles its rows at the next
start.
`HeartbeatWake!Fairness`: armed timers fire, a door shut by a restart signal or a
suspension opens again or the drain takes over, and the handler of the live
runner returns, since a heartbeat run has its own timeout; a batch of a stopped
runner may hang for ever.
`SessionAdmission!LiveSpec`: promises and queued tasks go on, the drain has its
timeout, and a sweep that runs in the lane ends; nothing is assumed of the
owners of admissions, who may work for ever, nor of the RPC that is to adopt a
token.

## 5. Proofs

`CommandQueueProofs` proves for every finite set of entries, every set of lanes,
any priorities, limits and number of resets: the types (`TypeCorrect`), slot
accounting (`SlotsAreAccounted`), work conservation (`QueueIsWorkConserving`),
that every pending promise has exactly one owner (`PromisesHaveOwners`) and that
owned runs of a session are serial (`SessionRunsAreSerial`). They rest on the
assumptions about the constants that `CommandQueue` names and on one inductive
invariant, `IInv` (`Invariance`). None of the properties is inductive alone:
slot accounting needs that queued entries are pending and undispatched and sit
in the queue of their own lane once; work conservation needs slot accounting to
know the size of the active set after a completion, and that the lane's limit
is a natural number; session exclusivity needs both and that a session lane's
limit is still 1. A lemma about `Insert` (what it adds and that it keeps entries
distinct) and one about `Drain` (what it leaves in the queue and how many it
starts) carry the steps.

The order of a lane (`EntriesNeverOvertake`) needs a second inductive invariant,
`OrderInv`: of two queued entries the one in front has the higher priority, or
the same and the earlier number; a waiting entry is never behind a dispatched
one it should precede; and no number has been drawn that is not below
`nextSequence`. `InsertKeepsOrder` and `DrainKeepsOrder` carry it: an insertion
keeps a sorted queue sorted, and a pump takes a prefix. That every handler
either pumps or leaves slots and order alone (`Pumps`, `Rests`) is one lemma,
`NextPumps`, which also gives that no step over-admits (`LimitsAreKept`).
`WaitersAreNotForgotten` is inductive with the types: a handler that frees a
slot notifies, and a pump frees none.

`LanesImplementExecutor` puts these together: `CommandQueue` implements
`LaneExecutor`. One lemma per action names the executor's action it is
(`EnqueueSubmits`, `CompleteFinishes`, `StaleCompleteFinishes`, ...); those that
pump rest on `EventStarts`, whose witness for the calls that start is the set of
entries whose race the step has opened. They fit the limit by `PumpStarts`, the
rest waits beside full slots by `WorkOK` of the next state, the order is that of
the next `OrderInv`, and the wake-ups are those of `NotifyFollows` or, where the
code does not notify, of `WaitersAreNotForgotten`. That a reset abandons what
runs is `GenerationAbandons`, which needs that no task is of a generation its
lane has not reached.

`WorkAdmissionProofs` proves all four properties of admission for every set of
chains and every bound (`AdmissionTypeCorrect`, `NobodySleepsBeforeOpenDoor`,
`DrainHasRootToWaitFor`, `IdleStaysIdleBehindDoor`). `AdmissionInv` adds one fact, that an active root holds
a lease. Its lemmas, one per group of actions, serve the next two as well.

That the fences are one door is proved in two parts. `WorkAdmissionProofs` has
one lemma per way to move it: an admission uses the open door or follows a live
root (`AdmissionUsesDoor`), a refusal turns away or lets sleep
(`RefusalUsesDoor`), closing a reversible fence leaves the chains alone and
reopening one wakes them (`FencesMoveDoor`, which needs `ParkedMeansClosed`:
before an open door a wake-up changes nothing), the restart closes the door and
the reset opens it (`RestartClosesDoor`, `ResetOpensDoor`), or puts out whoever
is behind an open one (`ResetFindsDoor`). `SuspensionsKeepDoor`
and `RestartsKeepDoor` sort the actions of their modules among these lemmas. What
each has to contribute is that nobody lets go of a fence behind the door of a
restart: in the coordinator because every entry is ended by the drain
(`LeaseInv`, `FenceHasEntry`), in the restart signal because the pending lease
is tested against it (`RequestSparesDrain`) and the suspension is over
(`DrainEndsSuspension`, an invariant of its own). `RestartsKeepDoor` is about
`DoorIsKeptButReset`; every step but the reset is one of the strict door
(`StepsUseDoor`). From the door follows that an
idle process stays idle (`DoorKeepsIdle`, `IdleStaysIdleInSuspension`).

`SuspendProofs` proves all the safety properties of the coordinator
(`FenceAlwaysHasEntry`, `LeasesAreHonoured`, `PreparedIsIdle`,
`PausedSchedulerHasOwner`). Its `IInv`
adds to them `LeaseInv`: the held lease is committed and paused; once overdue it
is trusted by nobody; its id is known to its holder only, because ids are never
reused; and the restart drain has no suspension beside it. Without the last two,
another host's `Resume` or a lifecycle reset could end a trusted lease.

`RestartProofs` proves all the safety properties of the restart signal
(`SignalStaysBehindDoor`, `FenceAlwaysHasOwner`, `RestartWaitsForSuspension`). Its
`IInv` adds `HandoverInv`, that a pending lease is the one that closed the door
and that a signal on its way has a handler unless the drain has taken over or
the run loop has accepted a restart, and `PreparingInv`, that a live emission which prepares is an active root and that a
prepared suspension has none. `RequestFacts` and `RollbackFacts` say what the
two operators on the fence may do; every action of an emission rests on them.

`OutboundProofs` proves the types, that at most one worker is inside an attempt
at an entry, and that a batch with a durable result is not started again
(`TypeCorrect`, `OneDelivererAlways`, `NoReplayAlways`), for any number of
messages, drains, crashes and failed writes. The type is not trivial here: the
retry count stays within `MAX_RETRIES` only because nobody fails twice in one
attempt. `IInv` therefore adds `Exclusive` (one holder of a claim), `Knows`
(what a worker's local variables say about its row) and `MessageInv` (a row
nobody has claimed was never tried; evidence of a result stays). Every action of
a holder goes through one lemma, `LocalStep`. `NoReplayAlways` assumes
`PlainKinds`, that no adapter with a dispatch hook sends a batch of several
units; section 6 says what happens otherwise.

`OutboundSendProofs` goes on from there: a message of one send is not sent twice
(`NoDoubleSendAlways`), every further attempt is paid for
(`ReplaysAreCountedAlways`) and no required message is lost
(`RequiredIsNotLostAlways`). `JInv` adds to `IInv` what an attempt knows of its
own progress. `MarkInv` says that a worker that noted a mark, an acknowledgement
or a failure left the row like that; `OnceInv` that a single send that was
accepted is over and not proven to have failed; `ProgressInv` that a batch
without a failure has settled every unit before the current one; `PaidInv` that
an attempt is paid for before the row can be replayed, or somebody is still at
work on it; `SentInv` that a row whose message arrived still shows it. None of
the three properties is inductive without these: what forbids the second send
is the row, and the row is only as good as what every way out of an attempt
writes to it. All writes that end an attempt go through one lemma, `EndByWrite`,
which lists what such a write must not do. `NoDoubleSendAlways` assumes
`MarkedKinds`, that an adapter that looks for marks gets one with each of its
sends; the run `delivery_doc` shows what happens otherwise.
`ReplaysAreCountedAlways` assumes `PlainKinds`.

`DeliveriesKeepLedger` says that the queue implements `DeliveryLedger`, under both
assumptions. All steps of an attempt but one are its record: they move one worker
within its message or out of it, settle at most its row and put at most its
result on record (`Records`, one lemma per action, and `RecordsKeepLedger`). The
answer of the platform is an arrival, the first of a single send by `OnceInv`
(`ArrivalsKeepLedger`). An attempt begins in three places, the claim of a live
sender, a replay and a reconciliation (`BeginningsKeepLedger`): the row is pending,
in the first because nobody settles a row that its sender has written and not
yet claimed (a part of `MessageInv`); no result is on record by `MessageInv`; the
single send has not arrived by `SentInv` or the adapter's answer; and nobody else
is at work by `Exclusive`. The disposals of a drain are those of an entry that
nobody is at work on (`DrainAlone`).

The other assumptions are those about the constants that the modules name.

`HeartbeatProofs` proves the types, `WakeHasTimer`, `IntervalGoesOn` and the
action property `WakesAreKept` for any targets, batches and runners. The last
one says that nothing but an answer makes a wake disappear, and the "disabled"
of a stopped runner is an answer: the wakes still in its batch do not come back.
`WakeHasTimer` is inductive with the types. `IntervalGoesOn` needs `BatchInv`:
only a batch in use belongs to a runner, and the wakes
ahead of it are ones that were asked for. What a
coalescing or a put-back does to priorities is a lemma about `Merge`.

`SessionProofs` proves the types (`TypeCorrect`), the refinement
(`Refinement`: every step of `SessionAdmission` is a step of `SessionExclusion`
or changes nothing of it), that interrupts reach the owners (`OwnersCorrect`)
and that a turn at work loses its session to nothing but its own mutations and
maintenance of the SQLite store (`LossesAreEvictions`), for any turns, mutations,
identities and sweeps of the three kinds. The refinement rests on `Inv` (`InvCorrect`). A turn
being admitted holds its locks (`LocksAreHeld`), so no mutation of its session
can become active (`EntranceIsQuiet`), so nobody joins the admissions a drain
has collected (`DrainIsComplete`): that is why a mutation may let go of the
locks while it drains. Two changes exclude each other by the locks alone. The
exception for the turn that asked needs that it is still there and has a handler
(`InBandStays`, `TokenIsCurrent`). `LossesAreEvictions` adds that a planned
removal in the lane touches nobody who works (`SweepIsHarmless`); of the other
two kinds it says only what they removed, which is what section 6 is about.

Model-checked only are the liveness properties (`NeverWedged`, `SuspensionEnds`,
`FenceIsTransient`, `EntrySettles`, `WakeIsHandled`, `EverythingSettles`): they
rest on fairness, and `ENABLED` is out of the prover's reach. Every other
property of a passing run is a theorem. Four more (`NoOverAdmission`, which
`LanesAreExecutors` contains, `ParkedMeansClosed` and `DrainWaiterHasRoot`, which
`DoorIsKept` contains, and `NoReplayAfterResult`, which `LedgerIsKept` contains)
are theorems that need no run of their own.

## 6. Findings

`docs/concepts/queue.md` says that a session lane guarantees a single run per
session. The lane guarantees one run that it has not given up: a run that loses
against its lane timeout, or whose lane is reset by recovery, keeps running
until its abort takes effect, and the next one starts beside it. The run
`queue_session_doc` shows it; `OneOwnedRunPerSession` is what does hold, and is
proved.

The comment before `emitPreparedGatewayRestartUnderAdmission` says that two
bodies never interleave, since a second emission waits for the fence. But every
handler of SIGUSR1 that is not authorized, or fails, drops the pending lease,
whose owner may still await its hooks, and reopens the fence; the second
emission then prepares beside the first. The run `restart_doc` shows it in four
steps. What does hold: the fence never reopens over a signal on its way
(`SignalBehindDoor`), and a suspension still cannot be prepared, because the
emission is a root (`SuspensionDefersRestart`).

ClickClack's adapter says that it can reconcile an interrupted send, and looks
for a message with a nonce made of the queue id. It gets that id only for exact
deliveries; every other send carries no nonce, is not found, and is answered
`not_sent`. Recovery believes that and sends again what may have arrived; a
live send that timed out is enough, no crash is needed. The run `delivery_doc`
shows it. With adapters that see what they sent, or do not answer for it,
`NoDoubleSend` holds.

The model leaves a second one out of its instances: an adapter that calls the
dispatch hook for every part of a message overwrites, with the second part, the
evidence that the first part arrived
(`markDeliveryPlatformSendDispatched`). A `not_sent` about the rest then replays
the whole message, and since such a replay fails with evidence of a send its
retry is not counted. With kinds that are `hooked` and have two units,
`NoReplayAfterResult` and `ReplaysAreCounted` fail. ClickClack's nonces make
such a replay harmless; nothing in the queue does.

`heartbeat enable` is documented to turn heartbeats back on. While they are
disabled the handler answers an interval wake before the `try` whose `finally`
arms the next one, and enabling only sets the flag: if the interval came due
meanwhile, heartbeats stay away until another wake or a new configuration. The
run `heartbeat_doc` shows it; `IntervalGoesOn` holds with that exception.

A turn registers its admission before it crosses the writer barrier, so that
maintenance preserves it or has committed before (the comment at the barrier),
and the collector of protected keys says that it collects every active-work key
protected from automatic maintenance. Of the SQLite store, which the running
gateway uses, this does not hold. Every write of a row runs
`applySqliteSessionEntryMaintenance`, which protects the row written, its parents
and what the key providers name, and removes the stale rows, those over the cap
and those over the disk budget among all others, admitted or not. So a message
in one session can take the row of a turn at work in another, and archive its
transcript, when that is old or one too many. The run `session_doc` shows it. With
`RowSweep = {}` the same run shows a narrower form: the registry's sweep does ask
for the admissions, and then removes behind an await in the SQLite writer's
queue, so it takes the session of a turn that was admitted in between (rows of
cron runs past their retention only, and only if nothing has changed in them).
What does hold is `LossIsEviction`: mutations of others and the file-backed
maintenance never take the session of a turn at work.

One consequence has no run of its own. The run loop clears
`restartDrainingMarked` before the awaits of the iteration hook, "so a failed
reload cannot skip the next drain" (`run-loop.ts`, at the loop's head). A SIGUSR1
that is accepted during those awaits sets it again, finds nothing to drain, and
is queued for the server; the reset then opens the admission and leaves the
mark, so `markRestartDraining` of the queued restart does nothing. It drains with
an open door: roots are admitted until the next reset, which retires them. In
the run `restart` the strict `DoorIsKept` of the coordinator would be violated by
this; `DoorIsKeptButReset` is what holds.

## 7. What is not modelled

Adapters to external services (channels, providers, speech, media), stores and
presentation have little control of their own. The agent loop depends on
external answers; what it does to lanes is in the queue module. Of heartbeats,
due times, the cooldown, the flood guard, active hours and what a heartbeat says
are left out; of session admission, calls that reenter a lock they hold, the
compaction kind, several stores and the counters that other parts read; of the
run loop, SIGTERM, respawning and what a shutdown does besides draining. Claims
of the delivery queue live in one process: a second process on the same state
directory is not modelled. See the notes in `PROJECT.json`.

## 8. Plan

1. `ProcessSupervisor` and `GatewayLock`: runs that end once, one gateway per
   state directory.
2. `NestedLanes` over the command queue's promise: no deadlock between lanes.
3. `FollowupQueue` over `SessionAdmission`, `DesktopShell`.
4. Reentrant admissions and the compaction kind of `SessionAdmission`.
