# Ethos: a verification development

Ethos runs personal agents: messages arrive from chat platforms, an agent loop
turns each into a reply, and around that core stand background jobs, goals,
boards, approvals and schedules, all persisted in SQLite and files and all
expected to survive a killed process.  This directory holds TLA+ models of the
parts where order, crashes and races decide whether a message is lost, answered
twice or sent to the wrong state, the TLC configurations that check them and the
proofs TLAPS checks.

Paths are relative to the repository; `GW` abbreviates
`extensions/gateway/src/index.ts`, `IS` `extensions/inbound-spool/src/index.ts`,
`DL` `extensions/delivery-ledger/src/index.ts`, `JS`
`extensions/job-store/src/index.ts`, `JR` `extensions/job-runner/src/index.ts`, `KS`
`extensions/kanban-store/src/index.ts`, `KP` `apps/ethos/src/lib/kanban-poll.ts`, `CB`
`packages/core/src/clarify/clarify-bridge.ts` and `CR` `extensions/cron/src/index.ts`.

## 1. The system

### Components, their state and their operations

| Component | State it keeps | Operations | Talks to |
|---|---|---|---|
| **Inbound spool** (`inbound-spool`) | one row per accepted message: status, attempts, owner, `tool_started`, `absorbed_into`, payload | accept, markProcessing/Done/Failed/Interrupted/Dead/Absorbed/ToolStarted, unlinkAbsorbed, claim, recoverOrphans, releaseOnShutdown, retryInterrupted, requeue, discard, listings, prune | written by the gateway and by `ethos gateway spool` |
| **Gateway lanes and turns** (`gateway`: dispatch, `SessionLane`, turn, shutdown, replay) | per lane: queue, running turn, steer sink, watched flag; process: owner identity, closing flag, replay in progress | handleMessage, dispatch (consume, steer, queue, retry, stop), turn start/tool/seam/terminal/tail, shutdown, replay | spool, ledger, agent loop, adapters |
| **Delivery ledger** (`delivery-ledger`) | one row per owed reply: status, attempts, backoff, claim | record, markDelivered, claimRedelivery, release, deferRetry, abandon, reclaimStale, abandonStale, prune | written by every gateway process on the file |
| **Redelivery sweep, live send** (`gateway`, `delivery.ts`) | in-flight registry, single-flight sweep, `reclaimed` mark | sendTracked, sweep on a timer and at boot | ledger, adapters |
| **Inbound dedup** (`inbound-dedup`) | sightings with a TTL | seen | gateway |
| **Turn semaphore** (`gateway`) | permits, waiters | acquire (abortable), release | lanes |
| **Job store and runner** (`job-store`, `job-runner`) | a job's status, owner, heartbeat, steers, delivery claims | enqueue, claimNextQueued, heartbeat, markBlocked, resume, finish, cancel, reclaimStale, expireQueued, claimDelivery | processes sharing one database; gateway delivers notices |
| **Outbox** (`outbox`) | a publication awaiting a human: status, approval, expiry, claim | propose, attachReview, approve, edit, reject, revoke, retry, claim, markSent/Failed/Unconfirmed, expire | humans on several surfaces; ledger |
| **Kanban board and dispatcher** (`kanban-store`, `team-supervisor`) | tasks, links, runs, heartbeats, budgets | create, promote, claim, heartbeat, complete, block, reclaim stalled | worker processes |
| **Goals** (`goal-store`, `goal-runner`) | goal status, attempts, verdicts | start, attempt, judge, pause, resume | job runner, agent loop |
| **Cron** (`cron`) | one file of jobs (status, schedule, next time, running stamp, count) under a lock; per process the last tick, runs in flight, deferrals | tick (recompute, retire, defer, skip, claim, run, record), run now, create, update, pause, resume, delete | jobs lock, agent loop, other processes through the file |
| **Clarify** (`packages/core/src/clarify`) | per agent loop: pending questions, timers, one occupant and one queue per lane; one file of rows that all processes share | request, respond, fireTimeout, pollForAnswers, sweep, hydrate | agent loop, surfaces, other processes through the file |
| **Approvals, worker router** (`agent-bridge`, `worker-router`) | pending approvals and scopes | ask, answer, escalate | several surfaces |
| **Locks** (`wiring/src/gateway-lock.ts`, `backup/sentinel-lock.ts`, `cron/src/jobs-lock.ts`) | a lock file and its bytes | acquire with takeover, release | processes |
| **Notify queue, pause clock, idle watcher** | held notices; suspension spans | push, drain; pause, resume | dispatcher, job runner |
| **Agent loop** (`packages/core`) | the conversation of one turn | run, stream events, drain steers at seams | tools, providers |
| **Safety, stores, adapters, A2A, surfaces** | policies, records, connections | classification, append/read, I/O | |

### How they meet

A platform adapter calls `handleMessage`.  `acceptInbound` commits the spool row,
then the dedup sighting, and starts the dispatch; all of this is one synchronous
stretch (`wireAdapterInbound`, GW:5633).  The dispatch awaits several times before
it reaches the lane: there the message is consumed by a filter or a command,
pushed into the running turn's steer sink, or queued as a turn.  The turn takes a
permit, marks its row `processing`, runs the agent loop, which drains steers at
its seams, and at the loop's terminal event begins the delivery: a ledger row is
committed, the platform called, the row confirmed.  Only then is the spool row
settled.  A killed process leaves both tables; the next boot frees the rows of
dead owners, and its replay decides row by row with the help of the ledger
(`hasObligationFor`).  The ledger's own sweep sends again what was never
confirmed.  `shutdown` interleaves with all of this, and an operator can requeue
or discard rows from another process.

### What is hard

* a kill between any two writes, and a second kill during the recovery;
* state read before an `await` and used after it (the interrupted row a message
  found; the turn a steer was addressed to; the attempts a listing returned);
* the terminal event, an abort and the beginning of a shutdown, which in one
  instant decide what happens to unread steers;
* two senders of one reply: live send, timer sweep, boot sweep, another process;
* claims judged stale by age while their holder is only slow;
* a row closed in one place while a queued task in another still holds it;
* a file that two processes rewrite, each from its own reading of it;
* a scan that runs turns on its way, and goes on deciding from what it read before them.

### What makes each component correct

| Component | Properties | Where |
|---|---|---|
| Ledger and sweep | one sender per reply; duplicates only after faults; given up only for a named reason; a settled promise stays settled; everything owed is settled in the end | `DeliveryLedger`, `DeliveryPromise` |
| Spool, lanes, turns | a task the process holds is owed on disk and owned by it; nothing accepted is lost; tools are not repeated; one recorded reply; a message kills at most `spoolMaxAttempts` processes; everything owed is settled | `InboundSpool`, `GatewayTurns` |
| Lane map and permits | permits add up whatever is aborted when; one turn of a chat at a time; every message comes to an end | `TurnLanes` |
| Jobs | one process runs a job, on a row that is its own; an end is final; no live run is filed stale unless it missed its beats; steers are reported as what became of them; a completion is announced once; nothing stays queued or running for ever | `BackgroundJobs` |
| Outbox | what is sent is what a human still approves; one publisher; one owner of the retry; `not sent` is true; everything proposed is decided | `Outbox` |
| Board | one open run per ticket; every further run is charged and none opened past the budget; no ticket stays claimed for ever | `KanbanBoard` |
| Locks | one holder; nobody's lock is taken while nothing was abandoned; an abandoned lock is removed | `FileLock` |
| Clarify | a lane asks one question at a time; no bridge shows a question twice; every agent that asks is let go; every row leaves the file | `ClarifyBridge` |
| Cron | no second copy of an existing job beside a running one; an occurrence runs once; no job ends without a run or a reason; no active job stays due for ever | `CronJobs` |
| Goals, approvals | attempts bounded and resumed once; one answer wins | not modelled |

## 2. The modules

```
DeliveryPromise                what the ledger promises about a reply (abstract)
     ^ implemented by
DeliveryLedger                 ledger rows, live sends, sweep, retention, crashes
     ^ extended by             DeliveryLedgerProofs, MC_DeliveryLedger

InboundSpool                   the spool's methods as operators on its table
     ^ extended by
GatewayTurns                   one lane over the spool: dispatch, turn, shutdown, replay
     ^ extended by             GatewayTurnsProofs, MC_GatewayTurns

TurnLanes                      several lanes: the map, SessionLane, TurnSemaphore
     ^ extended by             ExclusionProofs, MC_TurnLanes

BackgroundJobs                 job rows, executors, sweeps, steers, completion notices
     ^ extended by             BackgroundJobsProofs, MC_BackgroundJobs

Outbox                         publications, humans, dispatchers, and the ledger rows they leave
     ^ extended by             OutboxProofs, MC_Outbox

KanbanBoard                    tickets and runs, poll loops, dispatcher, agents, human edits
     ^ extended by             KanbanBoardProofs, MC_KanbanBoard

FileLock                       the sentinel lock and the jobs lock, call by call
     ^ extended by             ExclusionProofs, MC_FileLock

CronJobs                       jobs.json, overlapping ticks, run-now, edits, stamps of runs
     ^ extended by             CronJobsProofs, MC_CronJobs

ClarifyBridge                  questions to a person: lanes, timers, one file, several bridges
     ^ extended by             ClarifyBridgeProofs, MC_ClarifyBridge
```

`ExclusionProofs` extends two components, which is why `FileLock` calls its parts
`LockInit`, `LockNext` and so on.  The modules meet at these seams.  `GatewayTurns` keeps of the ledger only whether a
row's reply is recorded (`RecordReply`), which is what `hasObligationFor` asks;
`BackgroundJobs` ends at the record of a notice (`RecordNotice`).  From either
record on, `DeliveryLedger` says what happens.  `Outbox` carries of the ledger what
its reconciler asks (`findBySession`) and what can make that answer wrong: a failed
write, the ledger's own redelivery and its retention.  `TurnLanes` is the composition
of lanes that `GatewayTurns` leaves out: there a turn that waits for a permit is still
queued, and its lane never leaves the map.  `FileLock` is what `OneOwner` and "one
process per lane" rest on, and every write of `CronJobs` is one critical section of it;
`CronJobs` takes that exclusion for granted, which finding 2 shows is not quite so.

### DeliveryLedger

The rows of the ledger are functions of the reply (`status`, `attempts`, `due`,
`age`, `claimAge`).  Time is kept only as what the code compares it with: `age` is
`young` inside the sweep's grace, then `settled`, then `expired`; `claimAge` says
whether a claim is older than `DELIVERY_CLAIM_STALE_MS`; `due` whether
`next_attempt_at` has passed.  A process has `live` (the stage of each first send),
`phase`, `todo`, `cur` (its single-flight sweep) and `snap`, the attempts its
listing returned, which is what the cap is computed from.

| Code | Actions |
|---|---|
| `sendTrackedDetailed`, `beginDelivery`, `confirmDelivery` | `BeginDelivery`, `LiveAccepted`, `LiveConfirm`, `LiveConfirmFails`, `LiveTakenUnseen`, `LiveRefused` |
| `sweepDeliveries`, `sweepDeliveriesOnce` | `SweepReclaim`, `SweepList`, `BootSweep`, `SweepSkip`, `SweepClaim`, `SweepAccepted`, `SweepConfirm`, `SweepConfirmFails`, `SweepTakenUnseen`, `SweepRefused`, `SweepSettleFails`, `SweepEnd` |
| retention pass | `AbandonStale`, `PruneDelivered` |
| time, kill, restart | `AgeRow`, `AgeClaim`, `BecomeDue`, `Crash`, `Boot` |

Several processes may share the file; `Serves[p]` says which replies' bots a
process runs.  `OneOwner`, that no two serve the same bot, is what the gateway's
lock on its state directory enforces; it is an assumption of the theorems that
need it, and the others hold for two gateways on one bot too.  A claim goes
stale under its holder when a platform call, which nothing bounds, takes longer
than five minutes; such slow sends are counted with the other faults (failed
writes, lost answers) under `MaxFaults`.  Without a bound on them there is a
behaviour in which a reply is never settled: every redelivery is slow and
refused, a peer's sweep reclaims the row each time, so `deferRetry` and `abandon`
find it no longer `redelivering`, no attempt is counted, and only
`abandonAfterDays` ends it.
`accepted`, `refused`, `hopeless` and `faults` record what really
happened and are read by properties only.

Outside: a reply the ledger failed to record (the send goes on untracked), the
size cap and the voice artifacts of `pruneVoiceArtifacts`, the text of a reply.
A streamed reply goes through the same record, made by `DraftStreamer`'s delivery.

### InboundSpool

One operator per method, each a SQLite transaction: it takes the table and
returns the table, so a handler that calls several in one synchronous stretch is
one action.  A row's number is its place in `(received_at, rowid)` order.  A
payload is the set of platform messages whose text it carries; `done` erases it,
as `closePayload` does.

### GatewayTurns

One lane (two lanes share no row; adapters and bots are always present), and one
gateway process at a time.  Memory: `phase`, `owner`, `watched`
(`interruptedLanes`), `recovered`, `replaying`, `visited`, `inbox` (calls of
`handleMessage` on their way to the lane, with the interrupted row each found when
it began), `queue`, `turn` with its unread steers.

| Code | Actions |
|---|---|
| `handleMessage`, `acceptInbound` | `Receive` (a redelivered message finds its row and does nothing), `CrashInAccept` (a kill between row and sighting) |
| `dispatchInbound` | `Consume` (filter, clarify answer, command, full lane, no bot), `Steer`, `EnqueueTurn`, `Retry`, `Stop` (`/stop`; `/new` aborts a lane the same way) |
| `enqueueTurn`, `SessionLane` | `StartTurn` (a turn that waits for a permit is still queued), `RefuseAtCap` |
| `runTurn` and its tail | `StartTool`, `ReadSteers`, `Terminal`, `RecordReply`, `SendReply`, `FinishTurn`, `ThrowTurn` |
| `shutdown`, kill, restart | `BeginShutdown`, `AbortLanes`, `Exit`, `Crash`, `Boot` |
| `replayInboundSpool` | `BeginReplay`, `ReplayStale`, `ReplayAnswered`, `ReplayInterrupted`, `ReplayExhausted`, `ReplayTurn`, `EndReplay` |
| `ethos gateway spool replay`, `discard` | `Replay`, `Drop` |

Whether a message is steered or queued is left open wherever the code's answer
depends on data (sink full, sink replaced meanwhile, `/queue`).  Which of several
interrupted rows a `retry` takes (the code: the one updated last) is left open too.

Outside: writes that fail (the code goes on without a row, or with one that no
longer tells its state: it fails open and promises nothing), `wake_review` rows,
the dedup table's TTL, pruning of old rows, the 24 h window of `retry`, replies
suppressed because an identical one was just sent.

### BackgroundJobs

Processes that share one database, each with one executor and one gateway of one
bot.  The rows are functions of the job (`status`, `owner`, `age`, `error`,
`steer`) and sets (`cancel`, `delivered`).  `age` is what the sweeps compare: a
queued row beyond its TTL, or a running one without a heartbeat for `staleMs`.
A process draws a fresh owner identity at each start; the model keeps its name
and passes its rows to `Nobody` when it goes down.  `Released` is the label
`releaseQueued` moves rows under and `claimNextQueued` adopts them from.  Memory:
`stage`, `outcome`, `sink` and `cancelled` of each run, `parked` (`blockedJobs`),
`wakes` (notices a gateway means to send), `sending` (claimed by `claimDelivery`,
not yet in the ledger).

| Code | Actions |
|---|---|
| `store.create`, `claimRows`, `claimNextQueued` | `Create`, `Claim` |
| `runOne` | `RefuseAtCap`, `BeginRun`, `Event`, `EndRun`, `Throw`, `Finish` (the terminal branch, `store.finish`, the sweep of its steers and the completion callback) |
| `markJobBlocked`, `resumeJob` | `Block`, `Resume` |
| heartbeat timer, `observePass`, the sink's drain | `Beat`, `Observe`, `ReadSteer` |
| `JobControl.stop`, `.steer` | `Cancel`, `AddSteer` |
| `reclaimStale`, `expireQueued` | `Reclaim`, `Expire` |
| `sweepUndeliveredJobs`, `flushWakes`, `deliverCompletion` | `SweepUndelivered`, `ClaimNotice`, `RecordNotice` |
| `drain`, `shutdown`, kill, restart | `BeginDrain`, `HandOn`, `BeginShutdown`, `EndDrain`, `Exit`, `Kill`, `Boot` |
| time | `GrowOld` (nobody beats for the row), `Stall` (a live executor misses its beats) |

A job has at most one steer; its text and order are data.  `Throw` stands for
every exception inside the run's own `try`.  `heard`, `stalled`, `filed`,
`announced`, `cut` and `late` record what really happened and are read by
properties only.

Outside: retention (`pruneTerminal`), `bumpRunningHeartbeats` after a suspension,
`releaseDelivery` (used without a ledger), jobs run remotely, jobs whose parent
reviews the result, notices held for quiet hours, the run's digest, text and log
rows, several affinities in one database, a terminal write that itself fails.

Four things the properties state with their exceptions, because the code has them:

* a steer drained by a run that a sweep had already filed stale stays `unread`
  although the model saw it (`filed` in `SteersAccounted`);
* a process that dies between `claimDelivery` and the ledger's record takes the
  notice with it (`cut` in `EventuallyAnnounced`);
* a row queued by a tool call that outlives the hand-over of a shutdown belongs to
  an identity nobody has, and expires (`late` in `GracefullyHandedOn`);
* a run that throws because it was cancelled takes the catch path, which knows
  shutdown but not cancel (JR:990): it is filed `failed` and announced.
  `AnnouncedOnce` therefore speaks of jobs filed as cancelled.

### Outbox

The rows (`state`, `rev`, `reason`) and the three clocks the code compares with
(`late`, `lapsed`, `due`); the ledger row of each publication (`ledger`, `aged`); and
per gateway the stage of its dispatcher, the rows its last query listed, the one in
hand, whether `beginDelivery` got a row and what the platform answered.  A text is its
revision number: a revision is immutable, and the hash in the approval binds it.

| Code | Actions |
|---|---|
| `propose`, `attachReview`, `edit`, `approve`, `reject`, `revoke`, `retry` | the actions of these names |
| `tick` | `RunExpiry`, `ReleaseReviews`, `AskLedger`, `ReconcileSending`, `ListClaimable`, `EndTick` |
| `deliverOne`, `deliverPublication`, `sendTrackedDetailed` | `Claim`, `Skip`, `Refuse`, `Record`, `HandOver`, `Answer`, `Mark` |
| the ledger beside it | `SweepLedger`, `PruneLedger` |
| time, kill, restart | `TurnsLate`, `Lapse`, `FallsDue`, `Outage`, `Crash`, `Boot` |

The web may decide at every step, from another process.  Two things the code does in
one synchronous stretch are kept so: a dispatcher does not wait between its claim and
the platform call, so the claim does not grow stale there, and a human cannot answer
a card that is being written (`AtWork`).  `leave` and `called` record the human's last
unused yes and whether the platform was called since.  Outside: approval cards, audit
rows, a ledger that cannot be read (the row stays `sending`), a gateway without one.

### TurnLanes

The map as a function from chats to lanes, with its insertion order as a relation
(`older`), which is all that eviction reads of it; lane objects as values (a chat whose
lane was evicted gets another), `TurnSemaphore` as a count and a queue of waiters, `activeTurns`
and `activeSinks` by chat.  A message is in its *hook* from `getOrCreateLane` (GW:3548)
to `lane.enqueue`: between them the code awaits commands and the claiming hook with
the lane object in a local variable.

| Code | Actions |
|---|---|
| `dispatchInbound` | `Arrive`, `Steer`, `Offer` (with the busy refusal), `Consume`, `Stop` |
| `enqueueTurn`, `SessionLane.drain` | `OverCap`, `Acquire`, `LeaveLane`, `EndTurn` |
| `runTurn` | `BeginTurn`, `SealSink`, `EndTurn` |

`astray` holds the chats whose lane left the map while a message held it; a lane `/stop`
creates and loses at once is held by nobody.  Outside:
the spool, and with it unread steers that go back into the lane (`requeueUnreadSteers`; both in
`GatewayTurns`), adapters removed while they run, `/new`, wake reviews.

### KanbanBoard

Tasks (`status`, `current`, `retries`, `blocks`), runs (`ticket`, `outcome`,
`starter`), the agent of each run (`work`), the dispatch calls in flight (`calls`), and
of each loop the stage of its tick and what it listed (`loop`).  A store call is one
SQLite transaction; between its listing and its writes a loop can be overtaken by every
other process.  Time is abstract: an open run is `fresh` or `quiet`, and a run that no
timer heartbeats may turn quiet at any moment, which covers every threshold.

| Code | Actions |
|---|---|
| `KanbanPollLoop.tick`, `Dispatcher.tick` | `List`, `Promote`, `Stall`, `Reclaim`, `Claim`, `PassOver` |
| `fireDispatch`, `/notify` | `NotifyArrives`, `CallEnds` |
| the member's lane and its heartbeat timer | `Start`, `GoesQuiet`, `TurnEnds` |
| the agents' tools | `Heartbeat`, `AskVerifier`, `Verdict`, `BlockTicket`, `ClaimByTool` |
| the board's page, `kanban_unblock` | `Edit` |
| kills, `stop()`, restarts | `Crash`, `Restart`, `StopDispatcher` |

The retry count is kept up to one past the budget: counts beyond are not told apart.
A person's `Edit` asks for `ready` or archives; `updateStatus` accepts other targets by hand,
which are outside.
Outside: `rollupCompletedGoals`, `adoptOrphanTickets`, scheduled tickets, swarms, links
and comments, bulk updates, tier budgets, passive notification, dispatch as a
background job, heartbeat bumps after a suspension, the per-profile WIP cap; an agent's
tools name the ticket of its own run.

### FileLock

Both protocols, chosen by `confirms` in the initial state (the sentinel reads its file
back, the jobs lock does not), with or without boot ids.  Every system call is a step:
the exclusive create, the write of the body, the confirming read, the waiter's read,
its judgement, its re-read, its unlink, and the same for a release.  A file is its
writer, token, boot and whether the body was written; a process is a pid, and a
program started later may wear the number of one that died.  `robbed` records that an
unlink removed a file other than the one its caller judged from a process that counted
on it.  Assumed: nobody takes `unreadableStaleMs` from the create to the write, or from
a read to the check of an age.

### CronJobs

`file` is `jobs.json`: a row per job with its schedule (recurring, or the time of a
one-shot), `nextRunAt`, the stamp `runningSince`, its count and limit, and what
`lastError` is about.  A stamp is the number of the run that wrote it: `gone` are the
runs whose process died (`runOwnerAlive`), `aged` those whose stamp is older than
`staleMs`.  A runner is a tick or a `run now`; a process has as many at once as the
constants give it, since the interval fires without waiting for the last tick.  A tick
holds the clock and the rows it read when it started; the list is worked off in any
order.  `since` is when a process last ticked or started (CR:1220); `Callers` are the runners
that may be a `run now`.  `life` (how often a job was created), `overtaken`, `rewound` and
`unstamped` record what really happened and are read by properties only.

| Code | Actions |
|---|---|
| `tick`: its reading | `Fire` |
| `tick`: not due, at the cap, no time left, missed | `PassOver`, `Defer`, `WriteTime`, `Retire` (both ways to it: the elapsed one-shot and `skipMissed`) |
| `claimDueJob` | `WinsClaim`, `LosesClaim`, `PassesOccurrence` (overlap, active hours) |
| `executeJob`, `runTurnCapped`, `clearRunning` | `EndRun`, `Release`, `TurnSettles` |
| the count and retirement after a run, `recordRunFailure` | `Settle` |
| `runJobNow` | `AsksRunNow` (the read without the lock), then under the lock `RunNow` or `RunNowRefused`, then the same end |
| `createJob`, `deleteJob`, `pauseJob`, `resumeJob`, `updateJob` | the actions of these names |
| a lock that is not to be had | `LockFails` (every caller but the edits goes on without the write; a `run now` is not run at all) |
| time, kill, restart | `TimePasses`, `Ages`, `Crash`, `Restart` |

What a tick decides and what it writes for one job are one step, although the code
awaits the lock in between; the decision comes from the tick's own reading, so only the
check of the cap could tell the difference (finding 17).  `runJobNow` reads the job and takes
the lock in two steps, and of a row that is gone by then it has no stamp to be refused by and
none to leave: its run is `unstamped`, and `OneCopy` says nothing of it (finding 20).
`resumeJob` reads the job before its transaction too; the model reads it in it, since all the
old reading decides is a next time from an older schedule, which `SetsBack` notes like any
other.  Ids come from names (CR:758), so a job may be deleted and created again under one id:
a run counts for the life its row was in when it was claimed or asked for under the lock, and
`OneCopy` is about one life.  Whether a job is outside its active
hours is open.  `once` is a limit of 1.  Outside: scripts, prechecks, delivery and its
notices, system jobs, the history of runs, progress, the backend that arms a wake-up,
and edits that leave the schedule alone (no property reads what they change).

### ClarifyBridge

The file is a function from questions to rows; a bridge's memory is a record (`mem[b]`:
the map `pending`, which of its entries a live `request()` awaits, the armed timers,
each lane's occupant and queue, and the writes that stand in the store's mutex).  The
methods are operators on that record, so a stretch of code without an `await` is one
step.  A write is two: `ReadFile` takes the whole file, and the write puts the whole file
back with one row changed.  What the awaiting method does next happens with that second
step.  `hydrate` does its lanes one after the other without an `await` between them; the
model says what each lane comes to (`Adopt`, `DrainLanes`) and leaves open in which order
the lanes call `presentNow`, since that follows from the order of the rows in the file.

| Code | Actions |
|---|---|
| `request`, its abort signal | `Ask`, `Requested`, `Abort` |
| `presentNow`, `drainLane` | `PresentNow` and `DrainLane` within the others, `Presented` |
| `respond` | `SendReply` (held here, or answered through the file), `Settled`, `Answered` |
| `fireTimeout`, `pollForAnswers`, `sweep`, `hydrate` | `FireTimeout`, `PollForAnswers`, `Sweep` with `Reaped`, `Hydrate` |
| `FileClarifyStore.mutate` | `ReadFile`, `WriteFile` |
| time, kill, restart | `DeadlinePasses`, `Crash`, `Restart` |

A bridge adopts only rows of surfaces it presents (`Presents`).  In the runs the second process
presents nothing, as a web process beside a gateway with one bot per platform; a gateway with two
bots on one platform has two bridges that present the same surface (`gateway.ts:2830`,
CB:868-870), which is finding 21 and is covered by the theorem about `PromptedOnce`, whose
statement is about each bridge.  `Ask` waits for the first `hydrate`, as the gateway does, which hydrates
before it starts its adapters; with the boot profile the bots' bridges hydrate after
them, which is outside.  `clobbered` holds the rows that a peer's whole-file write took
back to what it had read: the store documents that its writes are "UNTORN, not ISOLATED",
so the properties say nothing of such rows, and `LaneAsksOne` nothing of their lanes: a row
that is taken back can let a later question of the lane go before one that was not.  Outside: presence
and origin routing, the takeover answer gate, the surfaces' own update of `messageId`,
the escalation notifier, defaults offered at a time-out, `onResolved` listeners,
`cancelJob`, `/cancel` of queued rows, and a store call that throws (`store.remove`
failing leaves its lane taken).

## 3. What TLC checks

| Run | Instance | Shows |
|---|---|---|
| `ledger_one_owner` | a gateway and a peer on one file, 1 reply, 1 crash, 2 faults, cap 2, fairness | `DuplicateNeedsFault`, `GivenUpForAReason`, `EventuallySettled`; the ledger implements `DeliveryPromise` |
| `turns_faults` | 2 messages, 2 kills, 1 shutdown, 1 throw, `spoolMaxAttempts` 1, fairness | `TypeOK`, `HeldRowsOwed`, `OnlyAstrayLost`, `CrashLoopBounded`, `RepliedOnce`, `EventuallySettled` |
| `turns_commands` | a message, a `retry` and a `/stop`, 1 kill, 1 operator command | `OnlyAstrayLost`, `ToolsNotRepeated` with rows requeued and discarded by hand |
| `turn_lanes` | 2 chats, 3 messages, 1 permit, a map of 1 lane, 2 `/stop`, fairness | `TypeOK`, `PermitsAccounted`, `OneTurnBarringEviction`, `EventuallyEnds` |
| `jobs_lifecycle` | 2 processes, 1 job, 1 slot, a cancel, a steer, 1 kill, 1 drain or shutdown, 1 stall, fairness | `OneRunner`, `NoFalseStale`, `SteersAccounted`, `AnnouncedOnce`, `GracefullyHandedOn`, `EventuallyEnds`, `EventuallyAnnounced` |
| `outbox` | 2 gateways on one bot, 1 publication, 2 revisions, 2 yeses, 2 crashes, 1 refusal, 1 failed ledger write, 1 outage, fairness | `OnePublisher`, `NotSentIsTrue`, `PublishedByLeave`, `OneRetryOwner`, `EventuallyDecided` |
| `kanban` | 1 ticket, 1 member with its loop, the dispatcher, 3 runs, 1 retry, 1 edit or crash, fairness | `ClaimsAccounted`, `OpenRunsEnd` |
| `cron` | 1 job, 2 runners of 1 gateway (ticks, one of them or a run-now), recurring or one-shot, 2 runs, 2 edits, 1 run-now, 1 fault, at most 3 of these, fairness | `FiringsAccounted`, `NoneStuck` |
| `file_lock` | 2 processes, both protocols, with and without boot ids, 1 death, 1 reboot, 1 failed write, fairness | `OneHolder`, `KeptFromTheLiving`, `AbandonedIsReclaimed` |
| `clarify` | 2 questions of one lane, the asking bridge and a second process on the file, 1 reply or abort, 1 crash, fairness | `TypeOK`, `LaneAsksOne`, `PromptedOnce`, `AskersReleased`, `RowsReaped` |
| `jobs_lock_two_writers` | 3 processes, 1 death | violates `OneWriter` |
| `clarify_told` | 1 bridge, 2 questions of one lane, 1 reply, no crash | violates `ToldIsReceived` |

Every safety property of these runs is proved as well (section 4).
Types are checked here for `GatewayTurns`, `TurnLanes` and `ClarifyBridge` only; those of
the other modules are theorems, as are `SingleSender` of the ledger and `EndIsFinal` of the
jobs, which no run repeats.

**Bounds.**  Two messages give a primary and a steer, or a turn and a queued one;
a third adds the command that acts on them.  `MaxRows` is the number of messages
plus the rows retries may create, so it never cuts an arrival.  Two kills exceed
`MaxAttempts` in `turns_faults`, so the crash-loop bound is reached; one reply
suffices for the ledger because replies interact only through the sweep's loop,
and the proofs of section 4 hold for any number.  The peer of `ledger_one_owner` serves no bot,
so it reclaims and frees but does not send, and the attempts on record are the row's own; that
refusals by several senders are counted is for the theorem to say.  `MaxAttempts` 2 lets a refusal
be counted without ending the row.  One job between two
processes meets every race of the jobs: claims, sweeps and notices of different jobs share nothing but
the slots and the oldest-first order, which one job does not exercise; two jobs
pass the safety properties too (2.3 million states with one kill), and the proofs hold for any
number.  One publication between two gateways meets every race of the outbox: items share
nothing but the dispatcher's loop.  Two crashes and an outage let the reconciler of a third
life ask a pruned ledger.  One permit and a map of one lane make two chats fight for
both; two messages of one chat and one of the other give a running turn, a waiting one
and an eviction.  Two runs of a ticket give a zombie agent beside the agent of the run
that replaced its own; `MaxEvents` counts human edits and
crashes together.  Three runs of a ticket with one retry reach the budget; tickets meet only
in the loops' listings, and for any number of them, linked or not, `ClaimsAccounted` is
proved.  Two runners in one process meet every race of a cron job: two processes differ only
in who knows of a deferral and in what a kill takes along.  Two runs let a second be started
beside, or after, the first; the first edit creates the job, and a second deletes it under a
run or between the two steps of a `run now`.  That a job is deleted and created again takes
three edits; `FiringsAccounted` was checked with three edits and three calls (`MaxUpsets` 3,
882,507 states) and is proved for any number.  `MaxTime` 2 lets a
recurring job fall due twice and a one-shot pass.  The tick that sets a time back behind a run
(finding 16) needs longer runs than these, so here `rewound` comes from `ResumeJob` alone;
the theorem about `FiringsAccounted` covers both.  Three processes are what the two-writers race needs (one that dies, two that
wait), two with a death and a reboot what the others need; proofs cover any number.
Two questions of one lane give an open one and a queued one behind it, and the second
process answers through the file or sweeps it; a third question would only lengthen the
queue.  One reply and one crash let each race the store's window at every step;
two replies would add the documented race of two answers.
Deadlock is checked for the lock only: lanes, jobs, publications, boards and questions
are quiescent once everything has ended.

**Fairness.**  The process runs its callbacks (weak fairness of dispatches, of the
lane's start, of the tail); the agent loop ends (its iteration caps and
timeouts); a platform call returns; a supervisor restarts a dead gateway; the
replay and sweep timers keep firing; claims and backoffs run out.  Nothing is
assumed of users, crashes, throws, shutdowns, or of the loop reaching a seam.
For the jobs: timers fire, a runner that is not waiting for a person ends, a dead
process is started again, an untouched row ages.  Resuming a parked run needs an
answer and is not fair, so `EventuallyEnds` ends at `blocked`.
For the outbox: dispatchers tick, gateways come back, time passes; humans and reviewers owe
nothing.  For the lanes: hooks return and turns end.  For the board: every loop ticks,
agents go on and their turns end, calls end and silence is noticed, a supervised member
comes back; the agents of a board share one fairness condition, since a lane runs them
in turn.  For the questions: writes end, time passes, timers and sweeps fire, a dead
process comes back and hydrates once; people, agents and the poll owe nothing.  For cron: the interval fires,
ticks and runs end (a turn is abandoned at its cap), a stamp grows old, a gateway comes back;
an abandoned turn need not settle.  For the lock: processes run and come back, guarded work ends, a file grows old.
`EventuallySettled` of the lane stops short of one case which the code also
leaves: a turn that threw leaves its row `received`, still claimed by this
process, and only the next boot takes it up (`ForNextBoot`).

**`astray`.**  `NothingLost` is false; `OnlyAstrayLost` says that the only messages
ever lost entered one of three windows: a steer left unread by a turn that reaches
its terminal while the gateway is closing; a message steered into a turn `/stop`
has aborted; and text absorbed into a row that is then itself steered elsewhere
(`markAbsorbed` moves the children, IS:545, and `unlinkAbsorbed` does not bring
them back).  The first two are findings below, and what else the third leads to is finding 18; so
`ToolsNotRepeated` and `RepliedOnce` leave astray messages out too. `astray` of `TurnLanes`
is the like for evicted lanes.

### Findings

Two are runs of this project:

1. **An answer reported resolved that nobody receives** (`clarify_told`).  `respond` takes
   a question off the map before it awaits the removal of its row (CB:548).  An answer that
   comes in between finds the row still there and without an answer, queues its own write
   behind the removal, which then updates nothing (`file-clarify-store.ts:66`), and is
   told `resolved`, while the agent has the time-out (CB:539).
   `apps/web-api` `rpc/clarify.ts:24`: "`{ ok: true }` means the row was RESOLVED — nothing
   weaker".  Two processes lose an answer the same way: the owner's `fireTimeout` asks the
   map and not the file, so an answer already written and not yet polled is dropped.
   The LIMITATION note at CB:493 admits another race, of two answers both written.
2. **Two writers on `jobs.json`** (`jobs_lock_two_writers`).  Re-read and unlink of a stale
   jobs lock are two awaited calls and nobody reads his own file back
   (`jobs-lock.ts:175`), against `jobs-lock.ts:22-24`.  The sentinel narrows the same
   window by its confirming read; `OneHolder` states what is left of it.

The others are properties the modules still define, marked "Not kept", that TLC refutes
with the instance given here; they have no run of their own.  Finding 14 breaks a property
that is kept in the run's bounds.

3. **An empty ledger answer does not prove that nothing was sent.**  `beginDelivery`
   returns null when its write fails (`delivery.ts:94`) and the send goes on; if the gateway
   dies before it marks the publication, the reconciler finds no row and offers a retry as
   "not sent".  DL:182-184: "an empty result PROVES nothing was handed to the platform and
   the work can be retried by hand".  A crash between the ledger's confirmation and the
   outbox's mark, followed by an outage longer than the ledger keeps delivered rows, does
   the same without a failed write.  `EmptyResultProves` with two gateways, one crash
   and one failed write; `NotSentIsTrue` and `OneRetryOwner` say when the promise holds
   (`LedgerWhole`).
4. **An abandoned reply may become delivered.**  `abandonStale` takes a `redelivering` row
   and `markDelivered` has no status guard (DL:552), while DL:38-41 calls `abandoned` "A
   terminal state that is NOT delivery".  `AbandonedIsTerminal` on one gateway and one
   reply.
5. **The replay discards what it has just told the user to retry.**  A queued row older
   than the notice counts as "any other message" when it is replayed (GW:3250).
   `InterruptedAwaitsUser` with 2 messages, 1 kill.
6. **A steer that no model read is closed during shutdown** (GW:6368), against IS:61-62.
   `NothingLost` with 2 messages, 1 shutdown.
7. **A steer after `/stop` is acknowledged and closed unread** (GW:4496), against the same
   sentence.  `NothingLost` with 2 messages and a `/stop`.
8. **A cancel of a parked orphan is accepted and never honored.**  `reclaimStale` looks at
   `running` rows only (JS:840), so a `blocked` job whose process died stays blocked, while
   `task_cancel` answers that the job will stop shortly
   (`extensions/tools-delegation/src/index.ts:1718`, `:1744`).  `CancelHonored` under
   `FairSpec` with one kill.
9. **Two turns of one chat at once.**  A message keeps the lane it fetched across the hooks'
   awaits while eviction drops that lane as idle; the chat's next message gets a new one
   (GW:9573), against `packages/session-lane/src/index.ts:2` ("serialises concurrent
   messages for the same chat").  `OneTurnPerChat` with two permits and no `/stop`: eight
   states.
10. **The sentinel's window needs no abandoned lock.**  `lockIsStale` answers true when the
    file is gone by the time its age is asked for (`sentinel-lock.ts:95`), so a waiter that
    read a body not yet written may come to unlink a live lock with nobody dead, against
    `sentinel-lock.ts:170-172`.  `WindowNeedsAbandoned` with three processes and no deaths.
    Beside it: the jobs lock retries without looking at its deadline when a stale lock
    cannot be unlinked (`jobs-lock.ts:176`, against :35 "Total wait before giving up"), and
    a restart that keeps pid and boot id, as in a container, reads its own old lock as live.
11. **The WIP cap does not bound the board.**  Only the store of the agents' tools is opened
    with `maxInProgress` (`packages/wiring/src/compose-tools.ts:1540`); the poll loop (KP:98)
    and the supervisor (`team-supervisor/src/supervisor.ts:513`) open it without, while
    `packages/config/src/index.ts:3401-3405` says the caps are "enforced by
    `KanbanStore.updateStatus` on the transition into `running`".  `BoardCapped` with two
    unlinked tickets and a cap of 1: seven steps.
12. **A verdict lands on a ticket that is not running.**  `kanban_complete` checks the status
    before it awaits its verifier, so a rejection moves a ticket that was meanwhile
    reclaimed, done or archived (`tools-kanban/src/index.ts:1196`), against its comment
    at :1179.  `VerdictOnRunning`.
13. **The board's loops write what they listed.**  Read off the model rather than checked:
    `reclaimTask` asks neither for the status nor for the run it was listed with;
    `promoteReady` lists and then writes one by one, so a second `serve` can promote and
    claim in between and the first cancels that run, against KP:100 "idempotent, safe to
    run from multiple serves"; a claim is not conditioned on `ready`, so a ticket archived
    or done since the listing can be claimed (KP:120); and a dispatch call that fails late
    blocks whatever run the ticket has by then.
14. **Hydrating twice asks two questions at once.**  The boot profile hydrates the web's
    bridge a second time (`apps/web-api/src/index.ts:1893`, `boot.ts:1443`).  A row whose
    `respond` is in flight is no longer in the map and still on disk, so the second pass
    adopts it and arms it beside the question that follows it, against CB:890
    "Idempotent by CONSTRUCTION".  `LaneAsksOne` with `MaxHydrates` 2.
15. **The end of a cron run writes over what a person changed meanwhile.**  The count, the
    retirement and the pause after a failure come from the tick's reading (CR:1380-1394,
    CR:1471): a job whose schedule was changed, that was resumed, or that was deleted and
    created again while its run was at work is retired or paused all the same, and a reset
    count is taken back.  `EditKept` in the bounds of `cron`.
16. **A slow tick moves a job's time back.**  `skipMissed` and the recomputation write
    `nextRunAt` with `patchJob`, which compares nothing (CR:1235, CR:1433), while claims compare it
    (CR:1916): a tick that was long at an earlier job sets the time back behind a run that
    another tick has started since, and the occurrence runs again.  `NotRewound` with
    `MaxTime` 4, 3 runs, 1 edit, no faults; `OccurrenceOnce` excepts such jobs (`rewound`).
17. **A one-shot is said never to have run although it has.**  The same tick retires by its
    old count "without completing a run" (CR:1241) after another tick's run has completed.
    `RecordsTrue` in the bounds of `cron`.  Read off the code rather than checked: the cap is
    checked at CR:1259 and counted at CR:1369, with the claim's await between them, so two
    ticks can go beyond `cron.maxParallelJobs`.
18. **A turn that had started a tool is replayed, by way of another row.** A message folded
    into a row is text of that row's turns. If the row is then steered into a second turn,
    `markAbsorbed` moves the message's own row along (IS:545), and if the second turn ends
    without reading the steer, `unlinkAbsorbed` brings back the steered row only. From then
    on two rows' turns run the message: the one may start a tool with it, the other is owed
    all the same, and a boot runs it again, against IS:25 "A turn that had started a tool is
    NEVER replayed". `NeverReplayed` with 3 messages and 3 rows, `spoolMaxAttempts` 3, 2
    kills, 1 throw: 24 steps. It came up in the proof: `ToolsNotRepeated` and `RepliedOnce`
    had been checked with two messages, where it cannot happen, and said nothing of astray
    ones.
19. **A question overtakes the queue of its lane.**  An abort takes a waiting question off
    the map and awaits the removal of its row before it takes it out of the queue (CB:547,
    CB:554).  When the lane is handed on meanwhile, `drainLane` shifts that question off and
    `presentNow` returns at once (CB:740), so the lane has no occupant although others wait,
    and the next `request` is presented at once (CB:433), against CB:366 "the request is
    queued (FIFO) and presented once the occupant resolves".  The lane is not stuck: the end
    of the removal drains it, or the end of the question that overtook.  `AskedInTurn` with
    one bridge, 4 questions of one lane, 1 abort and no crash.  It came up in the proof of
    `LaneAsksOne`, where "an idle lane has an empty queue" turned out not to be invariant.
20. **A run-now of a job deleted meanwhile runs beside its running copy.**  `runJobNow` reads
    the job without the lock (CR:936).  If the job is deleted before the lock is taken, the
    critical section finds no row and returns with nothing stamped and nothing refused
    (CR:950), and `executeJob` runs the job it had read (CR:968) although a tick's run of it is
    at work, against CR:939-943 ("“Run now” during a scheduled run would otherwise execute
    the turn, its side effects and its delivery twice.  Checked and stamped in one jobs-lock
    critical section").  `OneCopyEver` in the bounds of `cron`: eight states.
21. **Two bots of one platform ask the same question.**  The gateway builds a loop, and with it
    a clarify bridge, for each bot of a platform (`gateway.ts:2830`), and hydrates every one
    (`gateway.ts:1350`, `boot.ts:1441-1443`).  A bridge adopts the rows of the surface types it
    has a presenter for, and `hydrate` admits that this does not tell two bots apart
    (CB:868-870): a row left queued by a crash, or just queued by the other bot's bridge when
    hydration comes after the adapters' start, is adopted and presented by both, though
    CB:872-874 calls a second showing "a duplicate Telegram/Slack message".  `OneBotAsks`
    with the instance of `clarify` and both bridges presenting: ten states.  Each bridge by itself
    still shows a question once (`PromptedOnce`).  Where only some of a lane's questions are of
    the shared surface, the lane asks two at once after a crash: the other bot shows the second
    while the first is still on the screen, and the restarted bridge adopts both (`LaneAsksOne`
    with the second bridge presenting the second question only: sixteen states).

## 4. What TLAPS proves

`DeliveryLedgerProofs`, for every set of replies and processes, every bound and
every cap, from `LedgerAssumption`:

| Theorem | Statement | Argument |
|---|---|---|
| `TypeCorrect` | `Spec => []TypeOK` | inductive as it stands; its last conjunct ties the sweep's memory to its phase |
| `SingleSenderCorrect` | `OneOwner => (Spec => []SingleSender)` | `SenderInv`: a process only lists, claims and sends what it serves, and its sweep never holds a row its own live send works on.  `SingleSender` alone is not inductive: nothing in it says that a listed row is one's own |
| `DuplicateNeedsFaultCorrect` | `OneOwner => (Spec => []DuplicateNeedsFault)` | `CopyInv`: while a row is owed and no acceptance awaits its confirmation, and while some call's outcome is open, acceptances do not exceed faults |
| `GivenUpForAReasonCorrect` | `Spec => []GivenUpForAReason` | `AttemptInv`: an attempt is counted only with a refusal, and no sweep remembers more attempts than the row has, so the cap computed from its memory is never reached early |
| `PromiseCorrect` | `Spec => PromiseImplemented` | step simulation under the refinement mapping, with `ConfirmInv`: whoever confirms holds a reply the platform did take.  Needs no `OneOwner` |

`BackgroundJobsProofs`, for every number of processes, jobs, slots, kills, drains
and stalls, from `JobsAssumption`; these are all the safety properties of the
module:

| Theorem | Statement | Argument |
|---|---|---|
| `TypeCorrect` | `Spec => []TypeOK` | inductive; `FinishVerdict` names the few ends `runOne` can file |
| `OneRunnerCorrect` | `Spec => []OneRunner` | inductive beside `TypeOK`: a claim takes a queued row, and by `OneRunner` a queued row has no run |
| `EndIsFinalCorrect` | `Spec => EndIsFinal` | step by step from `TypeOK`: every write of a status is guarded by one that has not ended |
| `NoFalseStaleCorrect` | `Spec => []NoFalseStale` | `ParkInv`: a parked run's row is not `running`, a blocked row with a run is parked by it, a running one is behind only after a stall |
| `AnnouncedOnceCorrect` | `Spec => []AnnouncedOnce` | `NoticeInv`: the right to announce is with nobody, one process, or used up; what may be announced stays so |
| `SteersAccountedCorrect` | `Spec => []SteersAccounted` | `SteerInv`: what the model heard is marked read or still drained in the sink of the run that holds the job; `OneRunner` makes that run unique |
| `GracefullyHandedOnCorrect` | `Spec => []GracefullyHandedOn` | `HandInv`: a closing executor owns no queued row but those queued since its hand-over |

`OutboxProofs`, for every number of publications, gateways, revisions, crashes, gaps
and outages, from `OutboxAssumption`; these are all the safety properties that hold:

| Theorem | Statement | Argument |
|---|---|---|
| `TypeCorrect` | `Spec => []TypeOK` | inductive as it stands: a dispatcher holds a row exactly in the stages that work on one |
| `OnePublisherCorrect` | `Spec => []OnePublisher` | strengthened by what a claim means: the row of a dispatcher between claim and call is `sending` and not late, so no peer claims or reconciles it |
| `PublishedByLeaveCorrect` | `Spec => PublishedByLeave` | the same invariant carries the human's unused yes for the revision from `approved` through the claim to the call |
| `NotSentIsTrueCorrect` | `Spec => []NotSentIsTrue` | while the ledger is whole, a row that was called since its last yes has a ledger row or a claimant that will mark it; so a reconciler that finds none looks at one not called |
| `OneRetryOwnerCorrect` | `Spec => OneRetryOwner` | from the same: an approved or just claimed row has no ledger row |

`ExclusionProofs`, first part, for any set of processes and tokens and all bounds, from
`FileLockAssumption`, for both protocols of `FileLock`:

| Theorem | Statement | Argument |
|---|---|---|
| `LockTypeCorrect` | `LockSpec => []LockTypeOK` | inductive as it stands: a waiter remembers a file exactly while it judges it |
| `OneHolderCorrect` | `LockSpec => []OneHolder` | while nobody was robbed, the file at the path is that of whoever counts on it, and a path has one file |
| `KeptFromTheLivingCorrect` | `LockSpec => []KeptFromTheLiving` | while nobody died every file is that of a live process in its critical section or being written, so no judgement finds it stale |

`KanbanBoardProofs`, for every number of tickets, members, runs, edits and crashes,
whatever the links between tickets, from `KanbanAssumption`:

| Theorem | Statement | Argument |
|---|---|---|
| `TypeCorrect` | `Spec => []TypeOK` | part of the invariant below; that `running` and the run pointer agree is needed by every transaction |
| `ClaimsAccountedCorrect` | `Spec => []ClaimsAccounted` | `BoardOK`: the open runs of a ticket are the one it points to, runs are numbered without gaps, every run but the first is charged.  Proved once per store transaction (`SetStatusKeeps`, `OpensKeeps`, ...): none of them relies on what its caller listed, which is why stale listings do no harm here |

`CronJobsProofs`, for every number of jobs, processes, overlapping ticks, runs, edits and
faults, every schedule and policy, from `CronAssumption`:

| Theorem | Statement | Argument |
|---|---|---|
| `TypeCorrect` | `Spec => []TypeOK` | inductive with the fact that a busy runner has a job and a run |
| `FiringsAccountedCorrect` | `Spec => []FiringsAccounted` | `IInv`: a run at work whose stamp is young, and which found its row when it stamped it, is the one its row is stamped with (`Stamped`); the next time lies beyond every time that was run, until it is set back (`Ahead`); a count above zero means a completed run (`Counted`); and every runner holds a run of its own and counts no runs that were not (`Held`, `Apart`).  Proved per row (`RowStep`, `LedgerKept`) and per runner (`HeldStays`, `RestsHolds`), with a lemma for the start of a run (`StartsKeep`) and one for a job created again (`CreateKeeps`).  `OneCopy` alone is not inductive: nothing in it ties a run to the stamp the next claim looks at |

`GatewayTurnsProofs`, for every number of messages and rows, every `spoolMaxAttempts`, any
number of kills, shutdowns, throws and operator commands, from `SpoolAssumption` and
`TurnsAssumption`; these are all the safety properties the runs check of the module:

| Theorem | Statement | Argument |
|---|---|---|
| `HeldInvariant` | `Spec => []HeldInv` | who holds which row, see below |
| `TypeCorrect`, `HeldRowsOwedCorrect`, `CrashLoopCorrect` | `Spec => []TypeOK`, `[]HeldRowsOwed`, `[]CrashLoopBounded` | conjuncts of `HeldInv`, or read off one |
| `TextInvariant` | `Spec => []TextInv` | where the text of a message is, see below |
| `OnlyAstrayLostCorrect` | `Spec => []OnlyAstrayLost` | `NoneLost`: an accepted message that is in no row was answered or given up |
| `ToolsNotRepeatedCorrect` | `Spec => []ToolsNotRepeated` | a turn whose row has no tool mark runs texts of rows that are owed, and `Durable` puts no tool-started message there |
| `RepliedOnceCorrect` | `Spec => RepliedOnce` | from `EndText` and `Durable`: what was replied to is in rows an obligation covers |

`HeldInv` says of the table that the rows in use come first (`Shape`), that absorption is
one level deep and an absorbed row shares the fate of its primary (`Tree`), that an
obligation belongs to a primary, and that kills stay within the attempts counted (`Budget`);
and of the process that each call of `handleMessage`, queued task, unread steer and the
running turn holds an owed row it has claimed (`TasksHeld`, `TurnHeld`), no two the same
(`Apart`). Neither `HeldRowsOwed` nor `CrashLoopBounded` is inductive alone: that closing
one row leaves the others owed needs `Apart` and `Tree`, and that a kill does not exceed the
cap needs the attempt counted when the turn began.

`TextInv` stands on it. A message is in one row at most, and a task runs with the text of
its row and of what was absorbed into it (`LaneText`); the rows know of every tool started
and reply recorded with a message they carry (`Durable`); nothing is lost (`NoneLost`); a
turn that is about to close its row has settled its text (`EndText`). Each clause leaves
astray messages out, and only those: that the proof needs no other exception is why the
three windows named in section 3 are all there are in the model.

An action of the lane may call several methods of the spool. The methods are first shown to
be instances of a few shapes of table update, each with what it writes spelled out:
`Settles` (a row and its family reach an end), `Rewrites` (status, attempts, owner and tool
of one row), `Relinks` (links only), `Reopens` (an operator's or a user's second chance) and
`Inserts`. What a shape keeps of `HeldInv` and `TextInv` is proved once per shape, so that
an action's proof only says which shapes it is made of.

`ExclusionProofs`, second part, about `TurnLanes`, for any chats, messages and lane objects, any number of permits, any
capacity of map and queues, from `TurnLanesAssumption`:

| Theorem | Statement | Argument |
|---|---|---|
| `LaneInvariant` | `Spec => []LaneInv` | proved apart for the lanes (`Fronts`), the map (`Home`) and the semaphore (`Permits`) |
| `TypeCorrect` | `Spec => []TypeOK` | by `Fronts`: the message a lane runs is the one that fetched it |
| `PermitsAccountedCorrect` | `Spec => []PermitsAccounted` | `Permits`: the line of waiters lists the messages that wait, each once.  Lemmas about sequences that list a set (`ListsAppend`, `ListsTail`, `ListsRemoveAt`, `ListsCount`) carry it through `acquire`, `release` and `onAbort` |
| `OneTurnBarringEvictionCorrect` | `Spec => []OneTurnBarringEviction` | `Home`: the live messages of a chat that is not astray are all on its lane in the map.  Eviction keeps it because a lane with work in it is not idle (`BusyNotIdle`), and a lane that is only held in a hook makes its chat astray |

`ClarifyBridgeProofs`, for any number of bridges on one file, of questions, lanes, replies and
crashes, from `ClarifyAssumption`:

| Theorem | Statement | Argument |
|---|---|---|
| `TypeCorrect` | `Spec => []TypeOK` | `TypesOK`: with the kind of answer each write carries, and that a bridge which is down has no writes.  For any `Presents` and any number of hydrations |
| `BridgesSound` | `OneHydrate => (Spec => []IInv)` | the inductive invariant, see below |
| `PromptCorrect` | `OneHydrate => (Spec => []PromptedOnce)` | `Unshown` of `IInv`: a bridge that shall show a question has not shown it, and a question whose row is queued was shown by none |
| `LaneCorrect` | `OneHydrate /\ Apart => (Spec => []LaneAsksOne)` | `HasLane` of `IInv`: a question with a running timer is its lane's occupant, unless its lane was taken back |

`OneHydrate` says that a bridge hydrates once in its life.  All bridges do but the web's in the boot
profile, of which these two theorems say nothing: finding 14 refutes `LaneAsksOne` there, and with
three calls, an abort and replies a question can be shown twice.  `Apart` says that only the bridge that
asks a question presents its surface: one bot per platform, the deployment that `hydrate` calls the
current one (CB:861-865).  It is not every deployment.  With two bots on one platform both bridges
adopt each other's rows, and `LaneCorrect` says nothing of them; finding 21 has what goes wrong.
`PromptCorrect` and `BridgesSound` do not need `Apart`, but what the first says is per bridge, so
that a person is asked once follows only where one bridge presents the surface.  TLC agrees with
both bridges of `clarify` presenting everything: with one crash and no reply (438,977 states), and
with one reply and no crash (1,219,612), `PromptedOnce` holds.

`IInv` has a part for each memory and one for the file.  `Sound` speaks of one bridge: what is
armed is in its map; its lanes hold questions it presents, each once; a question is added
once, shown once, and shown only while it has its lane and before it is removed (`OwnOps`);
what is being added or removed is not in the map (`Phases`).  `Agree` speaks of one question,
and of no row that was taken back: what its row says, and which bridges showed it, agree with
where they have it.  `LaneAsksOne` and `PromptedOnce` are not inductive alone: that a
freed lane is not armed twice needs the write that is still in the mutex, and that a restart
shows nothing again needs the row.  What each method of the bridge keeps is proved once
(`Push`, `PresentNow`, `DrainLane`, `StartRespond`, `Register`, `FreeLane`, `Adopt`,
`DrainLanes`) and cited by every action that calls it.

Hydration is a loop over the lanes.  A fold would copy it closely, but could not be unfolded
without induction over data; it is stated by what it comes to, lane by lane, instead.

What is model-checked only: every liveness property.  The properties of the findings are
false, and refuted. Liveness under
fairness and `ENABLED` are beyond the prover and stay with TLC.

## 5. Plan

Every safety property the runs check is proved; what is next to prove is the refinement of
`InboundPromise`.

Modelling left, in order: `InboundPromise` (accepted, answered, given up or waiting for a
person) with `GatewayTurns` as its implementation and the loss windows explicit; the
retention of jobs against a stale row whose run is alive (JS:956: its finish then throws
and the result is lost), held notices and jobs whose parent reviews the result; goals; tool approvals; the notify queue; dedup with row-less
messages (a spool write that fails is swallowed, GW:4730, and the turn runs without a row).

Not planned: the agent loop's prompts, providers, compaction and tools; safety
filters; sessions, transcripts and memory; adapters; A2A and mesh; CLI, web,
desktop and TUI.  They are data, I/O and presentation; the models see their
effects as the choices named above.
