# Verification of the CRM's durable delivery

The repository is a CRM for Telegram bots: a FastAPI application over PostgreSQL,
Redis with ARQ job queues, several worker processes, and a separate gateway that
receives partner postbacks. Its own core logic is not the CRUD but the promise that
what a customer or a partner sends is handled once, and that what the CRM sends is
sent once, although processes are killed, Redis forgets jobs, HTTP answers get lost
and several workers poll the same tables. These modules model that core.

## 1. Inventory

| Component | State | Operations | Interacts with | What is hard | What makes it correct |
|---|---|---|---|---|---|
| **Telegram intake**: webhook (`api/v1/routers/telegram.py`), `services/telegram_inbox_service.py`, intake loops of `workers/telegram_delivery_worker.py` | table `telegram_inbox`: status, created_at, attempts, claimed_at | accept, claim, handle, settle, fail, park stale, delete receipts | Telegram (repeats deliveries), handler commits and sends, outbox rows saved in the handler's transaction | lost 200s, partial commits, late handlers, order of a dialog when commit order differs from created_at order | handled at most once, never replayed after known effects, in order per dialog, every accepted update settles |
| **Runtime dispatch outbox**: `services/runtime_dispatch_service.py`, dispatch loop, `workers/postback_worker.py` tasks, `services/runtime_review_service.py` | table `runtime_dispatches`: status, available_at, failure_count, diagnostics_json; ARQ jobs with stable ids | save, dispatch, execute behind a fence, acknowledge, defer, fail, park, audited retry | intake (saves rows), Redis/ARQ, funnel runtime, administrators | jobs lost and handed out twice, a fence of two statements with a gap between them, lost acknowledgements, killed jobs, evidence that goes stale | a row claimed by one consumer, the funnel run by one and completed once, retried only when clean, review left by an administrator only, nothing forgotten |
| **Broadcast campaigns**: `services/broadcast_service.py`, `workers/broadcast_worker.py`, `repositories/broadcast_repository.py` | `broadcasts.status`, `broadcast_recipients.status`, session advisory lock | launch, schedule, edit, pause, resume, cancel, archive, purge; runs with parallel tasks | operators' requests, polling loop and ARQ, Telegram | check-then-write requests, lost lock, kill between send and record | a chat gets a campaign once, a stop limits new starts, completed means settled, a run never hangs |
| **Debounced input and queued starts**: `telegram_service.process_debounced_user_input`, `process_queued_funnel_start` | `messages`: funnel_processed_at, deleted_at, crm_after_repeated_start; the chat row as a lock; the message's dispatch | store with a dispatch, wait for silence, claim a burst, run its segments, defer the rest, give back, delete, close the chat | intake (stores), outbox consumers (execute), funnel runtime (commits and sends), managers | superseded jobs, two dispatches that claim the same message, a lock that every send releases, deferrals of half a burst, kills after a partial commit | no message reaches the funnel twice, no claim is forgotten, each input of a burst runs unless a named case excuses it |
| **Funnel start recovery** | none of its own | enqueue missed starts | ARQ, outbox | doubles starts | idempotent through message claims |
| **Funnel scheduled jobs**: `workers/funnel_scheduled_worker.py`, `repositories/funnel_repository.py` | `funnel_scheduled_jobs`: status, run_at, attempts, payload | create, claim, recover stale, execute, requeue at the failed item, fail, cancel | ARQ and polling at once, funnel runtime, managers | cancellation while the job runs, a claim whose answer is lost, unconditional `mark_scheduled_job_done`, the position a retry goes on from | an item is not repeated by a retry, attempts are bounded, a cancelled or obsolete job does nothing |
| **Scheduled operator messages**: `services/scheduled_message_service.py`, `workers/scheduled_message_worker.py` | `scheduled_messages`: status, scheduled_at; session advisory lock; files on disk | store files, create, cancel, recover interrupted, list due, claim, send, record, remove files | operators, Telegram, file system | cancel against claim, kill between send and record, lock lost under a live run, files removed too early | sent at most once, never after a confirmed cancellation, files there while needed, none stays open |
| **Postback gateway and relay**: `postback_gateway/`, `services/postback_relay_service.py` | SQLite jobs with leases, manifest; `postback_relay_deliveries`, endpoint revisions | admit, enqueue, claim, send, finish, prune, admin retry, backup; manifest sync; idempotent deliver; rotate, update, archive an endpoint | partners, CRM over HTTP, endpoint owners | answers lost while the first request is still at work, killed gateway, restored queue, key rotation under queued posts, stale manifest | accepted postbacks take effect once, none is closed unrecorded or stuck, a regular rotation kills none |
| **Postback processing and follow-up** | leads' stages, payouts, follow-ups | apply, deliver follow-up | partners, leads | duplicate business events | one effect per event |
| **Funnel runtime engine**: `services/funnel_runtime_service.py` | `chat_funnel_states`: current step, waiting, paused, completed, runtime_json | start, command, restart, message, button, timeout, pause, block, resume, scheduled job | everything above | handlers, jobs and managers in one chat; a transaction ends at every send, so that a crash leaves a prefix; copies of the state row that outlive its lock | nothing is repeated on one visit of a step unless named causes occur, a funnel that stops has a failure that accounts for it, a pause ends in silence |
| **Chat leases and assignments** | leases with expiry | acquire, renew, release | operators | expiry against renewal | one holder |
| **AI delivery and budgets** | reservations, delivery states | reserve, call, settle | AI providers | lost answers | budget not exceeded |
| **TikTok / Facebook / Sheets export** | outgoing event rows and jobs | claim, send, retry | external APIs | duplicates | event ids stable |
| **Telegram accounts (MTProto)** | sessions, Redis request lists | invoke, login | third-party client | timeouts | request answered once |
| **Channel joins and subscriptions** | join requests | approve, delayed answer | Telegram | repeats | approved once |
| **Operator messages, chats** | messages, chats | CRUD, send | Telegram | - | - |
| **Leads, tracking, analytics, traffic quality** | leads, events | CRUD, aggregates, hold schedules | postbacks | pure algorithms | computed as specified |
| **Advertising scenarios** | membership, protection | classify chats | broadcasts | audience changes under a run | protected chats are skipped |
| **Backups, exports, alerts, statistics; info/admin bots; auth, users, settings; frontend** | files, reports, CRUD rows | I/O | - | - | - |

How they interact: the webhook stores an update and answers 200. An intake loop claims
it, the handler writes lead, chat and message, and saves intentions in
`runtime_dispatches` **in the same transaction**. The dispatch loop hands an intention
to ARQ under a stable job id; the jobs worker claims the row again
(`protect_dispatch_replay`), runs the funnel, and acknowledges in the handler's last
transaction. Broadcasts have tables and workers of their own and share with the
queues only the database and Telegram.

## 2. Plan

Order by importance; each step leaves every run and proof green.

1. *(done)* `AtMostOnceWork`, the abstract promise of a durable queue.
2. *(done)* `TelegramInbox` with runs and proofs; refines `AtMostOnceWork`.
3. *(done)* `RuntimeDispatch` with runs and proofs; refines `AtMostOnceWork`.
4. *(done)* `BroadcastDelivery` with its runs and proofs. Later: `scheduled_at`, several
   campaigns of one bot.
5. *(done)* `PostbackRelay`: gateway queue, endpoint revisions and CRM receiver composed,
   with a run and proofs.
6. *(done)* `FunnelRuntime`: the interpreter, its scheduled jobs, the handlers and the
   managers of one chat composed, with a run and proofs.
7. *(done)* `DebouncedInput`: what the consumers of `RuntimeDispatch` do with the
   messages of a chat, with a run and proofs.
8. *(done)* `ScheduledMessages` with a run and proofs.
9. *(done)* The order properties and the refinement of the inbox as theorems.
10. Open: the reservations of the AI budgets; operator leases of a chat; the pure
   operators of `hold_schedule` and `traffic_expression` against a reference definition.

The runs are kept few, so that the whole check stays within reach of a workstation: a
module has one passing run for safety and liveness together, and two only where one
instance cannot be large enough for the races and small enough for the liveness.

## 3. Modules

| Module | Models |
|---|---|
| `AtMostOnceWork` | what a durable queue promises of one item: performed at most once, closed only with its performance, parked rather than repeated, forgotten only when closed; an item the queue has lost track of (`Losable`, `Lose`) is still performed at most once (`CompleteAdrift`), and nothing else is promised of it |
| `TelegramInbox` | the intake; `MCTelegramInbox` gives TLC its constants, `TelegramInbox_proofs` holds the theorems |
| `RuntimeDispatch` | the outbox; `MCRuntimeDispatch`, `RuntimeDispatch_proofs` |
| `BroadcastDelivery` | one campaign; `MCBroadcastDelivery`, `BroadcastDelivery_proofs` |
| `PostbackRelay` | the gateway, its deliveries to the CRM and one endpoint; `MCPostbackRelay`, `PostbackRelay_proofs` |
| `FunnelRuntime` | the funnel of one chat with its scheduled jobs; `MCFunnelRuntime`, `FunnelRuntime_proofs` |
| `DebouncedInput` | the messages of one chat from the intake to the funnel; `MCDebouncedInput`, `DebouncedInput_proofs` |
| `ScheduledMessages` | operators' scheduled messages and their delivery; `MCScheduledMessages`, `ScheduledMessages_proofs` |

The modules meet at the queues. A pending dispatch of `RuntimeDispatch` is what a
consumer of `DebouncedInput` takes; its partial commit and its send are a
`RunSegment` there, and a transaction of a handler in `FunnelRuntime`. What
`DebouncedInput` calls a scheduled step is a job of `FunnelRuntime`. The `message` of
`RuntimeDispatch` is `claimed` of `DebouncedInput` for one dispatch: a claim that rolls
back with the consumer's transaction, or is durable from its first commit on.

Definitions whose name ends in `Mutant`, `Mutant1`, ... are never part of `Next`. Each
stands before the definition it imitates and changes it as a plausible bug would; every
property of a passing run is violated when the mutant named for it replaces the
original (PROJECT.json lists the pairs).

### TelegramInbox

`status`, `created`, `attempts` are columns of `telegram_inbox` ("none": no row).
`requests` are open webhook requests with the timestamp their transaction began at:
PostgreSQL's `now()` is the start of the transaction, so commit order and created_at
order differ. `acked` is what Telegram knows. `pc`, `cur`, `committed`, `ioStarted`,
`retryable` are the local variables of `process_next_inbox` (`progress` and the class
of the exception). `effects`, `handled`, `overtakenBy` are history.

| Action | Code |
|---|---|
| `BeginAccept`, `CommitAccept`, `FailAccept` | `telegram_webhook`, `accept_telegram_update`; the answer may be lost after the commit |
| `ClaimInbox` | `_claim_inbox` |
| `HandlerCommits`, `HandlerSends`, `HandlerCommitUnacknowledged` | commits of `handle_webhook_update` before the final one, calls through `TelegramSender`, a commit whose acknowledgement is lost |
| `FinalCommit`, `FinalCommitUnacknowledged`, `FinishUpdate` | lines 80-84: settle, commit, `dispatch_post_commit_actions` |
| `HandlerFails`, `RecordFailure`, `FailureNotRecorded` | the except branch, and a loop that cannot even write the failure |
| `Crash` | the process dies: all loops lose their local state |
| `MaintainDeliveryQueues` | stale claims to review, old receipts deleted |

### RuntimeDispatch

`status`, `failures`, `evidence` are columns of `runtime_dispatches`; `evidence` is the
snapshot in `diagnostics_json` if `safe_to_replay` is true. `fence` stands for the
value of `available_at`: the loop that wrote it last, or nobody. `job` is the ARQ job
with the row's stable id. `message` is funnel_processed_at of the user's message, with
the transaction that has set and not committed it. `holding`/`answer` are the locals of
`dispatch_once`, `pc`, `cur`, `owns` (`claimed_id` is set), `snapshot`, `committed`,
`ioStarted` those of `protect_dispatch_replay`; `performs` says that the handler inside
has claimed the message, and runs the funnel. `chatVersion` is what `runtime_snapshot` hashes. ARQ and
Redis (`RedisLosesJob`, `JobReappears`, `JobEnds`, `JobRetries`) are external and
modelled from what the code expects of them: a stable id is not enqueued twice while
its job exists, a job may be lost, and may be handed out again while its first runner
is alive. `completed`, `dirty` and `bypassed` are history.

The fence is two statements, an UPDATE of a pending row and, where it found none, a
SELECT of the status; READ COMMITTED gives each a snapshot of its own. When a failure
write, a deferral or a retry makes the row pending in between, no status refuses the
job and its handler runs with `claimed_id` None (`ClaimMissed`, `StartUnclaimed`). The
next job claims the row and runs beside it. What is left between the two is the claim
of the message under the lock of the chat row (`ClaimMessage`), which is therefore part
of this module.

| Action | Code |
|---|---|
| `SaveRuntimeDispatch` | `save_runtime_dispatch` |
| `DispatchClaim`, `DispatchAccepted`, `DispatchFailed`, `DispatchRecord`, `DispatchAbandoned` | `dispatch_once`, with the Redis call between two transactions |
| `StartJob` or `ClaimMissed` | the UPDATE of `protect_dispatch_replay`: a claim, or no row |
| `RefuseJob`, `StartUnclaimed`, `LookupFails` | the SELECT: a refusal, a status that refuses nobody, an error |
| `ClaimMessage` | `get_for_runtime_input` and `claim_funnel_processing` |
| `HandlerCommits`, `HandlerSends`, `HandlerCommitUnacknowledged` | the funnel runtime inside the job |
| `FinishJob`, `DeferJob`, `FinishUnacknowledged` | `acknowledge_runtime_dispatch` (`Acknowledge`; `AcknowledgeProcessed` after the answer "already_processed") / `defer_runtime_dispatch` with the last commit |
| `JobFails`, `RecordFailure`, `FailureNotRecorded`, `Crash` | the except branch, a failure that cannot be stored, a killed worker |
| `MaintainDeliveryQueues`, `RetryReview` | stale rows to review, receipts deleted; the administrator's retry |

### BroadcastDelivery

`campaign` is `broadcasts.status` ("deleted": archived, "gone": purged), `row` the
recipients' status, `snapshot` counts how often `replace_recipients` made new rows: a
task whose `batchOf` is older updates rows that no longer exist. `request` is an open
API request between reading the campaign and writing it. `lock` is the advisory lock;
`pc`, `task`, `batchOf`, `broken` are a run (`_process_owned`) and its delivery tasks.
`replied` says that `stop_on_reply` applies and a recipient wrote after `started_at`.
`delivered`, `startedStopped`, `overlapped`, `lockLost` are history. The runs are interchangeable,
so that among the idle ones `FirstIdle` takes the lock for all.

| Action | Code |
|---|---|
| `ReadCampaign`, then `Launch`, `EditBroadcast`, `CancelBroadcast`, `PauseBroadcast`, `ResumeBroadcast`, `PurgeBroadcast`, or `FailRequest` | the methods of `BroadcastService`; the write commits with the request |
| `ArchiveBroadcast` | `delete_broadcast`, decided in its UPDATE |
| `TakeLock`, `StartScheduled`, `FailInterrupted`, `CheckCampaign`, `PauseAfterReply`, `ListRecipients`, `EndBatch`, `CompleteBroadcast` | `process_broadcast`, `_process_owned`, `_active_or_stopped`, `_complete_broadcast` |
| `CheckTask`, `PauseTask`, `ClaimTask`, `ClaimMissed`, `RowDeleted`, `SkipTask`, `SendTask`, `RecordSent`, `RecordFailed`, `TaskFails` | `deliver` and `_deliver_recipient`, inside the semaphore |
| `RunDies`, `LockConnectionLost` | kill or ARQ timeout; the lock's session ends while the run goes on |

Two launches at once are one after the other here: the unique constraint on
(broadcast_id, chat_id) makes the second insert wait for the first and fail unless its
delete already saw the first's rows.

### PostbackRelay

A post is one request of a partner and the delivery id the gateway gives it. `job` is
`jobs.status` ("none": not there yet, "pruned": deleted after a week, "lost": gone with
a restored backup), `envelope` the part of the payload the CRM's decisions depend on:
the endpoint's revision, whether it arrived after the end of its key's grace period, and
the partner's event id. `manifest` holds the revisions the gateway admits. `sender` is
the request `send_loop` waits for; `req` are the requests open at the CRM, those the
gateway has given up included. `ledger` is `postback_relay_deliveries` with the result,
`applied` the event ids in `postback_business_effects`. `active`, `revision`, `token`
and `validity` are the endpoint and its revisions (`token[r]`: revisions with the same
key). `effects`, `stopped` are history. The places for open requests are interchangeable: a
new request takes `FreeSlot`.

| Action | Code |
|---|---|
| `UpdateEndpoint`, `RotateSecret`, `ArchiveEndpoint`, `GraceEnds` | `update_endpoint`, `rotate_secret` with and without `revoke_old`, `delete_endpoint`; `valid_until` is over |
| `Sync` | `Relay.sync` and `manifest`; the stored manifest may be as old as you like |
| `Accept` | `enqueue` with `_admit` and the limit of jobs |
| `Claim`, `Finish`, `GiveUp`, `LeaveSending` | `send_one`: the claim, the answer's outcome, a timeout, a kill or a failed write before `finish` |
| `Prune`, `RetryDead`, `Restore` | `prune`, the administrator's `retry`, a start from a file made by `backup` |
| `ReadLedger`, `ReadEndpoint`, `InsertDelivery`, `ReceivePost`, `CommitDelivery`, `FailDelivery` | `deliver` statement by statement in the transaction of the route; a unique key makes the insert wait, an advisory lock the event |

`ReceivePost` keeps three results apart: the event takes effect (`processed`), its id
was applied before (`duplicate`, which stands for `conflict` too), or nothing happens
(`unmatched`, for `ambiguous`, `invalid` and `stale` too). Every one is recorded.

### FunnelRuntime

`row` is the chat's `chat_funnel_states` with three fields of history: the positions
delivered on this visit of its step (`sent`), whether a failure on it went to the
operational alert or to review (`reported`), and whether one went to nobody (`untold`).
`jobs` are rows of `funnel_scheduled_jobs`; a closed one may be reused.
`pc`, `task`, `at`, `error` are the locals of the sessions that execute the funnel:
scheduled workers, handlers of what the user sent (those of buttons are `Callbacks`:
what they raise is only logged), and requests of managers.
`attached` says that a session holds a copy of the row from before a pause: the sessions
do not expire objects on commit, and a query does not refresh a loaded one. `saved` is
what a rollback of an open resume restores. A published version is a constant (`Steps`,
`Kind`, `Script`, `Follow`); conditions, answers and A/B tests choose among `Follow`.

Every read of the state locks the chat row, and every send commits first. An action is
therefore one transaction: from the answer of Telegram to the commit before the next
send.

| Action | Code |
|---|---|
| `Enter`, `Play`, `PlayAfter`, `MoveOn`, `Branch` (operators) | `_execute_from_step`, `_execute_message_sequence`, `_move_from_step`, `_move_to_step_id` |
| `SendOk` | what follows an accepted send, up to the next send or the handler's end |
| `StartFunnel`, `Command`, `Restart` | `start_funnel_for_chat`, `execute_custom_command_for_chat`, a /start after 30 days |
| `AnswerItem`, `AnswerInput`, `PressButton`, `HandlerDies` | `process_incoming_message`, `process_incoming_button`, the handler's failure |
| `Claim`, `ClaimUnanswered`, `Start` | `claim_scheduled_job`, `process_scheduled_job` |
| `SendFails`, `JobFails`, `ResolveDelivery`, `ResolveOther`, `OutcomeLost`, `WorkerDies`, `Recover` | `_resolve_delivery_failure` with `RetryAt`, `_mark_job_failed`, an outcome that could not be persisted, a kill, `recover_stale_running_jobs` |
| `Pause`, `Block`, `Unblock`, `Resume`, `ResumeFails` | the takeovers, `set_blocked_by_user`, `resume_funnel_from_manager` and its rollback |

### DebouncedInput

Messages are numbered in the order of the dialog. `kind` is what a message is, `claimed`,
`deleted` and `marked` are its columns funnel_processed_at, deleted_at and
crm_after_repeated_start, `dispatch` the status of its `runtime_dispatches` row. `lock` is
the transaction that holds the chat row; `cur`, `whole`, `rest`, `dirty` are the locals of a
consumer: the dispatch it executes, the burst it claimed, what it has not run yet, and
whether it has committed. `engaged` is the mark of a repeated start that was carried out
(runtime_json.last_engagement), `scheduled` that the current step awaits no answer and
has a pending or running job. A delay may lead to the next one, so `scheduled` may come
back as often as it goes. `ran` and `overtaken` are history; a message is `overtaken`
when it is given back although a consumer of a later batch has claimed what it has.

| Action | Code |
|---|---|
| `Arrive`, `Delete`, `CloseChat` | `handle_webhook_update` with the dispatch it saves, deletions, a manager's block, reset or deletion |
| `QuietPasses`, `ScheduledStepRuns` | TELEGRAM_INPUT_QUIET_SECONDS are over; the scheduled step of `FunnelRuntime` |
| `BeginInput`, `BeginStart` | `process_user_input_task` and `process_funnel_start_task` up to the claim |
| `RunSegment`, `DeferRest`, `Finish` | the loop over segments of `process_debounced_user_input`, `_defer_input_after_repeated_start`, the acknowledgement |
| `Fail` | an exception or a kill, as `protect_dispatch_replay` classifies it |

### ScheduledMessages

`status` is the column of `scheduled_messages`, `due` whether its time has come, `stored`
whether its files are on the disk. `lock` is the session advisory lock; `pc`, `todo`, `cur`
are a worker's run, its list of due ids and the message at work; `request` is an
operator's request between two of its commits. `delivered` is history.

| Action | Code |
|---|---|
| `WriteFiles`, `ScheduleMessage`, `ScheduleFails` | `schedule_message`: files first, then the row |
| `CancelMessage`, `CancelCommits`, `CancelFails`, `CancelRemovesFiles` | `cancel_message`: the UPDATE, the commit, then the files |
| `TryLock`, `Recover`, `ListDue`, `RunEnds`, `Unlock` | `run_once`, `recover_interrupted`, `list_due` |
| `MarkRunning`, `Prepare`, `Send`, `MarkSent`, `MarkFailed`, `RemoveFiles` | `process_due_messages` and the delivery of one message |
| `RunAborts`, `Dies`, `LockConnectionLost` | a failed statement, a killed worker, the lock's session ends while the run goes on |

## 4. Runs

| Run | Question | Result |
|---|---|---|
| `inbox_safety` | Are the updates of a dialog taken in order and one at a time, each by one loop, and is none that was accepted lost, whatever is redelivered, committed late, killed and cleaned up? | yes; the order except around a row that appeared after a later one was claimed |
| `inbox_live` | Can partial commits, lost acknowledgements, handlers that outlive maintenance and retries make an update handled twice, replayed after known effects or reopened from review? Does every stored update settle, and does the inbox implement `AtMostOnceWork`? | no; yes; yes |
| `inbox_partial` | "A real commit may precede network delivery: after that, replay needs human review" | violated, see findings |
| `dispatch_safety` | Can lost and repeated jobs, slow dispatchers and killed consumers claim a start twice, run its funnel twice at once, complete it twice or retry it with effects, when an execution may slip past the fence? Does the outbox implement `AtMostOnceWork`? | no, but nothing is said of a retry after an execution without a claim; yes, such a dispatch being one the queue has lost track of |
| `dispatch_live` | Is every saved input processed or parked, does every hint reach Redis, and does only the administrator release a parked row, deferrals and host stalls included? | yes |
| `dispatch_evidence` | Does a row released by the administrator have effect-free evidence? | violated, see findings |
| `broadcast` | Does a chat get a campaign at most once, does a stop limit new starts to the tasks in flight, is a completed campaign settled, does a running campaign end? | yes |
| `broadcast_relaunch` | Is a chat spared a second delivery when a launch overlaps a start? | violated, see findings |
| `relay` | Can lost answers, requests given up, repeated events, kills, retries and a restored backup make a post or an event take effect twice, or close an unrecorded post? Does a rotation kill an accepted post? Is every accepted post confirmed or put aside as dead? | no; no; yes |
| `funnel_runtime` | Is an item repeated by retries, recovery or cancellation? Can the funnel of a chat stop without a failure that accounts for it? Does a pause end in silence? | only for the causes `disturbed` names; no, but three kinds of failure are told to nobody; yes |
| `scheduled_messages` | Is a message sent twice or after its cancellation, are its files gone while a delivery needs them, does one stay open? | no |
| `debounced_input` | Is a message given to the funnel twice, is a claim forgotten, does an input of a burst never run? | no; no; not where the funnel comes to rest, except for the inputs `Excused` names |

### Bounds, and why they are enough

- *Inbox*: two updates of one dialog are enough for order, overtaking and blocking
  (every condition of `_claim_inbox` compares two rows); two loops for every race of a
  claim. `MaxStamp` 1 gives equal and different timestamps. Dialogs do not interact: a
  row's only condition on other rows is about its own peer. `inbox_safety` has these
  with one attempt; `inbox_live` has one loop and two attempts, which reach retry and
  exhaustion, and does without `MarginHolds`, so that a claim is parked under a live
  handler.
- *Outbox*: one start with two loops and two consumers has every race of one row, the
  one that slips past the fence and the one that claims the row next included; rows do
  not interact. Three failures reach retry twice and exhaustion; the live run has an
  input that defers once and a hint. `MaxVersion` 2 lets the chat change before and
  after the snapshot.
- *Broadcast*: two recipients with Concurrency 1 make one task wait outside the
  semaphore; two runs meet when the lock is lost; one open request meets every step of
  a run; one crash, lost lock or failed statement, since each leaves nothing that a
  second one would combine with but the sweep, which the next run performs. The relaunch
  run has a second launch, which replaces rows under a run.
- *Relay*: two posts may be one post retried and one repetition of its event; two slots
  let a given-up request meet its successor or another post's, and every wait
  (`InsertWaits`, `EventBusy`) is between two transactions. Two versions of the endpoint
  have a current and an old key, with a grace period or revoked. One fault: a lost
  answer, a kill, a failed write or a restored backup each repeat a post once.
- *Funnel*: six steps have every kind: a message with plain, waiting and delayed
  items, an input with a timeout that may lead back to it, a delay, a loop, and three
  ways to end. An input that leads to itself is what the editor's validator allows
  (it looks for cycles without a runtime boundary only), and what lets a timeout meet
  another visit of its own question.
  Two workers execute a chat's jobs at once; a handler of messages, one of buttons and a
  manager meet them. The greeting may lead straight to the farewell, so that a job
  sees a transition into another message step. Two open jobs are as many as the funnel makes before it cancels the older. Two attempts
  reach requeue and exhaustion, two faults a failure of the retry; three acts a start,
  something that interrupts it, and an answer to that.
- *Scheduled messages*: the workers meet at one message and at the lock; the second
  message is the one still on the list of a run that has lost the lock. Two operators
  cancel at once. Two faults: a lost lock and a kill.
- *Debounced input*: three messages are a burst with a /start inside it or a burst and
  what supersedes it; two consumers meet through the lock released by a send. A
  repeated start, an input and a third message are what overtaking takes. One fault: a
  failure, a kill, a deletion or a closed chat.
- `delivered`, `completed`, `effects`: counters of history stop at two, where the properties fail.
- Deadlock is not checked: with bounded launches, deferrals, versions and crashes, and
  every item settled, the system really has nothing left to do.
- Symmetry is used only for runs without liveness, over loops, consumers and recipients,
  which the specifications treat alike.
- The largest runs have 1,223,160 (`funnel_runtime`), 780,613 (`dispatch_safety`) and
  509,332 (`debounced_input`) distinct states and take one to two minutes with two
  workers.

### Time and environment

Time is not a variable. A backoff, a delay or a lease may be over at any moment, which
includes every real schedule. Where the code relies on an order of durations, the model
says so: `MarginHolds` is the assumption that no handler body outlives its timeout by
the 60 s that `maintain_delivery_queues` adds. Runs and theorems that do not need it
are checked without it (`inbox_live`, `dispatch_live`). In `FunnelRuntime` a job is
recovered only when nobody executes it: an execution is cut off after 300 s, and
recovery takes jobs that have been running for 900 s. `Forgettable` uses that
Telegram repeats an update for 24 hours at most and receipts are kept for at least a
day (`max(TELEGRAM_INBOX_RETENTION_DAYS, 1)`).

### Fairness

Weak fairness of a loop's claim, of a handler that runs under `asyncio.timeout`, and of
writing (or failing to write) its failure: the loops are `while True` with a sleep and
catch every exception. Weak fairness of parking one stale claim: maintenance runs
every minute. For the outbox, strong fairness of a dispatch loop claiming *this* row,
of Redis accepting it and of recording it, and of a consumer starting a queued job:
rows are taken in the order of available_at, and Redis and the database are assumed to
work again and again, not always. Nothing is assumed of Telegram, operators, crashes
or the success of a handler. For broadcasts, weak fairness of the runs together: some
run takes a free lock (the loop polls every second) and, since HTTP calls and statements
have timeouts, some run or task goes on while there is work. For
the relay, an open request ends and its outcome is written (weak), and every post is
claimed again and again while it is claimable (strong: `claim` takes the job that is
longest due, and one that fails is due later than it was); faults end, because only
`MaxFaults` of them happen, which reads: the network and the databases work again. The
code keeps trying for as long as that takes.

For the funnel, a send is answered, a claimed job is started and a failure resolved
(calls and executions have timeouts), a pending job is claimed by some worker (both ARQ
and the polling loop look for it) and a stale one recovered: all weak. For scheduled
messages, each worker goes on (the loop polls every second), a time comes, and a request
that has begun ends. For debounced input, some consumer goes on while there is
work it may do, and the client stops typing. Nothing is assumed of the scheduled step:
an input that follows a repeated start is deferred for any pending or running job of
the current step, so that a chain of delays defers it again and a loop of delays defers
it for ever. TLC finds that loop (`BeginInput`, `DeferRest`, and again). `EveryInputRuns`
therefore has the premise `FunnelComesToRest`: from some time on nothing is scheduled.

## 5. Proofs

Checked by TLAPS for every value of the constants allowed by their assumptions.
Every invariant and every action property of the passing runs is a theorem, and so are
both refinements; liveness is not (see the end of this section).

- `TelegramInbox_proofs`: `SpecTypeOK`, `SpecHandledAtMostOnce`,
  `SpecNoReplayAfterKnownEffects`, `SpecOneLoopPerUpdate`, without `MarginHolds`.
  None of the last three is inductive. `IInv` adds `RowInv` (what a status says:
  a pending row has no known effect, was never handled and has attempts left; a deleted
  receipt belongs to an update Telegram will not repeat) and `LoopInv` (what a loop
  knows of its row: it is never pending, a loop in its handler has a row in processing
  or review that nobody handled, and known effects are remembered in the two flags or
  were made by a completed handler). One lemma per action carries `IInv`.
  The rest follows from what a step does to one row. `MoveStep` shows from `IInv` that
  every step moves each row in one of seven ways or leaves it alone (`Move`: stored,
  claimed, retried, parked, settled, performed while in review, forgotten). From it come
  `SpecReviewIsFinal`, `SpecNoAcceptedUpdateLost` and, since each move is a step of
  `AtMostOnceWork` for that item, the refinement `SpecImplementsAtMostOnceWork`.
  `SpecPeerOrder` and `SpecOneHandlerPerPeer` need `OrderInv`: `PeerOrder`, which is
  inductive once the moves are known (no step makes a finished row unfinished, a claim
  takes the first of its dialog, and a row stored later enters `overtakenBy` of those
  claimed before), and `ClaimInv` (a held row was claimed; under `MarginHolds` it stays
  in processing while its handler runs). Only `OneHandlerPerPeer` speaks of `MarginHolds`.
- `RuntimeDispatch_proofs`: `SpecTypeOK`, `SpecReviewLeftByAdminOnly` and
  `SpecCompletedAtMostOnce` without assumptions; `SpecOneConsumerPerDispatch`,
  `SpecAutomaticRetryIsClean` and the refinement `SpecImplementsAtMostOnceWork` under
  `StartsOnly == MarginHolds /\ MaxDefers = 0`. Executions that slip past the fence are
  among the steps everywhere. `SpecCompletedAtMostOnce` rests on `MessageInv` alone:
  who runs the funnel has claimed the message, no two have claimed the same one, and
  once the funnel has run to its end the message is taken and nobody runs it. The
  other invariants are `FailureInv` (a row that can still fail has failures left),
  `FenceInv` (a consumer that owns a row has a running one or one that was closed, and
  alone; a consumer without a claim has `bypassed` it), `CleanInv` (a pending row left
  nothing known behind, and a consumer remembers what it did, unless the row was
  bypassed) and `CompletionInv` (done and completed go together, unless the dispatch is
  `Adrift`). For the refinement, `MoveStep` shows that every step moves each dispatch in
  one of the ways of `AtMostOnceWork` or leaves it alone, and that what is `Adrift`
  stays so.

- `PostbackRelay_proofs`: `SpecTypeOK`, `SpecEffectsAtMostOnce`, `SpecDoneMeansRecorded`
  and `SpecRotationKeepsAccepted`, with no assumption but those on the bounds. `IInv` adds
  `EndpointInv` (keys only move forward; a revoked revision has an older key than the
  current one, so that a later rotation cannot give it a grace period again),
  `RequestInv` (only what was accepted is requested or recorded, so that a new post has
  no past), `LedgerInv` (a post without ledger row had no effect, and the transactions
  holding an uncommitted row are of different posts without one), `EventInv` (an event
  that took effect is in `applied`; of the transactions that are to commit an event at
  most one performs it, and then it was not applied before) and `VerdictInv` (a pending
  answer "ok" or "reject" is true when it is given and stays true, and so is the status
  it leads to). `EndpointStep`, `JobStep`, `AnswerStep` and `GoesStep` carry `IInv`
  through the kinds of steps, and each action is an instance of one or has a lemma of
  its own.

Why `StartsOnly`: an input may defer, which makes its row pending while the consumer
still unwinds. If the acknowledgement of that commit is lost, the consumer enters the
failure branch; if ARQ hands the job out again before the failure is written, the row
is running for the second consumer, and the first one's write, which matches key and
status only (`runtime_dispatch_service.py:70-72`), takes it away from that one. The
next claim then runs beside it. The window is narrow, but these properties do not hold
for deferring inputs, so neither runs nor theorems claim them. That the funnel runs to
its end at most once holds for those as well, and is proved for them.

- `ScheduledMessages_proofs`: `SpecTypeOK`, `SpecSentOnceOrCancelled` and
  `SpecFilesWhileNeeded`. The lock plays no part in the argument: `IInv` says that a message
  at work was claimed by one worker, is open or settled but not pending, and was not
  delivered while the worker has yet to send it (`WorkInv`), that a message which is
  pending or cancelled was not delivered (`DeliveryInv`), and what each open request may
  still write or remove (`RequestInv`). So the properties hold although any number of
  workers each believe they hold the lock.
- `DebouncedInput_proofs`: `SpecTypeOK`, `SpecRunAtMostOnce` and `SpecClaimsAreKept`. `IInv`
  adds `StoredInv` (a message that does not exist has no claim and no dispatch), `WorkInv`
  (the dispatch a consumer works on is running, and its alone, and belongs to the last
  message of its batch) and `RanInv` (what ran is
  claimed; of a batch, what has run ran once and the rest did not). A failure before the
  first commit undoes exactly what `RanInv` says happened; a later one leaves the
  dispatch in review, and since that is the dispatch of the batch's last message,
  `ClaimsAreKept` need fall back only on the dispatches of the same or a later message.
- `BroadcastDelivery_proofs`: `SpecTypeOK`, `SpecOnceUnlessOverlapped`,
  `SpecStopLimitsNewRecipients` and `SpecCompletedMeansSettled`, for any finite audience and
  any finite number of runs (`FiniteAssumption`; the run has one launch, the theorems
  have any number). `IInv` counts for a stop: as long as a campaign runs nothing has
  started since the stop, and always what has started and what stands checked inside a
  semaphore are together no more than the limit (`StopInv`). That the checked tasks of
  all runs are no more than the limit is `CheckedBounded`: tasks inside a gate are
  numbered up to Concurrency (`Numbering`), which maps all of them one to one into runs
  times numbers. `OnceInv` says that what is pending, or claimed by a task, has not been
  delivered, and that before a start no run has tasks; `SettledInv` that a row in flight
  has its task, a broken batch, or a sweep still to come. The last two hold
  only while nothing `overlapped`, `SettledInv` only while the lock held.

- `FunnelRuntime_proofs`: `SpecTypeOK`, `SpecNoRepeatUnlessDisturbed` and
  `SpecStallIsAccountedFor`, for any published graph and any number of workers, handlers,
  managers, jobs, acts and faults. Both depend on what a transaction leaves, so
  both parts of `IInv` are stated of the row and the jobs, and again of the ones in
  `saved`, which a failed resume brings back.
  `GoesInv` is for the stall: if the present step needs somebody (`Needs`: active, not
  waiting, not an input, no failure reported or untold), then a session works on it, or
  a pending job is for it, or a job is running that nobody executes and that will be
  recovered (`Due`). A session that has failed counts whatever step its job has, because
  its resolution either repoints the job (`RetryAt`) or accounts for the visit; a
  snapshot may count only on sessions other than managers.
  `VisitInv` is for the repetition, while nothing has `disturbed` the chat: at most one
  session is at work; at most one job, timeouts apart, can still send (`Ready`), none
  while somebody sends; what a session is about to send is behind everything sent on
  this visit (`Fits`); and so is what that job will send (`Suits`), unless the chat has
  left its step, when it is ignored (`Stale`), or it has no attempt left (`Spent`).
  A resume job is only ever a retry, and nothing was sent on its visit.
  `HeldInv` is for the recovery, and says the same of the job a worker executes: when
  its executor is lost it will be executed as it is, which repeats nothing unless its
  first item has been sent already (`Begun`), which is the case `Replays` names. Between
  that item and the one the worker sends nothing is left out, so that a job of which
  anything was sent is one whose first item was.
  `SessInv` and `StoreInv` say which positions and jobs there can be at all: a job has
  one executor, a running job an attempt counted, a sequence job an existing item.
  A transaction is a composition of operators on a row and jobs (`Enter`, `Play`,
  `MoveOn`, `Branch`), so the lemmas follow them: `LeaveStep`, `FinishStep` and
  `SendStep` say what the row and jobs handed to the end of a transaction must fulfil,
  `PlayStep`, `EnterStep`, `MoveOnStep` and `BranchStep` what suffices before it.

What an attempt to prove `NoRepeatUnlessDisturbed` found: an answer does not cancel the
timeout of its question (nothing in `process_incoming_message` does; only a new timeout
of the same step replaces it, `funnel_runtime_service.py:2271`), and the timeout asks
only whether the chat is at its step again (lines 1636 and 1756), not whether it is the
same visit. So `VisitInv` is not inductive with the timeouts among the jobs that can
send: one of an earlier visit fires while the question is due to be tried again; if it
leads back to that question, which is then asked, the retry asks once more. The funnel
checked before had no way back to a question while a retry of it was due, and could not
show this. The instance now has one, `disturbed` names the cause (`Overtakes`), and
without it TLC finds the repetition within seconds.

Only model-checked, since liveness under fairness is out of the prover's reach, as is
ENABLED: `EveryUpdateSettles`, `EveryInputSettles`, `EveryHintReachesRedis`,
`CampaignEnds`, `EveryPostSettles`, `PausedGoesQuiet`, `EveryMessageSettles` and
`EveryInputRuns`. The three properties that findings violate are not claimed, of course.

## 6. Findings

1. **Replay after an unacknowledged partial commit** (`inbox_partial`). The comment in
   `telegram_delivery_worker.py:65-66` promises human review after a real commit. When
   the connection dies while a partial commit (such as the early commit of a /start,
   `telegram_service.py:478`) is acknowledged, `after_commit` does not fire, the error
   is a lost connection, and the update is replayed.
2. **Stale evidence releases an attempt with effects** (`dispatch_evidence`).
   `diagnostics_json` of a harmless first failure survives the second claim. If that
   attempt sends and is killed, maintenance parks the row without touching the
   diagnostics, and the administrator's retry is offered and accepted as long as the
   chat's snapshot is unchanged.
3. **A launch over a started campaign** (`broadcast_relaunch`). `send_now` and
   `schedule` validate the status before the audience query and then replace the
   recipients unconditionally. A scheduled campaign that starts in between is
   delivered to the same chats again.

Noted without a run, because no document or test of the repository says otherwise, or
because the model only shows where the guarantee ends and a property names the case:

- *Outbox*: an execution may slip past the fence (`StartUnclaimed`), against the docstring
  "A partial committed/send attempt is not a retryable queue failure"
  (`runtime_dispatch_service.py:33`). Its failure is never recorded, because
  `claimed_id` is None (line 63 ff.), although it may have committed and sent; and its
  acknowledgement closes a row that another consumer has running. Apart from it, when
  the acknowledgement of the handler's first commit is lost, `after_commit` does not
  fire, the failure counts as free of effects and the start is tried again; the message
  is claimed by then, so that the retry answers "already_processed" and closes the row,
  although the funnel never ran to its end. The same follows a released review of an
  attempt with effects (finding 2). No run of the funnel is doubled by any of this, but
  one may be lost silently: these are the dispatches `Phase` calls adrift.

- *Broadcasts*: an edit writes back the status it read and may undo a pause or a
  start; `resume` keeps `started_at`, so that a reply which paused a campaign pauses it
  again at once; a list of due campaigns may be minutes old when its last entry starts,
  and `scheduled_at` is not looked at again.
- *Funnel*: a pause does not stop a handler or a job already under way, which goes on with
  the row it read before; what `PausedGoesQuiet` shows is that this ends. A recovered
  job keeps its type, step and index (`funnel_repository.py:902-915`), so that a crash in
  the middle of a message step sends again what was sent, also what is recorded as
  sent, and so does a read timeout, which counts as transient. A recovered job is
  ignored as stale when the chat had moved since its claim, so that the funnel stands
  still; the alert that there were stale jobs is the only sign. A job of an earlier
  visit of a step acts on a later one: the timeout of a question that was answered fires
  when the chat is at that question again, although a retry may be due there. A button
  pressed twice, or pressed before the sender has committed what it waits for, moves the
  chat twice or is overridden. A failed resume is rolled back whole although its first
  sends have arrived. These are the causes `disturbed` names. Three kinds of failure
  stop a funnel and are told to nobody (`untold`): what the handler of a button raises is
  only logged (`telegram_service.py:1843`); a job whose send reports the bot blocked is
  cancelled without an alert, and nothing goes on when the user lets the bot in again;
  and an executor may die whose job had been deleted under it. An alert
  itself may be lost with the process that sends it; the model takes it for made.
- *Debounced input*: once a send has released the chat lock, a later batch may overtake
  the one under way. When the earlier one's rest is then deferred for a scheduled step,
  its dispatch comes back, counts as superseded and is acknowledged, and the text is
  never given to the funnel unless another message comes (`overtaken`), although the code
  means "text before/after /start is never discarded" (`telegram_service.py:1306-1307`).
  An input superseded by a contact, a command or a start, or by a message that is deleted
  before it runs, waits for the next input. These are inputs `Excused` names. A loop of
  delays defers an input without end.

## 7. Not modelled

PROJECT.json lists every component with the reason. In short: third-party clients
(MTProto), formatting and I/O (exports, reports, backups, external event APIs), and
CRUD without concurrency. That is most of the repository by lines: request handlers,
SQL aggregates, the editors and validators of funnels, and integrations, none of which
has a state machine of its own beyond the queues modelled here. What has one and is
still open is step 10 of the plan.

Left out of every module are payloads, wording, pacing and 429 retries of Telegram
calls, and metrics. Inside the modelled components:

- *Relay*: what only refuses intake (an expired manifest, a full disk, a malformed
  request), the heartbeat, clocks that differ between gateway and CRM, and envelopes of
  the older protocol.
- *Funnel*: steps and jobs of AI blocks, delayed prompts of an input, no-reply timers and
  automatic advances, the periodic chat action, manager review, the effects of
  conditions, actions and integrations, the engagement after a repeated start, the
  ownership of a chat by an advertising scenario, and times: a pending job may run at any
  moment.
- *Debounced input*: the first live input of a named account that starts the funnel, the
  repeated start of an imported lead (claimed at the intake), the recovery of
  starts from before the outbox, the answer `already_processing` (not reachable under
  the chat lock), an administrator's release of a review (see `RuntimeDispatch`), and
  what becomes of a command that is no longer configured.
- *Scheduled messages*: rows deleted from outside, translation, and what
  `create_message` does besides sending and storing.
- *Broadcasts*: templates, the audience preview, media, the parts of one recipient's
  content, several campaigns of one bot, and the time `scheduled_at`.
