--------------------------- MODULE RuntimeDispatch ---------------------------
(***************************************************************************)
(* The outbox runtime_dispatches: intentions to run a funnel are saved in  *)
(* the transaction of the message they belong to, a dispatch loop hands    *)
(* them to Redis/ARQ, and an ARQ consumer executes each one behind a       *)
(* durable fence (protect_dispatch_replay).  Uncertain executions are      *)
(* parked in review; an administrator may release one.                     *)
(*                                                                         *)
(* The fence is two statements, each with a snapshot of its own: an UPDATE *)
(* that claims a pending row and, where it found none, a SELECT of the     *)
(* status.  A row that became pending in between refuses nobody: its       *)
(* handler runs without a claim.  What then still keeps the funnel from    *)
(* running twice is the claim of the user's message, which the handler     *)
(* makes under the lock of the chat row.                                   *)
(*                                                                         *)
(* Any time may pass between two steps, so available_at is not a state: a  *)
(* pending row can be dispatched as soon as it could be due.  What remains *)
(* of it is the fence of the dispatch loop: its closing update applies     *)
(* only if available_at is still the value it wrote.                       *)
(***************************************************************************)
EXTENDS Naturals, FiniteSets

CONSTANTS
  Inputs,        \* dispatches of kind input or start: their consumer settles them
  Hints,         \* dispatches of kind scheduled or action: settled by Redis
  Loops,         \* dispatch loops (one per telegram-delivery process)
  Consumers,     \* ARQ worker slots running user-input and start jobs
  MaxFailures,   \* RUNTIME_DISPATCH_MAX_FAILURES
  MaxDefers,     \* bound: how often one input waits for a scheduled step
  MaxVersion,    \* bound: changes of the chat snapshot
  MarginHolds,   \* TRUE: no job outlives its ARQ timeout plus 60 s
  None           \* "no loop", "no dispatch", "no evidence"

Dispatches == Inputs \cup Hints

ASSUME KindAssumption     == Inputs \cap Hints = {}
ASSUME FailuresAssumption == MaxFailures \in Nat \ {0}
ASSUME BoundAssumption    == MaxDefers \in Nat /\ MaxVersion \in Nat
ASSUME MarginAssumption   == MarginHolds \in BOOLEAN
ASSUME NoneAssumption     == None \notin Loops /\ None \notin Dispatches /\ None \notin Nat

VARIABLES
  \* table runtime_dispatches (status "none": no row yet, "purged": no row
  \* any more); fence: the loop that wrote available_at last; evidence: the
  \* snapshot diagnostics_json offers for a replay
  status, fence, failures, evidence, defers,
  \* what runtime_snapshot hashes: the chat, its funnel state, its last input
  chatVersion,
  \* Redis: the ARQ job with the stable id of each input or start (the jobs of
  \* hints run elsewhere: scheduled ones are FunnelRuntime's)
  job,
  \* funnel_processed_at of the user's message: "claimed" by a transaction that
  \* has not committed and holds the chat row, or "taken" for good
  message,
  \* dispatch loops
  holding, answer,
  \* ARQ consumers; owns: its UPDATE claimed the row (claimed_id); performs: it
  \* has claimed the message, and runs the funnel
  pc, cur, owns, performs, snapshot, committed, ioStarted,
  \* history
  completed,     \* runs of the funnel that committed their end, up to 2
  dirty,         \* known effects since the last completion, deferral or release
  bypassed       \* a consumer has executed the dispatch without a claim of its row

rowVars      == <<status, fence, failures, evidence, defers>>
loopVars     == <<holding, answer>>
consumerVars == <<pc, cur, owns, performs, snapshot, committed, ioStarted>>
historyVars  == <<completed, dirty, bypassed>>
vars == <<rowVars, chatVersion, job, message, loopVars, consumerVars, historyVars>>

Statuses == {"none", "pending", "running", "done", "review", "purged"}
Versions == 0..MaxVersion

Executing(c) == pc[c] = "running"
Busy(c)      == pc[c] # "idle"

TypeOK ==
  /\ status \in [Dispatches -> Statuses]
  /\ fence \in [Dispatches -> Loops \cup {None}]
  /\ failures \in [Dispatches -> 0..MaxFailures]
  /\ evidence \in [Dispatches -> Versions \cup {None}]
  /\ defers \in [Dispatches -> 0..MaxDefers]
  /\ chatVersion \in Versions
  /\ job \in [Inputs -> {"absent", "queued", "active"}]
  /\ holding \in [Loops -> Dispatches \cup {None}]
  /\ answer \in [Loops -> {"none", "accepted", "failed"}]
  /\ message \in [Inputs -> {"new", "claimed", "taken"}]
  /\ pc \in [Consumers -> {"idle", "missed", "running", "failing"}]
  /\ cur \in [Consumers -> Inputs \cup {None}]
  /\ \A c \in Consumers : Busy(c) => cur[c] \in Inputs
  /\ owns \in [Consumers -> BOOLEAN]
  /\ performs \in [Consumers -> BOOLEAN]
  /\ snapshot \in [Consumers -> Versions]
  /\ committed \in [Consumers -> BOOLEAN]
  /\ ioStarted \in [Consumers -> BOOLEAN]
  /\ completed \in [Dispatches -> 0..2]
  /\ dirty \in [Dispatches -> BOOLEAN]
  /\ bypassed \in [Dispatches -> BOOLEAN]

Init ==
  /\ status = [d \in Dispatches |-> "none"]
  /\ fence = [d \in Dispatches |-> None]
  /\ failures = [d \in Dispatches |-> 0]
  /\ evidence = [d \in Dispatches |-> None]
  /\ defers = [d \in Dispatches |-> 0]
  /\ chatVersion = 0
  /\ job = [d \in Inputs |-> "absent"]
  /\ message = [d \in Inputs |-> "new"]
  /\ holding = [l \in Loops |-> None]
  /\ answer = [l \in Loops |-> "none"]
  /\ pc = [c \in Consumers |-> "idle"]
  /\ cur = [c \in Consumers |-> None]
  /\ owns = [c \in Consumers |-> FALSE]
  /\ performs = [c \in Consumers |-> FALSE]
  /\ snapshot = [c \in Consumers |-> 0]
  /\ committed = [c \in Consumers |-> FALSE]
  /\ ioStarted = [c \in Consumers |-> FALSE]
  /\ completed = [d \in Dispatches |-> 0]
  /\ dirty = [d \in Dispatches |-> FALSE]
  /\ bypassed = [d \in Dispatches |-> FALSE]

-----------------------------------------------------------------------------
(* Saving an intention; the chat's own life.                               *)

\* INSERT .. ON CONFLICT (dedupe_key) DO NOTHING in the caller's transaction.
SaveRuntimeDispatch(d) ==
  /\ status[d] = "none"
  /\ status' = [status EXCEPT ![d] = "pending"]
  /\ UNCHANGED <<fence, failures, evidence, defers, chatVersion, job, message, loopVars,
                 consumerVars, historyVars>>

\* A new answer, an edit, a published version, a manager's pause ...
ChatChanges ==
  /\ chatVersion < MaxVersion
  /\ chatVersion' = chatVersion + 1
  /\ UNCHANGED <<rowVars, job, message, loopVars, consumerVars, historyVars>>

-----------------------------------------------------------------------------
(* dispatch_once: claim, Redis call without a transaction, record.         *)

DispatchClaim(l) ==
  /\ holding[l] = None
  /\ \E d \in Dispatches :
       /\ status[d] = "pending"
       /\ fence' = [fence EXCEPT ![d] = l]
       /\ holding' = [holding EXCEPT ![l] = d]
  /\ UNCHANGED <<status, failures, evidence, defers, chatVersion, job, message, answer,
                 consumerVars, historyVars>>

\* A job id that is queued or in progress is not enqueued again.
Enqueue(d) == job' = IF d \in Inputs /\ job[d] = "absent"
                       THEN [job EXCEPT ![d] = "queued"] ELSE job

DispatchAccepted(l) ==
  /\ holding[l] # None /\ answer[l] = "none"
  /\ Enqueue(holding[l])
  /\ answer' = [answer EXCEPT ![l] = "accepted"]
  /\ UNCHANGED <<rowVars, chatVersion, message, holding, consumerVars, historyVars>>

\* Redis is down or times out; it may have stored the job all the same.
DispatchFailed(l) ==
  /\ holding[l] # None /\ answer[l] = "none"
  /\ Enqueue(holding[l]) \/ UNCHANGED job
  /\ answer' = [answer EXCEPT ![l] = "failed"]
  /\ UNCHANGED <<rowVars, chatVersion, message, holding, consumerVars, historyVars>>

\* Input and start dispatches stay pending until their consumer settles them.
ClosedByRedisMutant1(l) == answer[l] = "accepted"

ClosedByRedisMutant2(l) == answer[l] = "accepted" /\ holding[l] \in Inputs

ClosedByRedis(l) == answer[l] = "accepted" /\ holding[l] \in Hints

\* UPDATE .. WHERE id AND status = 'pending' AND available_at = claimed_until.
DispatchRecord(l) ==
  LET d == holding[l]
      applies == status[d] = "pending" /\ fence[d] = l
  IN /\ d # None /\ answer[l] # "none"
     /\ status' = IF applies /\ ClosedByRedis(l)
                    THEN [status EXCEPT ![d] = "done"] ELSE status
     /\ fence' = IF applies THEN [fence EXCEPT ![d] = None] ELSE fence
     /\ holding' = [holding EXCEPT ![l] = None]
     /\ answer' = [answer EXCEPT ![l] = "none"]
     /\ UNCHANGED <<failures, evidence, defers, chatVersion, job, message, consumerVars,
                    historyVars>>

\* The process stops, or the closing transaction fails: the loop starts over.
DispatchAbandoned(l) ==
  /\ holding[l] # None
  /\ holding' = [holding EXCEPT ![l] = None]
  /\ answer' = [answer EXCEPT ![l] = "none"]
  /\ UNCHANGED <<rowVars, chatVersion, job, message, consumerVars, historyVars>>

-----------------------------------------------------------------------------
(* ARQ (external): jobs taken, lost, or handed out again.                  *)

\* Redis forgets a job.
RedisLosesJob(d) ==
  /\ job[d] # "absent"
  /\ job' = [job EXCEPT ![d] = "absent"]
  /\ UNCHANGED <<rowVars, chatVersion, message, loopVars, consumerVars, historyVars>>

\* The in-progress mark of a job expires: the job is handed out again, even
\* though its first runner may still be alive.
JobReappears(d) ==
  /\ job[d] = "active"
  /\ job' = [job EXCEPT ![d] = "queued"]
  /\ UNCHANGED <<rowVars, chatVersion, message, loopVars, consumerVars, historyVars>>

\* The runner's job key is deleted, or kept for another try.
JobEnds(d)    == job' = IF job[d] = "active" THEN [job EXCEPT ![d] = "absent"] ELSE job
JobRetries(d) == job' = IF job[d] = "active" THEN [job EXCEPT ![d] = "queued"] ELSE job

-----------------------------------------------------------------------------
(* process_user_input_task / process_funnel_start_task.                    *)

RunnableMutant(d) == status[d] \in {"pending", "running"}

Runnable(d) == status[d] = "pending"

\* protect_dispatch_replay: UPDATE .. SET running WHERE pending, with the chat
\* snapshot of that moment, in a transaction of its own.
StartJob(c, d) ==
  /\ pc[c] = "idle" /\ job[d] = "queued"
  /\ Runnable(d)
  /\ job' = [job EXCEPT ![d] = "active"]
  /\ status' = [status EXCEPT ![d] = "running"]
  /\ pc' = [pc EXCEPT ![c] = "running"]
  /\ cur' = [cur EXCEPT ![c] = d]
  /\ owns' = [owns EXCEPT ![c] = TRUE]
  /\ snapshot' = [snapshot EXCEPT ![c] = chatVersion]
  /\ UNCHANGED <<fence, failures, evidence, defers, chatVersion, message, loopVars,
                 performs, committed, ioStarted, historyVars>>

\* The UPDATE finds no pending row; the SELECT of the status is still to come.
ClaimMissed(c, d) ==
  /\ pc[c] = "idle" /\ job[d] = "queued"
  /\ ~Runnable(d)
  /\ job' = [job EXCEPT ![d] = "active"]
  /\ pc' = [pc EXCEPT ![c] = "missed"]
  /\ cur' = [cur EXCEPT ![c] = d]
  /\ UNCHANGED <<rowVars, chatVersion, message, loopVars, owns, performs, snapshot,
                 committed, ioStarted, historyVars>>

\* The coroutine returns or unwinds: its local state is gone.
Return(c) ==
  /\ pc' = [pc EXCEPT ![c] = "idle"]
  /\ cur' = [cur EXCEPT ![c] = None]
  /\ owns' = [owns EXCEPT ![c] = FALSE]
  /\ performs' = [performs EXCEPT ![c] = FALSE]
  /\ snapshot' = [snapshot EXCEPT ![c] = 0]
  /\ committed' = [committed EXCEPT ![c] = FALSE]
  /\ ioStarted' = [ioStarted EXCEPT ![c] = FALSE]

\* The statuses the SELECT turns away.
Refused(d) == status[d] \in {"running", "done", "review"}

\* RuntimeDispatchAlreadyHandled / RuntimeDispatchNeedsReview: the job ends.
RefuseJob(c) ==
  /\ pc[c] = "missed" /\ Refused(cur[c])
  /\ JobEnds(cur[c])
  /\ Return(c)
  /\ UNCHANGED <<rowVars, chatVersion, message, loopVars, historyVars>>

\* A failure write or a retry has made the row pending since the UPDATE: no
\* status refuses the job, and the handler runs with claimed_id None.
StartUnclaimed(c) ==
  /\ pc[c] = "missed" /\ ~Refused(cur[c])
  /\ pc' = [pc EXCEPT ![c] = "running"]
  /\ bypassed' = [bypassed EXCEPT ![cur[c]] = TRUE]
  /\ UNCHANGED <<rowVars, chatVersion, job, message, loopVars, cur, owns, performs,
                 snapshot, committed, ioStarted, completed, dirty>>

\* The database fails between the two statements: the task raises.
LookupFails(c) ==
  /\ pc[c] = "missed"
  /\ JobEnds(cur[c]) \/ JobRetries(cur[c])
  /\ Return(c)
  /\ UNCHANGED <<rowVars, chatVersion, message, loopVars, historyVars>>

\* What the runtime writes may be part of the snapshot, or not.
RuntimeWrites == chatVersion' \in {chatVersion, chatVersion + 1} \cap Versions

UnprocessedMutant(d) == message[d] # "claimed"

\* claim_funnel_processing waits for the lock of the chat row first, and finds
\* what the transaction before it has left.
Unprocessed(d) == message[d] = "new"

\* get_for_runtime_input and claim_funnel_processing: from here on the consumer
\* runs the funnel.  (An execution that finds the chat gone or its input
\* superseded is one that claims the message and ends.)
ClaimMessage(c) ==
  /\ Executing(c) /\ ~performs[c] /\ Unprocessed(cur[c])
  /\ message' = [message EXCEPT ![cur[c]] = "claimed"]
  /\ performs' = [performs EXCEPT ![c] = TRUE]
  /\ UNCHANGED <<rowVars, chatVersion, job, loopVars, pc, cur, owns, snapshot, committed,
                 ioStarted, historyVars>>

\* The runtime commits on its own (before network calls, between steps); the
\* first commit makes the claim of the message durable and unlocks the chat.
HandlerCommits(c) ==
  /\ Executing(c) /\ performs[c]
  /\ committed' = [committed EXCEPT ![c] = TRUE]
  /\ dirty' = [dirty EXCEPT ![cur[c]] = TRUE]
  /\ message' = [message EXCEPT ![cur[c]] = "taken"]
  /\ RuntimeWrites
  /\ UNCHANGED <<rowVars, job, loopVars, pc, cur, owns, performs, snapshot, ioStarted, completed, bypassed>>

HandlerSends(c) ==
  /\ Executing(c) /\ performs[c]
  /\ ioStarted' = [ioStarted EXCEPT ![c] = TRUE]
  /\ dirty' = [dirty EXCEPT ![cur[c]] = TRUE]
  /\ UNCHANGED <<rowVars, chatVersion, job, message, loopVars, pc, cur, owns, performs,
                 snapshot, committed, completed, bypassed>>

\* The handler raises, and its open transaction is rolled back.
Raise(c) ==
  /\ pc' = [pc EXCEPT ![c] = "failing"]
  /\ performs' = [performs EXCEPT ![c] = FALSE]
  /\ UNCHANGED <<cur, owns, snapshot, committed, ioStarted>>

RolledBack(c) ==
  IF performs[c] /\ message[cur[c]] = "claimed"
    THEN [message EXCEPT ![cur[c]] = "new"] ELSE message

\* acknowledge_runtime_dispatch
CloseRowMutant(d) == status' = [status EXCEPT ![d] = "done"]

CloseRow(d) ==
  status' = IF status[d] \in {"pending", "running"}
              THEN [status EXCEPT ![d] = "done"] ELSE status

\* It is part of the handler's last transaction.
Acknowledge(c) ==
  LET d == cur[c]
  IN /\ performs[c]
     /\ CloseRow(d)
     /\ completed' = [completed EXCEPT ![d] = IF @ = 0 THEN 1 ELSE 2]
     /\ dirty' = [dirty EXCEPT ![d] = FALSE]
     /\ message' = [message EXCEPT ![d] = "taken"]
     /\ UNCHANGED <<fence, defers>>

\* "already_processed": nothing is left to run, and the row is acknowledged.
AcknowledgeProcessed(c) ==
  /\ ~performs[c] /\ message[cur[c]] = "taken"
  /\ CloseRow(cur[c])
  /\ UNCHANGED <<fence, defers, completed, dirty, message>>

\* defer_runtime_dispatch: the input waits for a scheduled step and gives its
\* message back, or for a client who is still typing and has claimed nothing.
Defer(c) ==
  LET d == cur[c]
  IN /\ defers[d] < MaxDefers
     /\ defers' = [defers EXCEPT ![d] = @ + 1]
     /\ IF status[d] \in {"pending", "running"}
          THEN /\ status' = [status EXCEPT ![d] = "pending"]
               /\ fence' = [fence EXCEPT ![d] = None]
          ELSE UNCHANGED <<status, fence>>
     /\ IF performs[c]
          THEN /\ dirty' = [dirty EXCEPT ![d] = FALSE]
               /\ message' = [message EXCEPT ![d] = "new"]
          ELSE UNCHANGED <<dirty, message>>
     /\ UNCHANGED completed

FinishJob(c) ==
  /\ Executing(c)
  /\ Acknowledge(c) \/ AcknowledgeProcessed(c)
  /\ JobEnds(cur[c])
  /\ Return(c)
  /\ RuntimeWrites
  /\ UNCHANGED <<failures, evidence, loopVars, bypassed>>

\* raise Retry(defer=..) after the commit; ARQ gives up after its own limit.
DeferJob(c) ==
  /\ Executing(c)
  /\ Defer(c)
  /\ JobRetries(cur[c]) \/ JobEnds(cur[c])
  /\ Return(c)
  /\ RuntimeWrites
  /\ UNCHANGED <<failures, evidence, loopVars, bypassed>>

\* The last transaction was applied, its acknowledgement was lost.
FinishUnacknowledged(c) ==
  /\ Executing(c)
  /\ Acknowledge(c) \/ AcknowledgeProcessed(c) \/ Defer(c)
  /\ Raise(c)
  /\ RuntimeWrites
  /\ UNCHANGED <<failures, evidence, job, loopVars, bypassed>>

\* A commit of the runtime's own was applied, its acknowledgement was lost:
\* after_commit never runs.
HandlerCommitUnacknowledged(c) ==
  /\ Executing(c) /\ performs[c]
  /\ message' = [message EXCEPT ![cur[c]] = "taken"]
  /\ RuntimeWrites
  /\ Raise(c)
  /\ UNCHANGED <<rowVars, job, loopVars, completed, dirty, bypassed>>

\* Any exception, ARQ's timeout and the cancellation of a shutdown included.
JobFails(c) ==
  /\ Executing(c)
  /\ message' = RolledBack(c)
  /\ Raise(c)
  /\ UNCHANGED <<rowVars, chatVersion, job, loopVars, historyVars>>

NoEffectsMutant(c) == ~committed[c]

NoEffects(c) == ~committed[c] /\ ~ioStarted[c]

FailuresLeftMutant(d) == failures[d] < MaxFailures

FailuresLeft(d) == failures[d] + 1 < MaxFailures

SafeRetry(c) == NoEffects(c) /\ FailuresLeft(cur[c])

\* Only a row still running takes the failure.
TakesFailure(d) == status[d] = "running"

\* The except branch of protect_dispatch_replay, for a row it has claimed.
\* retryable: what retryable_database_error says of the exception.
RecordFailure(c) ==
  LET d == cur[c]
  IN /\ pc[c] = "failing"
     /\ IF owns[c] /\ TakesFailure(d)
          THEN /\ \E retryable \in BOOLEAN :
                    status' = [status EXCEPT ![d] = IF retryable /\ SafeRetry(c)
                                                      THEN "pending" ELSE "review"]
               /\ failures' = [failures EXCEPT ![d] = @ + 1]
               /\ evidence' = [evidence EXCEPT ![d] = IF NoEffects(c) THEN snapshot[c] ELSE None]
               /\ fence' = [fence EXCEPT ![d] = None]
          ELSE UNCHANGED <<status, failures, evidence, fence>>
     /\ JobEnds(d) \/ JobRetries(d)
     /\ Return(c)
     /\ UNCHANGED <<defers, chatVersion, message, loopVars, historyVars>>

\* "Could not persist uncertain runtime dispatch": the row stays running.
FailureNotRecorded(c) ==
  /\ pc[c] = "failing"
  /\ JobEnds(cur[c]) \/ JobRetries(cur[c])
  /\ Return(c)
  /\ UNCHANGED <<rowVars, chatVersion, message, loopVars, historyVars>>

\* The jobs process is killed, and its transactions are rolled back.
Crash ==
  /\ \E c \in Consumers : Busy(c)
  /\ pc' = [c \in Consumers |-> "idle"]
  /\ cur' = [c \in Consumers |-> None]
  /\ owns' = [c \in Consumers |-> FALSE]
  /\ performs' = [c \in Consumers |-> FALSE]
  /\ snapshot' = [c \in Consumers |-> 0]
  /\ committed' = [c \in Consumers |-> FALSE]
  /\ ioStarted' = [c \in Consumers |-> FALSE]
  /\ message' = [d \in Inputs |-> IF message[d] = "claimed" THEN "new" ELSE message[d]]
  /\ UNCHANGED <<rowVars, chatVersion, job, loopVars, historyVars>>

-----------------------------------------------------------------------------
(* Maintenance and the administrator.                                      *)

StaleMutant == {d \in Inputs : status[d] = "running" /\ failures[d] > 0}

\* claimed_at is older than the timeout of a job plus 60 s.
Stale == {d \in Inputs : status[d] = "running"
            /\ (MarginHolds => \A c \in Consumers : owns[c] => cur[c] # d)}

\* A receipt is deleted at least a day after its row was done.
Forgettable == {d \in Dispatches : /\ status[d] = "done"
                                   /\ d \in Inputs => job[d] = "absent"
                                   /\ \A c \in Consumers : cur[c] # d
                                   /\ \A l \in Loops : holding[l] # d}

Maintain(stale, old) ==
  /\ stale \cup old # {}
  /\ status' = [d \in Dispatches |-> IF d \in stale THEN "review"
                                     ELSE IF d \in old THEN "purged" ELSE status[d]]
  /\ UNCHANGED <<fence, failures, evidence, defers, chatVersion, job, message, loopVars,
                 consumerVars, historyVars>>

MaintainDeliveryQueues ==
  \E stale \in SUBSET Stale : \E old \in SUBSET Forgettable : Maintain(stale, old)

\* RuntimeReviewService.retry: the row is in review, its diagnostics say the
\* failed attempt had no effects, and the chat is as that attempt found it.
CanRetry(d) == status[d] = "review" /\ evidence[d] = chatVersion

RetryReview(d) ==
  /\ CanRetry(d)
  /\ status' = [status EXCEPT ![d] = "pending"]
  /\ fence' = [fence EXCEPT ![d] = None]
  /\ failures' = [failures EXCEPT ![d] = 0]
  /\ evidence' = [evidence EXCEPT ![d] = None]
  /\ dirty' = [dirty EXCEPT ![d] = FALSE]
  /\ UNCHANGED <<defers, chatVersion, job, message, loopVars, consumerVars, completed, bypassed>>

-----------------------------------------------------------------------------
LoopStep(l) ==
  \/ DispatchClaim(l) \/ DispatchAccepted(l) \/ DispatchFailed(l)
  \/ DispatchRecord(l) \/ DispatchAbandoned(l)

ConsumerStep(c) ==
  \/ \E d \in Inputs : StartJob(c, d) \/ ClaimMissed(c, d)
  \/ RefuseJob(c) \/ StartUnclaimed(c) \/ LookupFails(c) \/ ClaimMessage(c)
  \/ HandlerCommits(c) \/ HandlerSends(c) \/ HandlerCommitUnacknowledged(c)
  \/ FinishJob(c) \/ DeferJob(c) \/ FinishUnacknowledged(c) \/ JobFails(c)
  \/ RecordFailure(c) \/ FailureNotRecorded(c)

Next ==
  \/ ChatChanges
  \/ \E d \in Dispatches : SaveRuntimeDispatch(d)
  \/ \E d \in Inputs : RedisLosesJob(d) \/ JobReappears(d) \/ RetryReview(d)
  \/ \E l \in Loops : LoopStep(l)
  \/ \E c \in Consumers : ConsumerStep(c)
  \/ Crash
  \/ MaintainDeliveryQueues

\* The loops never stop polling and take rows in the order of available_at;
\* Redis accepts a call and the database records it from time to time; ARQ runs
\* a queued job from time to time, hands an orphaned one out again and ends a
\* job at its timeout; maintenance runs every minute.
Fairness ==
  /\ \A l \in Loops :
       /\ WF_vars(DispatchFailed(l) \/ DispatchRecord(l))
       /\ \A d \in Dispatches :
            /\ SF_vars(DispatchClaim(l) /\ holding'[l] = d)
            /\ SF_vars(DispatchAccepted(l) /\ holding[l] = d)
            /\ SF_vars(DispatchRecord(l) /\ holding[l] = d /\ answer[l] = "accepted")
  /\ \A c \in Consumers :
       /\ WF_vars(RefuseJob(c) \/ StartUnclaimed(c) \/ LookupFails(c))
       /\ WF_vars(JobFails(c))
       /\ WF_vars(RecordFailure(c) \/ FailureNotRecorded(c))
  /\ \A d \in Inputs :
       /\ SF_vars(\E c \in Consumers : StartJob(c, d))
       /\ WF_vars(JobReappears(d) /\ \A c \in Consumers : cur[c] # d)
       /\ WF_vars(MaintainDeliveryQueues /\ status[d] = "running" /\ status'[d] = "review")

Spec == Init /\ [][Next]_vars
FairSpec == Spec /\ Fairness

-----------------------------------------------------------------------------
(* Properties.                                                             *)

\* Whatever Redis hands out again: two consumers never hold a claim of the same
\* row, and never run the funnel for the same message, not even when one of
\* them has slipped past the fence.
OneConsumerPerDispatch ==
  \A c1, c2 \in Consumers :
    c1 # c2 /\ cur[c1] = cur[c2] => ~(owns[c1] /\ owns[c2]) /\ ~(performs[c1] /\ performs[c2])

\* The funnel runs to its end at most once for an input or start, across lost
\* acknowledgements, killed workers, repeated jobs, executions without a claim
\* and released reviews.
CompletedAtMostOnce == \A d \in Inputs : completed[d] <= 1

\* The queue retries on its own only what left nothing behind; a deferral is
\* the handler's own committed decision and no retry.  Nothing is promised of
\* a dispatch that was executed without a claim: that execution leaves effects
\* no row records, while another one fails without any.
AutomaticRetryIsClean ==
  [][\A d \in Inputs :
       status[d] = "running" /\ status'[d] = "pending" => bypassed'[d] \/ ~dirty'[d]]_vars

LeavesReviewByRetry ==
  \A d \in Inputs : status[d] = "review" /\ status'[d] # "review" => RetryReview(d)

\* Only the audited retry of an administrator moves a row out of review: no
\* late acknowledgement, deferral or failure write of an earlier consumer.
ReviewLeftByAdminOnly == [][LeavesReviewByRetry]_vars

\* What the administrator may release has left no effects behind.
ReleaseNeedsEffectFreeEvidence ==
  [][\A d \in Inputs :
       status[d] = "review" /\ status'[d] = "pending" => ~dirty[d]]_vars

\* A saved intention is not forgotten: a funnel input is processed or put
\* before a human, whatever happens to Redis, ARQ and the workers.
EveryInputSettles ==
  \A d \in Inputs : status[d] \in {"pending", "running"} ~> status[d] \in {"done", "review"}

\* A hint reaches Redis, and only then stops being pending.
EveryHintReachesRedis ==
  \A d \in Hints : status[d] = "pending" ~> status[d] = "done"

\* The message is taken for good, but the funnel has neither run to its end nor
\* left a known effect: the acknowledgement of a commit was lost, or the row was
\* released although it had effects.
Unaccounted(d) == d \in Inputs /\ message[d] = "taken" /\ completed[d] = 0 /\ ~dirty[d]

\* The outbox promises what AtMostOnceWork describes, an input or start being
\* performed when the funnel has run to its end.  A dispatch leaves its care
\* when it is executed without a claim, or unaccounted for: the next execution
\* closes the row then, although the funnel never ran to its end.
Phase(d) ==
  IF bypassed[d] \/ Unaccounted(d) THEN "adrift"
  ELSE CASE status[d] = "none"                     -> "none"
         [] status[d] \in {"pending", "running"}   -> "open"
         [] status[d] = "done"                     -> "closed"
         [] status[d] = "review"                   -> "parked"
         [] OTHER                                  -> "gone"

Work == INSTANCE AtMostOnceWork WITH
          Items <- Dispatches, Droppable <- Hints, CanReopen <- TRUE, Losable <- Inputs,
          phase <- [d \in Dispatches |-> Phase(d)], performed <- completed

ImplementsAtMostOnceWork == Work!Spec
=============================================================================
