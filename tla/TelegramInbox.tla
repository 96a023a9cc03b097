---------------------------- MODULE TelegramInbox ----------------------------
(***************************************************************************)
(* Durable intake of Telegram updates: the webhook stores an update in the *)
(* table telegram_inbox, and the intake loops of the telegram-delivery     *)
(* worker claim the rows, run the handler and settle them.                 *)
(*                                                                         *)
(* One bot.  A row is identified by its update_id, an integer.  created_at *)
(* is a stamp of a coarse clock, so that two rows may share one.  Any time *)
(* may pass between two steps: a pending row can be claimed as soon as its *)
(* backoff could have elapsed, and a claim can be found stale as soon as   *)
(* it could be older than the handler's timeout plus 60 s.                 *)
(***************************************************************************)
EXTENDS Integers, FiniteSets

CONSTANTS
  Updates,       \* update_ids Telegram may deliver
  Peer,          \* the peer_key of each update
  Workers,       \* intake loops of one telegram-delivery process
  MaxAttempts,   \* TELEGRAM_INBOX_MAX_ATTEMPTS
  MaxStamp,      \* bound on the clock that dates rows
  MarginHolds    \* TRUE: no timed handler body outlives its 60 s grace period

ASSUME UpdatesAssumption  == Updates \subseteq Nat
ASSUME PeerAssumption     == DOMAIN Peer = Updates
ASSUME AttemptsAssumption == MaxAttempts \in Nat \ {0}
ASSUME StampAssumption    == MaxStamp \in Nat
ASSUME MarginAssumption   == MarginHolds \in BOOLEAN

VARIABLES
  \* table telegram_inbox (status "none": no row)
  status, created, attempts,
  \* webhook side: the bot row, open requests, and what Telegram was told
  botDeleted, requests, acked, clock,
  \* intake loops
  pc, cur, committed, ioStarted, retryable,
  \* history
  effects,       \* what attempts on each update made durable or visible
  handled,       \* how many final commits each update had
  overtakenBy    \* later rows of the peer already claimed when a row appeared

rowVars     == <<status, created, attempts>>
webhookVars == <<botDeleted, requests, acked, clock>>
workerVars  == <<pc, cur, committed, ioStarted, retryable>>
historyVars == <<effects, handled, overtakenBy>>
vars == <<rowVars, webhookVars, workerVars, historyVars>>

Statuses == {"none", "pending", "processing", "done", "review"}
Stamps   == 0..MaxStamp
Requests == [update : Updates, stamp : Stamps]
NoUpdate == -1

\* Effects of a handler before its final commit.  "known": an acknowledged
\* commit of its own or a Telegram call that may have gone out; "uncertain": a
\* commit that was applied although its acknowledgement was lost.
Effects == {"known", "uncertain"}

Unfinished(u) == status[u] \in {"pending", "processing"}

\* The (created_at, update_id) order in which a peer's rows are handled.
Before(u, v) == created[u] < created[v] \/ (created[u] = created[v] /\ u < v)

Rivals(u) == {v \in Updates \ {u} : Peer[v] = Peer[u]}

Active(w)    == pc[w] # "idle"
\* Inside asyncio.timeout(TELEGRAM_INBOX_TIMEOUT_SECONDS).
InTimedBody(w) == pc[w] \in {"handling", "settled"}

TypeOK ==
  /\ status \in [Updates -> Statuses]
  /\ created \in [Updates -> Stamps]
  /\ attempts \in [Updates -> 0..MaxAttempts]
  /\ botDeleted \in BOOLEAN
  /\ requests \subseteq Requests
  /\ acked \subseteq Updates
  /\ clock \in Stamps
  /\ pc \in [Workers -> {"idle", "handling", "settled", "failing"}]
  /\ cur \in [Workers -> Updates \cup {NoUpdate}]
  /\ \A w \in Workers : Active(w) => cur[w] \in Updates
  /\ committed \in [Workers -> BOOLEAN]
  /\ ioStarted \in [Workers -> BOOLEAN]
  /\ retryable \in [Workers -> BOOLEAN]
  /\ effects \in [Updates -> SUBSET Effects]
  /\ handled \in [Updates -> Nat]
  /\ overtakenBy \in [Updates -> SUBSET Updates]

Init ==
  /\ status = [u \in Updates |-> "none"]
  /\ created = [u \in Updates |-> 0]
  /\ attempts = [u \in Updates |-> 0]
  /\ botDeleted = FALSE
  /\ requests = {}
  /\ acked = {}
  /\ clock = 0
  /\ pc = [w \in Workers |-> "idle"]
  /\ cur = [w \in Workers |-> NoUpdate]
  /\ committed = [w \in Workers |-> FALSE]
  /\ ioStarted = [w \in Workers |-> FALSE]
  /\ retryable = [w \in Workers |-> FALSE]
  /\ effects = [u \in Updates |-> {}]
  /\ handled = [u \in Updates |-> 0]
  /\ overtakenBy = [u \in Updates |-> {}]

-----------------------------------------------------------------------------
(* Webhook requests.                                                       *)

\* Telegram repeats a delivery until it reads a 200; the request's database
\* transaction starts now and fixes the created_at its insert would get.
BeginAccept(u) ==
  /\ u \notin acked
  /\ requests' = requests \cup {[update |-> u, stamp |-> clock]}
  /\ UNCHANGED <<rowVars, botDeleted, acked, clock, workerVars, historyVars>>

\* get_active, then INSERT .. ON CONFLICT (bot_id, update_id) DO NOTHING and
\* commit.  A deleted bot's update is answered 200 and dropped.
InsertRow(r) ==
  LET u == r.update IN
  IF botDeleted \/ status[u] # "none"
    THEN UNCHANGED <<rowVars, historyVars>>
    ELSE /\ status' = [status EXCEPT ![u] = "pending"]
         /\ created' = [created EXCEPT ![u] = r.stamp]
         /\ overtakenBy' = [overtakenBy EXCEPT ![u] =
              {v \in Rivals(u) : attempts[v] > 0 /\
                 (r.stamp < created[v] \/ (r.stamp = created[v] /\ u < v))}]
         /\ UNCHANGED <<attempts, effects, handled>>

\* The commit is acknowledged with 200, or the answer (or the commit's own
\* acknowledgement, answered 503) never tells Telegram that it was stored.
CommitAccept(r) ==
  /\ InsertRow(r)
  /\ requests' = requests \ {r}
  /\ acked' \in {acked, acked \cup {r.update}}
  /\ UNCHANGED <<botDeleted, clock, workerVars>>

\* Pool exhausted, five-second timeout, or the API process stopped: no row.
FailAcceptMutant(r) ==
  /\ requests' = requests \ {r}
  /\ acked' = acked \cup {r.update}
  /\ UNCHANGED <<rowVars, botDeleted, clock, workerVars, historyVars>>

FailAccept(r) ==
  /\ requests' = requests \ {r}
  /\ UNCHANGED <<rowVars, botDeleted, acked, clock, workerVars, historyVars>>

DeleteBot ==
  /\ ~botDeleted
  /\ botDeleted' = TRUE
  /\ UNCHANGED <<rowVars, requests, acked, clock, workerVars, historyVars>>

Tick ==
  /\ clock < MaxStamp
  /\ clock' = clock + 1
  /\ UNCHANGED <<rowVars, botDeleted, requests, acked, workerVars, historyVars>>

-----------------------------------------------------------------------------
(* Intake loops.                                                           *)

\* No row of the same peer that sorts before u is still unfinished.
FirstOfPeerMutant1(u) ==
  \A v \in Rivals(u) : status[v] = "processing" => ~Before(v, u)

FirstOfPeerMutant2(u) ==
  \A v \in Rivals(u) : status[v] = "pending" => ~Before(v, u)

FirstOfPeer(u) ==
  \A v \in Rivals(u) : Unfinished(v) => ~Before(v, u)

ClaimableMutant(u) == Unfinished(u) /\ FirstOfPeer(u)

Claimable(u) == status[u] = "pending" /\ FirstOfPeer(u)

\* SELECT .. FOR UPDATE SKIP LOCKED, mark processing, attempts + 1, commit.
ClaimInbox(w) ==
  /\ pc[w] = "idle"
  /\ \E u \in Updates :
       /\ Claimable(u)
       /\ status' = [status EXCEPT ![u] = "processing"]
       /\ attempts' = [attempts EXCEPT ![u] = @ + 1]
       /\ cur' = [cur EXCEPT ![w] = u]
  /\ pc' = [pc EXCEPT ![w] = "handling"]
  /\ UNCHANGED <<created, webhookVars, committed, ioStarted, retryable, historyVars>>

Note(w, e) == effects' = [effects EXCEPT ![cur[w]] = @ \cup {e}]

\* handle_webhook_update commits on its own (a /start before its CAPI event,
\* a transaction released before the network); after_commit sees it.
HandlerCommits(w) ==
  /\ pc[w] = "handling"
  /\ committed' = [committed EXCEPT ![w] = TRUE]
  /\ Note(w, "known")
  /\ UNCHANGED <<rowVars, webhookVars, pc, cur, ioStarted, retryable, handled, overtakenBy>>

\* note_external_delivery, and then the call itself.
HandlerSends(w) ==
  /\ pc[w] = "handling"
  /\ ioStarted' = [ioStarted EXCEPT ![w] = TRUE]
  /\ Note(w, "known")
  /\ UNCHANGED <<rowVars, webhookVars, pc, cur, committed, retryable, handled, overtakenBy>>

\* The connection dies while such a commit is acknowledged: the rows are
\* durable, after_commit never runs, and the error is a lost connection.
HandlerCommitUnacknowledged(w) ==
  /\ pc[w] = "handling"
  /\ Note(w, "uncertain")
  /\ pc' = [pc EXCEPT ![w] = "failing"]
  /\ \E r \in BOOLEAN : retryable' = [retryable EXCEPT ![w] = r]
  /\ UNCHANGED <<rowVars, webhookVars, cur, committed, ioStarted, handled, overtakenBy>>

\* UPDATE .. SET status = 'done' WHERE id AND status = 'processing', committed
\* together with everything the handler wrote.
SettleRowMutant(u) == status' = [status EXCEPT ![u] = "done"]

SettleRow(u) ==
  status' = IF status[u] = "processing" THEN [status EXCEPT ![u] = "done"] ELSE status

\* process_next_inbox returns: its local variables are gone.
Return(w) ==
  /\ pc' = [pc EXCEPT ![w] = "idle"]
  /\ cur' = [cur EXCEPT ![w] = NoUpdate]
  /\ committed' = [committed EXCEPT ![w] = FALSE]
  /\ ioStarted' = [ioStarted EXCEPT ![w] = FALSE]
  /\ retryable' = [retryable EXCEPT ![w] = FALSE]

FinalCommit(w) ==
  /\ pc[w] = "handling"
  /\ SettleRow(cur[w])
  /\ handled' = [handled EXCEPT ![cur[w]] = @ + 1]
  /\ committed' = [committed EXCEPT ![w] = TRUE]
  /\ pc' = [pc EXCEPT ![w] = "settled"]
  /\ UNCHANGED <<created, attempts, webhookVars, cur, ioStarted,
                 retryable, effects, overtakenBy>>

\* The same commit applied, but its acknowledgement lost (or the timeout
\* expired while it was on its way).
FinalCommitUnacknowledged(w) ==
  /\ pc[w] = "handling"
  /\ SettleRow(cur[w])
  /\ handled' = [handled EXCEPT ![cur[w]] = @ + 1]
  /\ pc' = [pc EXCEPT ![w] = "failing"]
  /\ \E r \in BOOLEAN : retryable' = [retryable EXCEPT ![w] = r]
  /\ UNCHANGED <<created, attempts, webhookVars, cur, committed,
                 ioStarted, effects, overtakenBy>>

\* dispatch_post_commit_actions returned; the loop takes its next row.
FinishUpdate(w) ==
  /\ pc[w] = "settled"
  /\ Return(w)
  /\ UNCHANGED <<rowVars, webhookVars, historyVars>>

\* Any exception, the timeout included; retryable_database_error classifies it.
HandlerFails(w) ==
  /\ InTimedBody(w)
  /\ pc' = [pc EXCEPT ![w] = "failing"]
  /\ \E r \in BOOLEAN : retryable' = [retryable EXCEPT ![w] = r]
  /\ UNCHANGED <<rowVars, webhookVars, cur, committed, ioStarted, historyVars>>

SafeRetryMutant(w) == retryable[w] /\ ~committed[w]

SafeRetry(w) == retryable[w] /\ ~committed[w] /\ ~ioStarted[w]

AttemptsLeftMutant(u) == attempts[u] <= MaxAttempts

AttemptsLeft(u) == attempts[u] < MaxAttempts

FailedStatus(w) ==
  IF SafeRetry(w) /\ AttemptsLeft(cur[w]) THEN "pending" ELSE "review"

\* The except branch: back to pending with a backoff, or review; only while
\* the row is still processing.
RecordFailureMutant(w) ==
  /\ pc[w] = "failing"
  /\ Return(w)
  /\ status' = [status EXCEPT ![cur[w]] = FailedStatus(w)]
  /\ UNCHANGED <<created, attempts, webhookVars, historyVars>>

RecordFailure(w) ==
  /\ pc[w] = "failing"
  /\ Return(w)
  /\ status' = IF status[cur[w]] # "processing" THEN status
               ELSE [status EXCEPT ![cur[w]] = FailedStatus(w)]
  /\ UNCHANGED <<created, attempts, webhookVars, historyVars>>

\* The failure itself could not be written: the loop logs it and goes on.
FailureNotRecorded(w) ==
  /\ pc[w] = "failing"
  /\ Return(w)
  /\ UNCHANGED <<rowVars, webhookVars, historyVars>>

\* The worker process is killed or cancelled: every loop forgets its update.
Crash ==
  /\ \E w \in Workers : Active(w)
  /\ pc' = [w \in Workers |-> "idle"]
  /\ cur' = [w \in Workers |-> NoUpdate]
  /\ committed' = [w \in Workers |-> FALSE]
  /\ ioStarted' = [w \in Workers |-> FALSE]
  /\ retryable' = [w \in Workers |-> FALSE]
  /\ UNCHANGED <<rowVars, webhookVars, historyVars>>

-----------------------------------------------------------------------------
(* Time and maintenance.                                                   *)

\* Claims that may be older than the timeout plus 60 s.
StaleMutant == {u \in Updates : status[u] = "processing" /\ attempts[u] = MaxAttempts}

Stale == {u \in Updates :
            /\ status[u] = "processing"
            /\ MarginHolds => \A w \in Workers : InTimedBody(w) => cur[w] # u}

\* Telegram offers an update for 24 hours at most, a receipt is kept for at
\* least a day: nothing can still be resent when its receipt is deleted.
ForgettableMutant == {u \in Updates : status[u] = "done"}

Forgettable == {u \in Updates : status[u] = "done" /\ u \in acked
                                /\ \A r \in requests : r.update # u}

\* One transaction: stale claims to review, a batch of old receipts deleted.
Maintain(stale, old) ==
  /\ stale \cup old # {}
  /\ status' = [u \in Updates |-> IF u \in stale THEN "review"
                                  ELSE IF u \in old THEN "none" ELSE status[u]]
  /\ UNCHANGED <<created, attempts, webhookVars, workerVars, historyVars>>

MaintainDeliveryQueues ==
  \E stale \in SUBSET Stale : \E old \in SUBSET Forgettable : Maintain(stale, old)

-----------------------------------------------------------------------------
WebhookStep ==
  \/ \E u \in Updates : BeginAccept(u)
  \/ \E r \in requests : CommitAccept(r) \/ FailAccept(r)
  \/ DeleteBot
  \/ Tick

WorkerStep(w) ==
  \/ ClaimInbox(w)
  \/ HandlerCommits(w) \/ HandlerSends(w) \/ HandlerCommitUnacknowledged(w)
  \/ FinalCommit(w) \/ FinalCommitUnacknowledged(w) \/ FinishUpdate(w)
  \/ HandlerFails(w) \/ RecordFailure(w) \/ FailureNotRecorded(w)

Next ==
  \/ WebhookStep
  \/ \E w \in Workers : WorkerStep(w)
  \/ Crash
  \/ MaintainDeliveryQueues

\* asyncio.timeout ends every handler body, the loops never stop polling, time
\* passes and maintenance runs every minute.  Nothing is assumed of Telegram,
\* of the webhook, of crashes or of the database accepting a failure write.
Fairness ==
  /\ \A w \in Workers :
       /\ WF_vars(ClaimInbox(w))
       /\ WF_vars(FinalCommit(w) \/ FinishUpdate(w) \/ HandlerFails(w))
       /\ WF_vars(RecordFailure(w) \/ FailureNotRecorded(w))
  /\ \A u \in Updates :
       WF_vars(MaintainDeliveryQueues /\ status[u] = "processing" /\ status'[u] = "review")

Spec == Init /\ [][Next]_vars
FairSpec == Spec /\ Fairness

-----------------------------------------------------------------------------
(* Properties.                                                             *)

\* No update is handled to completion twice, whatever was redelivered,
\* retried, interrupted or expired (ON CONFLICT DO NOTHING on the webhook side,
\* the conditional settling and the retry rule on the worker side).
HandledAtMostOnce == \A u \in Updates : handled[u] <= 1

\* A row that may be claimed again left no trace a retry would repeat: nothing
\* was sent and no acknowledged commit was made on its behalf.
NoReplayAfterKnownEffects ==
  \A u \in Updates : status[u] = "pending" => "known" \notin effects[u]

\* The documented rule: an error after a partial commit is never retried.
NoReplayAfterPartialCommit ==
  \A u \in Updates : status[u] = "pending" => effects[u] = {}

\* Two intake loops never work on the same update, not even when maintenance
\* gives up on a claim whose handler is still running.
OneLoopPerUpdate ==
  \A w1, w2 \in Workers :
    w1 # w2 /\ Active(w1) /\ Active(w2) => cur[w1] # cur[w2]

\* Updates of one dialog are taken in order: once a later row was claimed, an
\* earlier one is finished for good -- retries included -- unless it was not
\* yet accepted at that claim.
PeerOrder ==
  \A u \in Updates : \A v \in Rivals(u) :
    /\ status[u] # "none" /\ attempts[v] > 0
    /\ Before(u, v) /\ v \notin overtakenBy[u]
    => ~Unfinished(u)

\* Two handlers of one dialog run at once only if the earlier row appeared
\* after the later one was claimed (its request was dated first and committed
\* last); the 60 s grace period keeps a given-up handler from being the other.
OneHandlerPerPeer ==
  MarginHolds => \A w1, w2 \in Workers :
    /\ w1 # w2 /\ pc[w1] = "handling" /\ pc[w2] = "handling"
    /\ Peer[cur[w1]] = Peer[cur[w2]]
    => cur[w1] \in overtakenBy[cur[w2]] \/ cur[w2] \in overtakenBy[cur[w1]]

\* Review is left only by a human: a late handler or failure write of the same
\* update cannot reopen or close it.
ReviewIsFinal ==
  [][\A u \in Updates : status[u] = "review" => status'[u] = "review"]_vars

\* A 200 answer means the update is stored (unless the bot is deleted), and a
\* stored row disappears only after its final commit.
NoAcceptedUpdateLost ==
  [][\A u \in Updates :
       /\ u \in acked' \ acked /\ ~botDeleted => status'[u] # "none"
       /\ status[u] # "none" /\ status'[u] = "none" => handled[u] = 1]_vars

\* Every stored update is eventually handled or put before a human; no dialog
\* is blocked for ever by an earlier update of its own.
EveryUpdateSettles ==
  \A u \in Updates : Unfinished(u) ~> ~Unfinished(u)

\* The inbox promises what AtMostOnceWork describes.
Phase(u) ==
  CASE status[u] = "none" /\ handled[u] = 0        -> "none"
    [] status[u] = "none" /\ handled[u] > 0        -> "gone"
    [] status[u] \in {"pending", "processing"}      -> "open"
    [] status[u] = "done"                           -> "closed"
    [] status[u] = "review"                         -> "parked"

Work == INSTANCE AtMostOnceWork WITH
          Items <- Updates, Droppable <- {}, CanReopen <- FALSE, Losable <- {},
          phase <- [u \in Updates |-> Phase(u)], performed <- handled

ImplementsAtMostOnceWork == Work!Spec
=============================================================================
