------------------------ MODULE TelegramInbox_proofs -------------------------
(***************************************************************************)
(* Proofs about TelegramInbox, for any updates, dialogs, loops and limits. *)
(***************************************************************************)
EXTENDS TelegramInbox, TLAPS

USE UpdatesAssumption, AttemptsAssumption, StampAssumption, MarginAssumption

\* What a row says about its update.
RowInv ==
  \A u \in Updates :
    /\ handled[u] \in 0..1
    /\ status[u] = "pending" =>
         handled[u] = 0 /\ "known" \notin effects[u] /\ attempts[u] < MaxAttempts
    /\ status[u] = "processing" => handled[u] = 0
    /\ status[u] = "done" => handled[u] = 1
    /\ status[u] = "none" /\ handled[u] = 0 => effects[u] = {} /\ attempts[u] = 0
    /\ status[u] = "none" /\ handled[u] = 1 =>
         u \in acked /\ \A r \in requests : r.update # u

\* What a loop that holds an update knows about its row.
LoopInv ==
  \A w \in Workers : Active(w) =>
    LET u == cur[w] IN
    /\ status[u] # "pending"
    /\ status[u] = "none" => handled[u] = 1
    /\ pc[w] = "handling" => status[u] \in {"processing", "review"} /\ handled[u] = 0
    /\ pc[w] = "settled" => committed[w] /\ handled[u] = 1
    /\ "known" \in effects[u] => committed[w] \/ ioStarted[w] \/ handled[u] = 1

IInv == TypeOK /\ RowInv /\ LoopInv /\ OneLoopPerUpdate

LEMMA InitIInv == Init => IInv
<1> SUFFICES ASSUME Init PROVE IInv
  OBVIOUS
<1>1. TypeOK
  <2>1. /\ status \in [Updates -> Statuses]
        /\ created \in [Updates -> Stamps] /\ clock \in Stamps
        /\ attempts \in [Updates -> 0..MaxAttempts]
        /\ handled \in [Updates -> Nat]
    BY DEF Init, Statuses, Stamps
  <2>2. /\ botDeleted \in BOOLEAN /\ requests \subseteq Requests
        /\ acked \subseteq Updates
        /\ effects \in [Updates -> SUBSET Effects]
        /\ overtakenBy \in [Updates -> SUBSET Updates]
    BY DEF Init
  <2>3. /\ pc \in [Workers -> {"idle", "handling", "settled", "failing"}]
        /\ cur \in [Workers -> Updates \cup {NoUpdate}]
        /\ \A w \in Workers : Active(w) => cur[w] \in Updates
    BY DEF Init, Active
  <2>4. /\ committed \in [Workers -> BOOLEAN]
        /\ ioStarted \in [Workers -> BOOLEAN]
        /\ retryable \in [Workers -> BOOLEAN]
    BY DEF Init
  <2>5. QED
    BY <2>1, <2>2, <2>3, <2>4 DEF TypeOK
<1>2. RowInv
  BY DEF Init, RowInv
<1>3. LoopInv /\ OneLoopPerUpdate
  BY DEF Init, LoopInv, OneLoopPerUpdate, Active
<1>4. QED
  BY <1>1, <1>2, <1>3 DEF IInv

LEMMA BeginAcceptStep ==
  ASSUME IInv, NEW u \in Updates, BeginAccept(u)
  PROVE  IInv'
  BY DEF IInv, TypeOK, RowInv, LoopInv, OneLoopPerUpdate, Statuses, Stamps, Requests,
         Effects, Active, NoUpdate, rowVars, webhookVars, workerVars, historyVars,
         BeginAccept

LEMMA FailAcceptStep ==
  ASSUME IInv, NEW r \in requests, FailAccept(r)
  PROVE  IInv'
  BY DEF IInv, TypeOK, RowInv, LoopInv, OneLoopPerUpdate, Statuses, Stamps, Requests,
         Effects, Active, NoUpdate, rowVars, webhookVars, workerVars, historyVars,
         FailAccept

LEMMA CommitAcceptStep ==
  ASSUME IInv, NEW r \in requests, CommitAccept(r)
  PROVE  IInv'
<1> DEFINE u == r.update
<1> USE DEF IInv, TypeOK, RowInv, LoopInv, OneLoopPerUpdate, Statuses, Stamps,
           Requests, Effects, Active, NoUpdate, rowVars, webhookVars, workerVars, historyVars
<1>0. r \in Requests /\ u \in Updates /\ r.stamp \in Stamps
  OBVIOUS
<1>1. acked' \subseteq Updates /\ requests' \subseteq requests
  BY <1>0 DEF CommitAccept
<1>2. CASE botDeleted \/ status[u] # "none"
  <2>1. UNCHANGED <<rowVars, historyVars, workerVars, botDeleted, clock>>
    BY <1>2 DEF CommitAccept, InsertRow
  <2>2. acked \subseteq acked'
    BY DEF CommitAccept
  <2>3. QED
    BY <2>1, <2>2, <1>1
<1>3. CASE ~botDeleted /\ status[u] = "none"
  <2>0. handled[u] = 0
    <3>1. handled[u] # 1
      BY <1>0, <1>3
    <3>2. handled[u] \in 0..1
      BY <1>0
    <3>3. QED
      BY <3>1, <3>2
  <2>1. handled[u] = 0 /\ effects[u] = {} /\ attempts[u] = 0
    BY <1>0, <1>3, <2>0
  <2>2. /\ status' = [status EXCEPT ![u] = "pending"]
        /\ created' = [created EXCEPT ![u] = r.stamp]
        /\ UNCHANGED <<attempts, effects, handled, workerVars, botDeleted, clock>>
        /\ acked \subseteq acked'
    BY <1>3 DEF CommitAccept, InsertRow
  <2>3. overtakenBy' \in [Updates -> SUBSET Updates]
    BY <1>0, <1>3 DEF CommitAccept, InsertRow, Rivals
  <2>4. TypeOK'
    BY <1>0, <1>1, <2>2, <2>3
  <2>5. RowInv'
    BY <1>0, <1>1, <2>1, <2>2
  <2>6. LoopInv' /\ OneLoopPerUpdate'
    <3>1. \A w \in Workers : Active(w) => cur[w] # u
      BY <1>3, <2>1
    <3>2. \A v \in Updates : v # u => status'[v] = status[v]
      BY <1>0, <2>2
    <3>3. UNCHANGED <<pc, cur, committed, ioStarted, effects, handled>>
      BY <2>2
    <3>4. QED
      BY <3>1, <3>2, <3>3
  <2>7. QED
    BY <2>4, <2>5, <2>6
<1>4. QED
  BY <1>2, <1>3

LEMMA ClaimInboxStep ==
  ASSUME IInv, NEW w \in Workers, ClaimInbox(w)
  PROVE  IInv'
  BY DEF IInv, TypeOK, RowInv, LoopInv, OneLoopPerUpdate, Statuses, Stamps, Requests,
         Effects, Active, NoUpdate, rowVars, webhookVars, workerVars, historyVars,
         ClaimInbox, Claimable

LEMMA HandlerCommitsStep ==
  ASSUME IInv, NEW w \in Workers, HandlerCommits(w)
  PROVE  IInv'
<1> USE DEF IInv, TypeOK, RowInv, LoopInv, OneLoopPerUpdate, Statuses, Stamps,
           Requests, Effects, Active, NoUpdate, rowVars, webhookVars, workerVars, historyVars
<1>0. cur[w] \in Updates /\ Active(w)
  BY DEF HandlerCommits
<1>1. effects' \in [Updates -> SUBSET Effects]
  BY <1>0 DEF HandlerCommits, Note
<1>2. \A u \in Updates : u # cur[w] => effects'[u] = effects[u]
  BY <1>0 DEF HandlerCommits, Note
<1>3. TypeOK'
  BY <1>1 DEF HandlerCommits
<1>4. RowInv'
  BY <1>0, <1>2 DEF HandlerCommits
<1>5. LoopInv' /\ OneLoopPerUpdate'
  BY <1>0, <1>1, <1>2 DEF HandlerCommits, Note
<1>6. QED
  BY <1>3, <1>4, <1>5

LEMMA HandlerSendsStep ==
  ASSUME IInv, NEW w \in Workers, HandlerSends(w)
  PROVE  IInv'
<1> USE DEF IInv, TypeOK, RowInv, LoopInv, OneLoopPerUpdate, Statuses, Stamps,
           Requests, Effects, Active, NoUpdate, rowVars, webhookVars, workerVars, historyVars
<1>0. cur[w] \in Updates /\ Active(w)
  BY DEF HandlerSends
<1>1. effects' \in [Updates -> SUBSET Effects]
  BY <1>0 DEF HandlerSends, Note
<1>2. \A u \in Updates : u # cur[w] => effects'[u] = effects[u]
  BY <1>0 DEF HandlerSends, Note
<1>3. TypeOK'
  BY <1>1 DEF HandlerSends
<1>4. RowInv'
  BY <1>0, <1>2 DEF HandlerSends
<1>5. LoopInv' /\ OneLoopPerUpdate'
  BY <1>0, <1>1, <1>2 DEF HandlerSends, Note
<1>6. QED
  BY <1>3, <1>4, <1>5

LEMMA HandlerCommitUnacknowledgedStep ==
  ASSUME IInv, NEW w \in Workers, HandlerCommitUnacknowledged(w)
  PROVE  IInv'
<1> USE DEF IInv, TypeOK, RowInv, LoopInv, OneLoopPerUpdate, Statuses, Stamps,
           Requests, Effects, Active, NoUpdate, rowVars, webhookVars, workerVars, historyVars
<1>0. cur[w] \in Updates /\ Active(w)
  BY DEF HandlerCommitUnacknowledged
<1>1. effects' \in [Updates -> SUBSET Effects]
  BY <1>0 DEF HandlerCommitUnacknowledged, Note
<1>2. \A u \in Updates : u # cur[w] => effects'[u] = effects[u]
  BY <1>0 DEF HandlerCommitUnacknowledged, Note
<1>3. TypeOK'
  BY <1>1 DEF HandlerCommitUnacknowledged
<1>4. RowInv'
  BY <1>0, <1>2 DEF HandlerCommitUnacknowledged
<1>5. LoopInv' /\ OneLoopPerUpdate'
  BY <1>0, <1>1, <1>2 DEF HandlerCommitUnacknowledged, Note
<1>6. QED
  BY <1>3, <1>4, <1>5

LEMMA FinalCommitStep ==
  ASSUME IInv, NEW w \in Workers, FinalCommit(w)
  PROVE  IInv'
  BY DEF IInv, TypeOK, RowInv, LoopInv, OneLoopPerUpdate, Statuses, Stamps, Requests,
         Effects, Active, NoUpdate, rowVars, webhookVars, workerVars, historyVars,
         FinalCommit, SettleRow

LEMMA FinalCommitUnacknowledgedStep ==
  ASSUME IInv, NEW w \in Workers, FinalCommitUnacknowledged(w)
  PROVE  IInv'
  BY DEF IInv, TypeOK, RowInv, LoopInv, OneLoopPerUpdate, Statuses, Stamps, Requests,
         Effects, Active, NoUpdate, rowVars, webhookVars, workerVars, historyVars,
         FinalCommitUnacknowledged, SettleRow

LEMMA FinishUpdateStep ==
  ASSUME IInv, NEW w \in Workers, FinishUpdate(w)
  PROVE  IInv'
  BY DEF IInv, TypeOK, RowInv, LoopInv, OneLoopPerUpdate, Statuses, Stamps, Requests,
         Effects, Active, NoUpdate, rowVars, webhookVars, workerVars, historyVars,
         FinishUpdate, Return

LEMMA HandlerFailsStep ==
  ASSUME IInv, NEW w \in Workers, HandlerFails(w)
  PROVE  IInv'
<1> USE DEF IInv, TypeOK, RowInv, LoopInv, OneLoopPerUpdate, Statuses, Stamps, Requests,
           Effects, Active, NoUpdate, rowVars, webhookVars, workerVars, historyVars
<1>1. pc[w] \in {"handling", "settled"} /\ pc' = [pc EXCEPT ![w] = "failing"]
  BY DEF HandlerFails, InTimedBody
<1>2. UNCHANGED <<rowVars, webhookVars, cur, committed, ioStarted, historyVars>>
  BY DEF HandlerFails
<1>3. retryable' \in [Workers -> BOOLEAN]
  BY DEF HandlerFails
<1>4. TypeOK'
  BY <1>1, <1>2, <1>3
<1>5. RowInv'
  BY <1>2
<1>6. LoopInv' /\ OneLoopPerUpdate'
  BY <1>1, <1>2
<1>7. QED
  BY <1>4, <1>5, <1>6

LEMMA RecordFailureStep ==
  ASSUME IInv, NEW w \in Workers, RecordFailure(w)
  PROVE  IInv'
<1> DEFINE u == cur[w]
<1> USE DEF IInv, TypeOK, RowInv, LoopInv, OneLoopPerUpdate, Statuses, Stamps, Requests,
           Effects, Active, NoUpdate, rowVars, webhookVars, workerVars, historyVars
<1>1. u \in Updates /\ Active(w) /\ pc[w] = "failing"
  BY DEF RecordFailure
<1>2. UNCHANGED <<created, attempts, webhookVars, historyVars>> /\ Return(w)
  BY DEF RecordFailure
<1>3. \/ status' = status
      \/ /\ status[u] = "processing"
         /\ status' = [status EXCEPT ![u] = "review"]
      \/ /\ status[u] = "processing" /\ SafeRetry(w) /\ attempts[u] < MaxAttempts
         /\ status' = [status EXCEPT ![u] = "pending"]
  <2>1. CASE status[u] # "processing"
    BY <2>1 DEF RecordFailure, FailedStatus, AttemptsLeft
  <2>2. CASE /\ status[u] = "processing" /\ SafeRetry(w) /\ attempts[u] < MaxAttempts
    BY <2>2 DEF RecordFailure, FailedStatus, AttemptsLeft
  <2>3. CASE /\ status[u] = "processing" /\ ~(SafeRetry(w) /\ attempts[u] < MaxAttempts)
    BY <2>3 DEF RecordFailure, FailedStatus, AttemptsLeft
  <2>4. QED
    BY <2>1, <2>2, <2>3
<1>4. SafeRetry(w) /\ status[u] = "processing" => "known" \notin effects[u]
  <2>1. SafeRetry(w) => ~committed[w] /\ ~ioStarted[w]
    BY Zenon DEF SafeRetry
  <2>2. "known" \in effects[u] => committed[w] \/ ioStarted[w] \/ handled[u] = 1
    BY <1>1
  <2>3. status[u] = "processing" => handled[u] = 0
    BY <1>1
  <2>4. QED
    BY <2>1, <2>2, <2>3
<1>5. \A w1 \in Workers : w1 # w /\ Active(w1) => cur[w1] # u
  BY <1>1
<1>6. TypeOK'
  BY <1>1, <1>2, <1>3 DEF Return
<1>7. RowInv'
  BY <1>1, <1>2, <1>3, <1>4
<1>8. LoopInv'
  <2>1. \A w1 \in Workers : pc'[w1] # "idle" => w1 # w
    BY <1>1, <1>2 DEF Return
  <2>2. \A w1 \in Workers : w1 # w =>
          /\ pc'[w1] = pc[w1] /\ cur'[w1] = cur[w1]
          /\ committed'[w1] = committed[w1] /\ ioStarted'[w1] = ioStarted[w1]
    BY <1>1, <1>2 DEF Return
  <2>3. \A v \in Updates : v # u => status'[v] = status[v]
    BY <1>1, <1>3
  <2>4. effects' = effects /\ handled' = handled
    BY <1>2
  <2>5. ASSUME NEW w1 \in Workers, pc'[w1] # "idle"
        PROVE  /\ w1 # w /\ Active(w1) /\ cur'[w1] \in Updates \ {u}
               /\ status'[cur'[w1]] = status[cur[w1]]
    BY <1>5, <2>1, <2>2, <2>3, <2>5
  <2>6. QED
    BY <2>2, <2>4, <2>5
<1>9. OneLoopPerUpdate'
  BY <1>2 DEF Return
<1>10. QED
  BY <1>6, <1>7, <1>8, <1>9

LEMMA FailureNotRecordedStep ==
  ASSUME IInv, NEW w \in Workers, FailureNotRecorded(w)
  PROVE  IInv'
  BY DEF IInv, TypeOK, RowInv, LoopInv, OneLoopPerUpdate, Statuses, Stamps, Requests,
         Effects, Active, NoUpdate, rowVars, webhookVars, workerVars, historyVars,
         FailureNotRecorded, Return

LEMMA CrashStep ==
  ASSUME IInv, Crash
  PROVE  IInv'
  BY DEF IInv, TypeOK, RowInv, LoopInv, OneLoopPerUpdate, Statuses, Stamps,
           Requests, Effects, Active, NoUpdate, rowVars, webhookVars, workerVars, historyVars,
         Crash

LEMMA DeleteBotStep ==
  ASSUME IInv, DeleteBot
  PROVE  IInv'
  BY DEF IInv, TypeOK, RowInv, LoopInv, OneLoopPerUpdate, Statuses, Stamps,
           Requests, Effects, Active, NoUpdate, rowVars, webhookVars, workerVars, historyVars,
         DeleteBot

LEMMA TickStep ==
  ASSUME IInv, Tick
  PROVE  IInv'
  BY DEF IInv, TypeOK, RowInv, LoopInv, OneLoopPerUpdate, Statuses, Stamps,
           Requests, Effects, Active, NoUpdate, rowVars, webhookVars, workerVars, historyVars,
         Tick

LEMMA MaintainStep ==
  ASSUME IInv, NEW stale \in SUBSET Stale, NEW old \in SUBSET Forgettable,
         Maintain(stale, old)
  PROVE  IInv'
<1> USE DEF IInv, TypeOK, RowInv, LoopInv, OneLoopPerUpdate, Statuses, Stamps,
           Requests, Effects, Active, NoUpdate, rowVars, webhookVars, workerVars, historyVars
<1>1. status' = [u \in Updates |-> IF u \in stale THEN "review"
                                  ELSE IF u \in old THEN "none" ELSE status[u]]
  BY DEF Maintain
<1>2. UNCHANGED <<created, attempts, webhookVars, workerVars, historyVars>>
  BY DEF Maintain
<1>3. \A u \in stale : u \in Updates /\ status[u] = "processing"
  BY DEF Stale
<1>4. \A u \in old : /\ u \in Updates /\ status[u] = "done" /\ u \in acked
                     /\ \A r \in requests : r.update # u
  BY DEF Forgettable
<1>5. TypeOK'
  BY <1>1, <1>2
<1>6. RowInv'
  BY <1>1, <1>2, <1>3, <1>4
<1>7. LoopInv'
  <2> SUFFICES ASSUME NEW w \in Workers, Active(w)
               PROVE  LET u == cur[w] IN
                      /\ status'[u] # "pending"
                      /\ status'[u] = "none" => handled[u] = 1
                      /\ pc[w] = "handling" =>
                           status'[u] \in {"processing", "review"} /\ handled[u] = 0
                      /\ pc[w] = "settled" => committed[w] /\ handled[u] = 1
                      /\ "known" \in effects[u] =>
                           committed[w] \/ ioStarted[w] \/ handled[u] = 1
    BY <1>2
  <2>1. cur[w] \in Updates
    OBVIOUS
  <2>2. \/ status'[cur[w]] = status[cur[w]]
        \/ status'[cur[w]] = "review" /\ status[cur[w]] = "processing"
        \/ status'[cur[w]] = "none" /\ status[cur[w]] = "done"
    BY <1>1, <1>3, <1>4, <2>1
  <2>3. QED
    BY <2>1, <2>2
<1>8. OneLoopPerUpdate'
  BY <1>2
<1>9. QED
  BY <1>5, <1>6, <1>7, <1>8

LEMMA StutterStep ==
  ASSUME IInv, UNCHANGED vars
  PROVE  IInv'
  BY DEF IInv, TypeOK, RowInv, LoopInv, OneLoopPerUpdate, Statuses, Stamps, Requests,
         Effects, Active, NoUpdate, vars, rowVars, webhookVars, workerVars, historyVars

LEMMA NextIInv == IInv /\ [Next]_vars => IInv'
<1> SUFFICES ASSUME IInv, [Next]_vars PROVE IInv'
  OBVIOUS
<1>1. CASE WebhookStep
  BY <1>1, BeginAcceptStep, CommitAcceptStep, FailAcceptStep, DeleteBotStep, TickStep
     DEF WebhookStep
<1>2. ASSUME NEW w \in Workers, WorkerStep(w)
      PROVE  IInv'
  BY <1>2, ClaimInboxStep, HandlerCommitsStep, HandlerSendsStep,
     HandlerCommitUnacknowledgedStep, FinalCommitStep, FinalCommitUnacknowledgedStep,
     FinishUpdateStep, HandlerFailsStep, RecordFailureStep, FailureNotRecordedStep
     DEF WorkerStep
<1>3. CASE Crash
  BY <1>3, CrashStep
<1>4. CASE MaintainDeliveryQueues
  BY <1>4, MaintainStep DEF MaintainDeliveryQueues
<1>5. CASE UNCHANGED vars
  BY <1>5, StutterStep
<1>6. QED
  BY <1>1, <1>2, <1>3, <1>4, <1>5 DEF Next

\* The inductive invariant: in every reachable state of every instance, the
\* rows and the loops tell a consistent story about each update.
THEOREM SpecIInv == Spec => []IInv
  BY InitIInv, NextIInv, PTL DEF Spec

\* Every variable keeps its type; in particular no row is claimed more than
\* TELEGRAM_INBOX_MAX_ATTEMPTS times.
THEOREM SpecTypeOK == Spec => []TypeOK
<1>1. IInv => TypeOK
  BY DEF IInv
<1>2. QED
  BY <1>1, SpecIInv, PTL

\* No update is ever handled to completion twice.
THEOREM SpecHandledAtMostOnce == Spec => []HandledAtMostOnce
<1>1. IInv => HandledAtMostOnce
  BY DEF IInv, RowInv, HandledAtMostOnce
<1>2. QED
  BY <1>1, SpecIInv, PTL

\* What may be claimed again has left no known trace.
THEOREM SpecNoReplayAfterKnownEffects == Spec => []NoReplayAfterKnownEffects
<1>1. IInv => NoReplayAfterKnownEffects
  BY DEF IInv, RowInv, NoReplayAfterKnownEffects
<1>2. QED
  BY <1>1, SpecIInv, PTL

\* Two loops never hold the same update.
THEOREM SpecOneLoopPerUpdate == Spec => []OneLoopPerUpdate
<1>1. IInv => OneLoopPerUpdate
  BY DEF IInv
<1>2. QED
  BY <1>1, SpecIInv, PTL
-----------------------------------------------------------------------------
(* What a step may do to a row.                                            *)

\* One line per way a row moves; the last two are final commits.
Move(u) ==
  \/ status'[u] = status[u] /\ handled'[u] = handled[u]
  \/ /\ handled'[u] = handled[u]
     /\ \/ status[u] = "none" /\ status'[u] = "pending"
        \/ status[u] = "pending" /\ status'[u] = "processing"
        \/ status[u] = "processing" /\ status'[u] \in {"pending", "review"}
        \/ status[u] = "done" /\ status'[u] = "none"
  \/ /\ handled[u] = 0 /\ handled'[u] = 1
     /\ \/ status[u] = "processing" /\ status'[u] = "done"
        \/ status[u] = "review" /\ status'[u] = "review"

Moves == \A u \in Updates : Move(u)

LEMMA MoveStep ==
  ASSUME IInv, [Next]_vars
  PROVE  Moves
<1> USE DEF IInv, TypeOK, Moves, Move, Statuses, rowVars, webhookVars, workerVars,
           historyVars
<1>1. ASSUME NEW u \in Updates, BeginAccept(u)
      PROVE  Moves
  BY <1>1 DEF BeginAccept
<1>2. ASSUME NEW r \in requests, CommitAccept(r)
      PROVE  Moves
  <2>1. CASE botDeleted \/ status[r.update] # "none"
    BY <1>2, <2>1 DEF CommitAccept, InsertRow
  <2>2. CASE ~(botDeleted \/ status[r.update] # "none")
    <3>1. /\ status[r.update] = "none" /\ handled' = handled
          /\ status' = [status EXCEPT ![r.update] = "pending"]
      BY <1>2, <2>2 DEF CommitAccept, InsertRow
    <3>2. QED
      BY <3>1
  <2>3. QED
    BY <2>1, <2>2
<1>3. ASSUME NEW r \in requests, FailAccept(r)
      PROVE  Moves
  BY <1>3 DEF FailAccept
<1>4. CASE DeleteBot \/ Tick
  BY <1>4 DEF DeleteBot, Tick
<1>5. ASSUME NEW w \in Workers, ClaimInbox(w)
      PROVE  Moves
  BY <1>5 DEF ClaimInbox, Claimable
<1>6. ASSUME NEW w \in Workers,
             HandlerCommits(w) \/ HandlerSends(w) \/ HandlerCommitUnacknowledged(w)
      PROVE  Moves
  BY <1>6 DEF HandlerCommits, HandlerSends, HandlerCommitUnacknowledged
<1>7. ASSUME NEW w \in Workers, FinalCommit(w) \/ FinalCommitUnacknowledged(w)
      PROVE  Moves
  <2>1. /\ cur[w] \in Updates /\ handled[cur[w]] = 0
        /\ status[cur[w]] \in {"processing", "review"}
    BY <1>7 DEF LoopInv, Active, FinalCommit, FinalCommitUnacknowledged
  <2>2. /\ status' = IF status[cur[w]] = "processing"
                       THEN [status EXCEPT ![cur[w]] = "done"] ELSE status
        /\ handled' = [handled EXCEPT ![cur[w]] = @ + 1]
    BY <1>7 DEF FinalCommit, FinalCommitUnacknowledged, SettleRow
  <2>3. QED
    BY <2>1, <2>2
<1>8. ASSUME NEW w \in Workers, FinishUpdate(w) \/ HandlerFails(w) \/ FailureNotRecorded(w)
      PROVE  Moves
  BY <1>8 DEF FinishUpdate, HandlerFails, FailureNotRecorded
<1>9. ASSUME NEW w \in Workers, RecordFailure(w)
      PROVE  Moves
  <2>1. FailedStatus(w) \in {"pending", "review"}
    BY Zenon DEF FailedStatus
  <2>2. QED
    BY <1>9, <2>1 DEF RecordFailure
<1>10. CASE Crash
  BY <1>10 DEF Crash
<1>11. ASSUME NEW stale \in SUBSET Stale, NEW old \in SUBSET Forgettable, Maintain(stale, old)
       PROVE  Moves
  BY <1>11 DEF Maintain, Stale, Forgettable
<1>12. CASE UNCHANGED vars
  BY <1>12 DEF vars
<1>13. QED
  BY <1>1, <1>2, <1>3, <1>4, <1>5, <1>6, <1>7, <1>8, <1>9, <1>10, <1>11, <1>12
     DEF Next, WebhookStep, WorkerStep, MaintainDeliveryQueues

\* Only a human takes an update out of review.
THEOREM SpecReviewIsFinal == Spec => ReviewIsFinal
<1>1. IInv /\ [Next]_vars =>
        \A u \in Updates : status[u] = "review" => status'[u] = "review"
  BY MoveStep DEF Moves, Move
<1>2. QED
  BY <1>1, SpecIInv, PTL DEF Spec, ReviewIsFinal

\* Telegram is told of a stored update only when there is a row (or its bot is
\* deleted), and a row goes only after its final commit.
THEOREM SpecNoAcceptedUpdateLost == Spec => NoAcceptedUpdateLost
<1> DEFINE Kept ==
      \A u \in Updates :
        /\ u \in acked' \ acked /\ ~botDeleted => status'[u] # "none"
        /\ status[u] # "none" /\ status'[u] = "none" => handled[u] = 1
<1>1. ASSUME IInv, [Next]_vars
      PROVE  Kept
  <2>1. \A u \in Updates : status[u] # "none" /\ status'[u] = "none" => handled[u] = 1
    BY <1>1, MoveStep DEF Moves, Move, IInv, RowInv
  <2>2. ASSUME NEW r \in requests, CommitAccept(r)
        PROVE  \A u \in Updates : u \in acked' \ acked /\ ~botDeleted => status'[u] # "none"
    <3>1. r.update \in Updates /\ acked' \subseteq acked \cup {r.update}
      BY <1>1, <2>2 DEF CommitAccept, IInv, TypeOK, Requests
    <3>2. ~botDeleted => status'[r.update] # "none"
      BY <1>1, <2>2, <3>1 DEF CommitAccept, InsertRow, IInv, TypeOK, rowVars
    <3>3. QED
      BY <3>1, <3>2
  <2>3. acked' = acked \/ \E r \in requests : CommitAccept(r)
    BY <1>1 DEF Next, WebhookStep, WorkerStep, BeginAccept, FailAccept, DeleteBot, Tick,
       ClaimInbox, HandlerCommits, HandlerSends, HandlerCommitUnacknowledged, FinalCommit,
       FinalCommitUnacknowledged, FinishUpdate, HandlerFails, RecordFailure,
       FailureNotRecorded, Crash, MaintainDeliveryQueues, Maintain, vars, webhookVars
  <2>4. QED
    BY <2>1, <2>2, <2>3
<1>2. IInv /\ [Next]_vars => Kept
  BY <1>1
<1>3. QED
  BY <1>2, SpecIInv, PTL DEF Spec, NoAcceptedUpdateLost

-----------------------------------------------------------------------------
(* The order of the updates of one dialog.                                 *)

\* A held row was claimed; while its handler runs in time, nobody closes it.
ClaimInv ==
  \A w \in Workers :
    /\ Active(w) => attempts[cur[w]] > 0
    /\ MarginHolds /\ pc[w] = "handling" => status[cur[w]] = "processing"

OrderInv == PeerOrder /\ ClaimInv

LEMMA InitOrderInv == Init => OrderInv
  BY DEF Init, OrderInv, PeerOrder, ClaimInv, Rivals, Active

\* A step that dates and claims no row, and makes none unfinished that was not,
\* leaves the order alone.
LEMMA PeerOrderKept ==
  ASSUME IInv, PeerOrder,
         created' = created, attempts' = attempts, overtakenBy' = overtakenBy,
         \A u \in Updates : Unfinished(u)' => Unfinished(u)
  PROVE  PeerOrder'
<1> SUFFICES ASSUME NEW u \in Updates, NEW v \in Rivals(u), attempts[v] > 0, Before(u, v),
                    v \notin overtakenBy[u], Unfinished(u)'
             PROVE  FALSE
  BY DEF PeerOrder, Before, Rivals
<1>1. Unfinished(u) /\ status[u] # "none"
  BY DEF Unfinished
<1>2. QED
  BY <1>1 DEF PeerOrder

LEMMA CommitAcceptOrder ==
  ASSUME IInv, OrderInv, NEW r \in requests, CommitAccept(r)
  PROVE  OrderInv'
<1> DEFINE t == r.update
<1> USE DEF IInv, TypeOK, rowVars, webhookVars, workerVars, historyVars
<1>1. t \in Updates /\ r.stamp \in Stamps
  BY DEF Requests
<1>2. CASE botDeleted \/ status[t] # "none"
  <2>1. UNCHANGED <<rowVars, historyVars, workerVars>>
    BY <1>2 DEF CommitAccept, InsertRow
  <2>2. PeerOrder'
    BY <2>1, PeerOrderKept DEF OrderInv, Unfinished
  <2>3. ClaimInv'
    BY <2>1 DEF OrderInv, ClaimInv, Active
  <2>4. QED
    BY <2>2, <2>3 DEF OrderInv
<1>3. CASE ~(botDeleted \/ status[t] # "none")
  <2>1. /\ status[t] = "none"
        /\ status' = [status EXCEPT ![t] = "pending"]
        /\ created' = [created EXCEPT ![t] = r.stamp]
        /\ overtakenBy' = [overtakenBy EXCEPT ![t] =
             {v \in Rivals(t) : attempts[v] > 0 /\
                (r.stamp < created[v] \/ (r.stamp = created[v] /\ t < v))}]
        /\ UNCHANGED <<attempts, effects, handled, workerVars>>
    BY <1>3 DEF CommitAccept, InsertRow
  <2>2. attempts[t] = 0
    <3>1. handled[t] # 1
      BY <1>1, <2>1 DEF RowInv
    <3>2. handled[t] \in 0..1
      BY <1>1 DEF RowInv
    <3>3. handled[t] = 0
      BY <3>1, <3>2
    <3>4. QED
      BY <1>1, <2>1, <3>3 DEF RowInv
  <2>3. PeerOrder'
    <3> SUFFICES ASSUME NEW u \in Updates, NEW v \in Rivals(u), status'[u] # "none",
                        attempts[v] > 0, Before(u, v)', v \notin overtakenBy'[u],
                        Unfinished(u)'
                 PROVE  FALSE
      BY <2>1 DEF PeerOrder, Rivals
    <3>1. v # t /\ v # u /\ v \in Updates /\ created'[v] = created[v]
      BY <1>1, <2>1, <2>2 DEF Rivals
    <3>2. CASE u = t
      BY <1>1, <2>1, <3>1, <3>2 DEF Before
    <3>3. CASE u # t
      <4>1. status'[u] = status[u] /\ created'[u] = created[u] /\ overtakenBy'[u] = overtakenBy[u]
        BY <1>1, <2>1, <3>3
      <4>2. QED
        BY <3>1, <4>1 DEF OrderInv, PeerOrder, Before, Unfinished
    <3>4. QED
      BY <3>2, <3>3
  <2>4. ClaimInv'
    <3>1. \A w \in Workers : Active(w) => cur[w] \in Updates /\ cur[w] # t
      BY <2>1, <2>2 DEF OrderInv, ClaimInv
    <3>2. \A u \in Updates : u # t => status'[u] = status[u]
      BY <1>1, <2>1
    <3>3. \A w \in Workers : pc[w] = "handling" => Active(w)
      BY DEF Active
    <3>4. UNCHANGED <<pc, cur, attempts>>
      BY <2>1
    <3>5. QED
      BY <3>1, <3>2, <3>3, <3>4 DEF OrderInv, ClaimInv, Active
  <2>5. QED
    BY <2>3, <2>4 DEF OrderInv
<1>4. QED
  BY <1>2, <1>3

\* Every earlier row of the dialog is finished when a row is claimed.
LEMMA ClaimInboxOrder ==
  ASSUME IInv, OrderInv, NEW w \in Workers, ClaimInbox(w)
  PROVE  OrderInv'
<1> USE DEF IInv, TypeOK
<1>1. PICK t \in Updates :
        /\ Claimable(t)
        /\ status' = [status EXCEPT ![t] = "processing"]
        /\ attempts' = [attempts EXCEPT ![t] = @ + 1]
        /\ cur' = [cur EXCEPT ![w] = t]
  BY DEF ClaimInbox
<1>2. /\ status[t] = "pending" /\ FirstOfPeer(t)
      /\ pc[w] = "idle" /\ pc' = [pc EXCEPT ![w] = "handling"]
      /\ created' = created /\ overtakenBy' = overtakenBy
  BY <1>1 DEF ClaimInbox, Claimable, historyVars
<1>3. \A u \in Updates : (Unfinished(u)' <=> Unfinished(u)) /\ (u # t => attempts'[u] = attempts[u])
  BY <1>1, <1>2 DEF Unfinished
<1>4. PeerOrder'
  <2> SUFFICES ASSUME NEW u \in Updates, NEW v \in Rivals(u), attempts'[v] > 0, Before(u, v),
                      v \notin overtakenBy[u], Unfinished(u)
               PROVE  FALSE
    BY <1>2, <1>3 DEF PeerOrder, Before, Rivals
  <2>1. CASE v = t
    <3>1. u \in Rivals(t)
      BY <2>1 DEF Rivals
    <3>2. QED
      BY <1>2, <2>1, <3>1 DEF FirstOfPeer
  <2>2. CASE v # t
    <3>1. attempts[v] > 0 /\ status[u] # "none"
      BY <1>3, <2>2 DEF Rivals, Unfinished
    <3>2. QED
      BY <3>1 DEF OrderInv, PeerOrder
  <2>3. QED
    BY <2>1, <2>2
<1>5. ClaimInv'
  <2>1. \A x \in Workers : Active(x) => cur[x] \in Updates /\ cur[x] # t
    BY <1>2 DEF LoopInv
  <2>2. \A x \in Workers : x # w => pc'[x] = pc[x] /\ cur'[x] = cur[x]
    BY <1>1, <1>2
  <2>3. \A u \in Updates : u # t => status'[u] = status[u] /\ attempts'[u] = attempts[u]
    BY <1>1
  <2>4. cur'[w] = t /\ status'[t] = "processing" /\ attempts'[t] > 0
    BY <1>1
  <2>5. ASSUME NEW x \in Workers, x # w
        PROVE  /\ Active(x)' => attempts'[cur'[x]] > 0
               /\ MarginHolds /\ pc'[x] = "handling" => status'[cur'[x]] = "processing"
    <3>1. Active(x)' => /\ Active(x) /\ cur'[x] = cur[x]
                        /\ attempts'[cur[x]] = attempts[cur[x]]
                        /\ status'[cur[x]] = status[cur[x]]
      BY <2>1, <2>2, <2>3, <2>5 DEF Active
    <3>2. pc'[x] = "handling" => pc[x] = "handling" /\ Active(x)'
      BY <2>2, <2>5 DEF Active
    <3>3. QED
      BY <3>1, <3>2 DEF OrderInv, ClaimInv
  <2>6. QED
    BY <2>4, <2>5 DEF ClaimInv
<1>6. QED
  BY <1>4, <1>5 DEF OrderInv

\* The other steps of a loop end its hold on a row or leave its claim alone.
LEMMA HandlerOrder ==
  ASSUME IInv, OrderInv, NEW w \in Workers,
         \/ HandlerCommits(w) \/ HandlerSends(w) \/ HandlerCommitUnacknowledged(w)
         \/ FinishUpdate(w) \/ HandlerFails(w) \/ FailureNotRecorded(w)
  PROVE  OrderInv'
<1> USE DEF IInv, TypeOK, rowVars, historyVars
<1>1. /\ UNCHANGED <<status, created, attempts, overtakenBy>>
      /\ \A x \in Workers : pc'[x] = "idle" \/ cur'[x] = cur[x]
      /\ \A x \in Workers : pc[x] = "idle" => pc'[x] = "idle"
      /\ \A x \in Workers : pc'[x] = "handling" => pc[x] = "handling"
  BY DEF HandlerCommits, HandlerSends, HandlerCommitUnacknowledged, FinishUpdate, Return,
     HandlerFails, InTimedBody, FailureNotRecorded
<1>2. PeerOrder'
  BY <1>1, PeerOrderKept DEF OrderInv, Unfinished
<1>3. ClaimInv'
  BY <1>1 DEF OrderInv, ClaimInv, Active
<1>4. QED
  BY <1>2, <1>3 DEF OrderInv

\* A handler that ends its row holds it alone.
LEMMA SettleOrder ==
  ASSUME IInv, OrderInv, NEW w \in Workers,
         FinalCommit(w) \/ FinalCommitUnacknowledged(w) \/ RecordFailure(w)
  PROVE  OrderInv'
<1> USE DEF IInv, TypeOK, rowVars, historyVars
<1>1. /\ UNCHANGED <<created, attempts, overtakenBy>>
      /\ pc[w] # "idle" /\ pc'[w] # "handling"
      /\ pc'[w] = "idle" \/ cur'[w] = cur[w]
      /\ \A x \in Workers : x # w => pc'[x] = pc[x] /\ cur'[x] = cur[x]
  BY DEF FinalCommit, FinalCommitUnacknowledged, RecordFailure, Return
<1>2. /\ cur[w] \in Updates
      /\ \A u \in Updates : u # cur[w] => status'[u] = status[u]
  BY <1>1 DEF FinalCommit, FinalCommitUnacknowledged, SettleRow, RecordFailure, Active
<1>3. status[cur[w]] # "processing" => status' = status
  BY DEF FinalCommit, FinalCommitUnacknowledged, SettleRow, RecordFailure
<1>4. PeerOrder'
  <2>1. \A u \in Updates : Unfinished(u)' => Unfinished(u)
    BY <1>2, <1>3 DEF Unfinished
  <2>2. QED
    BY <1>1, <2>1, PeerOrderKept DEF OrderInv
<1>5. ClaimInv'
  <2>1. \A x \in Workers : x # w /\ Active(x) => cur[x] \in Updates /\ cur[x] # cur[w]
    BY <1>1 DEF OneLoopPerUpdate, Active
  <2>2. ASSUME NEW x \in Workers, x # w
        PROVE  /\ Active(x)' => attempts'[cur'[x]] > 0
               /\ MarginHolds /\ pc'[x] = "handling" => status'[cur'[x]] = "processing"
    <3>1. Active(x)' => /\ Active(x) /\ cur'[x] = cur[x]
                        /\ status'[cur[x]] = status[cur[x]]
      BY <1>1, <1>2, <2>1, <2>2 DEF Active
    <3>2. pc'[x] = "handling" => pc[x] = "handling" /\ Active(x)'
      BY <1>1, <2>2 DEF Active
    <3>3. QED
      BY <1>1, <3>1, <3>2 DEF OrderInv, ClaimInv
  <2>3. /\ Active(w)' => attempts'[cur'[w]] > 0
        /\ pc'[w] # "handling"
    BY <1>1 DEF OrderInv, ClaimInv, Active
  <2>4. QED
    BY <2>2, <2>3 DEF ClaimInv
<1>6. QED
  BY <1>4, <1>5 DEF OrderInv

\* Maintenance finds no claim stale whose handler runs within its margin.
LEMMA MaintainOrder ==
  ASSUME IInv, OrderInv, NEW stale \in SUBSET Stale, NEW old \in SUBSET Forgettable,
         Maintain(stale, old)
  PROVE  OrderInv'
<1> USE DEF IInv, TypeOK, rowVars, workerVars, historyVars
<1>1. /\ status' = [u \in Updates |-> IF u \in stale THEN "review"
                                     ELSE IF u \in old THEN "none" ELSE status[u]]
      /\ UNCHANGED <<created, attempts, overtakenBy, pc, cur>>
  BY DEF Maintain
<1>2. PeerOrder'
  <2>1. \A u \in Updates : Unfinished(u)' => Unfinished(u)
    BY <1>1 DEF Unfinished
  <2>2. QED
    BY <1>1, <2>1, PeerOrderKept DEF OrderInv
<1>3. ClaimInv'
  <2>1. ASSUME NEW w \in Workers, MarginHolds, pc[w] = "handling"
        PROVE  status'[cur[w]] = "processing"
    <3>1. cur[w] \in Updates /\ status[cur[w]] = "processing"
      BY <2>1 DEF OrderInv, ClaimInv, Active
    <3>2. cur[w] \notin stale /\ cur[w] \notin old
      BY <2>1, <3>1 DEF Stale, Forgettable, InTimedBody
    <3>3. QED
      BY <1>1, <3>1, <3>2
  <2>2. QED
    BY <1>1, <2>1 DEF OrderInv, ClaimInv, Active
<1>4. QED
  BY <1>2, <1>3 DEF OrderInv

LEMMA NextOrderInv == IInv /\ OrderInv /\ [Next]_vars => OrderInv'
<1> SUFFICES ASSUME IInv, OrderInv, [Next]_vars PROVE OrderInv'
  OBVIOUS
<1>1. ASSUME \/ \E u \in Updates : BeginAccept(u)
             \/ \E r \in requests : FailAccept(r)
             \/ DeleteBot \/ Tick \/ UNCHANGED vars
      PROVE  OrderInv'
  <2>1. UNCHANGED <<status, created, attempts, overtakenBy, pc, cur>>
    BY <1>1 DEF BeginAccept, FailAccept, DeleteBot, Tick, vars, rowVars, workerVars, historyVars
  <2>2. PeerOrder'
    BY <2>1, PeerOrderKept DEF OrderInv, Unfinished
  <2>3. QED
    BY <2>1, <2>2 DEF OrderInv, ClaimInv, Active
<1>2. ASSUME Crash
      PROVE  OrderInv'
  <2>1. /\ UNCHANGED <<status, created, attempts, overtakenBy>>
        /\ pc' = [w \in Workers |-> "idle"]
    BY <1>2 DEF Crash, rowVars, historyVars
  <2>2. PeerOrder'
    BY <2>1, PeerOrderKept DEF OrderInv, Unfinished
  <2>3. QED
    BY <2>1, <2>2 DEF OrderInv, ClaimInv, Active
<1>3. QED
  BY <1>1, <1>2, CommitAcceptOrder, ClaimInboxOrder, HandlerOrder, SettleOrder,
     MaintainOrder DEF Next, WebhookStep, WorkerStep, MaintainDeliveryQueues

LEMMA SpecOrderInv == Spec => []OrderInv
  BY InitOrderInv, NextOrderInv, SpecIInv, PTL DEF Spec

\* Once a later update of a dialog was claimed, an earlier one that was stored
\* by then is finished for good, for any number of loops, rows and retries.
THEOREM SpecPeerOrder == Spec => []PeerOrder
<1>1. OrderInv => PeerOrder
  BY DEF OrderInv
<1>2. QED
  BY <1>1, SpecOrderInv, PTL

\* Two handlers of one dialog are at work at once only when the earlier row was
\* stored after the later one had been claimed.
THEOREM SpecOneHandlerPerPeer == Spec => []OneHandlerPerPeer
<1>1. ASSUME IInv, OrderInv
      PROVE  OneHandlerPerPeer
  <2> SUFFICES ASSUME MarginHolds, NEW w1 \in Workers, NEW w2 \in Workers,
                      w1 # w2, pc[w1] = "handling", pc[w2] = "handling",
                      Peer[cur[w1]] = Peer[cur[w2]]
               PROVE  cur[w1] \in overtakenBy[cur[w2]] \/ cur[w2] \in overtakenBy[cur[w1]]
    BY DEF OneHandlerPerPeer
  <2> DEFINE u == cur[w1]
             v == cur[w2]
  <2>1. u \in Updates /\ v \in Updates /\ u # v
    BY <1>1 DEF IInv, TypeOK, OneLoopPerUpdate, Active
  <2>2. /\ attempts[u] > 0 /\ status[u] = "processing"
        /\ attempts[v] > 0 /\ status[v] = "processing"
    BY <1>1 DEF OrderInv, ClaimInv, Active
  <2>3. u \in Rivals(v) /\ v \in Rivals(u)
    BY <2>1 DEF Rivals
  <2>4. Before(u, v) \/ Before(v, u)
    <3>1. created[u] \in Nat /\ created[v] \in Nat /\ u \in Nat /\ v \in Nat
      <4>1. created[u] \in 0..MaxStamp /\ created[v] \in 0..MaxStamp
        BY <1>1, <2>1, Zenon DEF IInv, TypeOK, Stamps
      <4>2. u \in Nat /\ v \in Nat
        BY <2>1, Zenon
      <4>3. QED
        BY <4>1, <4>2
    <3>2. \A x, y \in Nat : x < y \/ x = y \/ y < x
      OBVIOUS
    <3>3. created[u] < created[v] \/ created[u] = created[v] \/ created[v] < created[u]
      BY <3>1, <3>2
    <3>4. u < v \/ v < u
      BY <2>1, <3>1, <3>2
    <3>5. QED
      BY <3>3, <3>4 DEF Before
  <2>5. QED
    BY <1>1, <2>1, <2>2, <2>3, <2>4 DEF OrderInv, PeerOrder, Unfinished
<1>2. IInv /\ OrderInv => OneHandlerPerPeer
  BY <1>1
<1>3. QED
  BY <1>2, SpecIInv, SpecOrderInv, PTL

-----------------------------------------------------------------------------
(* The inbox implements AtMostOnceWork.                                    *)

\* A step made of such moves is a step of AtMostOnceWork.
LEMMA MovesImplement ==
  ASSUME IInv, IInv', Moves
  PROVE  Work!Next
<1> DEFINE phase == [u \in Updates |-> Phase(u)]
<1> USE DEF IInv, TypeOK, Statuses, Phase
<1>1. phase' \in [Updates -> Work!Phases]
  BY DEF Work!Phases
<1>2. handled' \in [Updates -> 0..1]
  BY DEF RowInv
<1>3. ASSUME NEW u \in Updates
      PROVE  \/ Work!Submit(u) \/ Work!Complete(u) \/ Work!CompleteParked(u) \/ Work!Drop(u)
             \/ Work!Park(u) \/ Work!Reopen(u) \/ Work!Forget(u) \/ Work!Rest(u)
  <2>1. Move(u) /\ status[u] \in Statuses /\ status'[u] \in Statuses
    BY DEF Moves
  <2>2. /\ handled[u] \in 0..1
        /\ status'[u] = "pending" => handled'[u] = 0
        /\ status[u] = "done" => handled[u] = 1
    BY DEF RowInv
  <2>3. QED
    BY <2>1, <2>2 DEF Move, Work!Submit, Work!Complete, Work!CompleteParked, Work!Park,
       Work!Forget, Work!Rest
<1>4. QED
  BY <1>1, <1>2, <1>3 DEF Work!Next

\* An update is performed at most once, closed only when performed, forgotten
\* only when closed, and never taken up again once it is before a human.
THEOREM SpecImplementsAtMostOnceWork == Spec => ImplementsAtMostOnceWork
<1>1. Init => Work!Init
  BY DEF Init, Work!Init, Phase
<1>2. IInv /\ IInv' /\ [Next]_vars => Work!Next
  BY MoveStep, MovesImplement
<1>3. QED
  BY <1>1, <1>2, SpecIInv, PTL DEF Spec, ImplementsAtMostOnceWork, Work!Spec

==============================================================================
