----------------------- MODULE RuntimeDispatch_proofs -----------------------
(***************************************************************************)
(* What holds of the outbox for every number of dispatches, loops and      *)
(* consumers.  Type correctness, "review is left by the administrator      *)
(* only" and "the funnel runs to its end at most once" need no assumption. *)
(* The claim of a row, clean automatic retries and the implementation of   *)
(* AtMostOnceWork are proved for dispatches that never defer (kind start), *)
(* on a host where no job outlives its timeout by 60 s: a deferral whose   *)
(* acknowledgement is lost does break the fence.  Executions that slip     *)
(* past the fence are among the steps everywhere.                          *)
(***************************************************************************)
EXTENDS RuntimeDispatch, TLAPS

\* A row that may still fail has failures left to count.
FailureInv ==
  \A d \in Dispatches :
    status[d] \in {"none", "pending", "running"} => failures[d] < MaxFailures

TypeInv == TypeOK /\ FailureInv

\* One consumer at a time runs the funnel for a message, and none once the
\* funnel has run to its end.
MessageInv ==
  /\ \A c \in Consumers : performs[c] => Executing(c) /\ message[cur[c]] # "new"
  /\ \A c1, c2 \in Consumers : c1 # c2 /\ performs[c1] /\ performs[c2] => cur[c1] # cur[c2]
  /\ \A d \in Inputs : completed[d] # 0 =>
       /\ completed[d] = 1 /\ message[d] = "taken"
       /\ \A c \in Consumers : performs[c] => cur[c] # d
  /\ \A d \in Hints : completed[d] = 0 /\ ~bypassed[d]

\* A claimed row is running, or was closed, and has one claim; a consumer
\* without one has bypassed it.
FenceInv ==
  /\ \A c \in Consumers : owns[c] =>
       pc[c] \in {"running", "failing"} /\ status[cur[c]] \in {"running", "done"}
  /\ \A c1, c2 \in Consumers : c1 # c2 /\ owns[c1] /\ owns[c2] => cur[c1] # cur[c2]
  /\ \A c \in Consumers : pc[c] \in {"running", "failing"} => owns[c] \/ bypassed[cur[c]]
  /\ \A c \in Consumers : Executing(c) => status[cur[c]] = "running" \/ bypassed[cur[c]]

\* Nothing known was left behind for a pending row, and a consumer remembers
\* what it left behind.
CleanInv ==
  /\ \A d \in Inputs : status[d] \in {"none", "pending"} => ~dirty[d] \/ bypassed[d]
  /\ \A c \in Consumers : owns[c] /\ dirty[cur[c]] =>
       committed[c] \/ ioStarted[c] \/ bypassed[cur[c]]
  /\ \A c \in Consumers : pc[c] \in {"idle", "missed"} => ~committed[c] /\ ~ioStarted[c]
  /\ \A c \in Consumers : Executing(c) /\ (committed[c] \/ ioStarted[c]) => performs[c]
  /\ \A c \in Consumers : performs[c] /\ message[cur[c]] = "taken" =>
       dirty[cur[c]] \/ bypassed[cur[c]]

\* What the outbox answers for no longer.
Adrift(d) == bypassed[d] \/ Unaccounted(d)

\* The end of the funnel and the closing of the row are one transaction.
CompletionInv ==
  \A d \in Inputs :
    Adrift(d) \/ completed[d] = IF status[d] \in {"done", "purged"} THEN 1 ELSE 0

StartInv == TypeInv /\ MessageInv /\ FenceInv /\ CleanInv /\ CompletionInv

StartsOnly == MarginHolds /\ MaxDefers = 0

-----------------------------------------------------------------------------
LEMMA InitInv == Init => StartInv
  BY FailuresAssumption, BoundAssumption, NoneAssumption, KindAssumption
     DEF Init, StartInv, TypeInv, FailureInv, MessageInv, FenceInv, CompletionInv, CleanInv,
         TypeOK, Dispatches, Statuses, Versions, Busy, Executing, Adrift

\* A deferral writes well-typed rows, and none that may fail too often.
LEMMA DeferTypes ==
  ASSUME TypeInv, NEW c \in Consumers, Executing(c), Defer(c)
  PROVE  /\ status' \in [Dispatches -> Statuses]
         /\ fence' \in [Dispatches -> Loops \cup {None}]
         /\ defers' \in [Dispatches -> 0..MaxDefers]
         /\ dirty' \in [Dispatches -> BOOLEAN]
         /\ message' \in [Inputs -> {"new", "claimed", "taken"}]
         /\ completed' = completed
         /\ \A d \in Dispatches : status'[d] \in {"none", "pending", "running"} =>
              status[d] \in {"none", "pending", "running"}
<1> USE DEF TypeInv, TypeOK, Dispatches, Executing, Busy
<1>1. cur[c] \in Inputs
  OBVIOUS
<1>2. /\ status' \in [Dispatches -> Statuses]
      /\ \A d \in Dispatches : status'[d] \in {"none", "pending", "running"} =>
           status[d] \in {"none", "pending", "running"}
  BY <1>1 DEF Defer, Statuses
<1>3. fence' \in [Dispatches -> Loops \cup {None}]
  BY <1>1 DEF Defer
<1>4. defers' \in [Dispatches -> 0..MaxDefers]
  BY <1>1, BoundAssumption DEF Defer
<1>5. dirty' \in [Dispatches -> BOOLEAN] /\ message' \in [Inputs -> {"new", "claimed", "taken"}]
  BY <1>1 DEF Defer
<1>6. QED
  BY <1>2, <1>3, <1>4, <1>5 DEF Defer

\* Every step keeps the types, and the failure counter below its limit.
LEMMA TypeInvStep ==
  ASSUME TypeInv, [Next]_vars
  PROVE  TypeInv'
<1> USE KindAssumption, FailuresAssumption, BoundAssumption, NoneAssumption
<1> USE DEF TypeInv, TypeOK, Dispatches, Statuses, Versions, Busy, Executing, rowVars,
           loopVars, consumerVars, historyVars
<1> USE DEF FailureInv
<1>1. CASE ChatChanges
  BY <1>1 DEF ChatChanges
<1>2. ASSUME NEW d \in Dispatches, SaveRuntimeDispatch(d)
      PROVE  TypeInv'
  BY <1>2 DEF SaveRuntimeDispatch
<1>3. ASSUME NEW d \in Inputs, RedisLosesJob(d)
      PROVE  TypeInv'
  BY <1>3 DEF RedisLosesJob
<1>4. ASSUME NEW d \in Inputs, JobReappears(d)
      PROVE  TypeInv'
  BY <1>4 DEF JobReappears
<1>5. ASSUME NEW d \in Inputs, RetryReview(d)
      PROVE  TypeInv'
  BY <1>5 DEF RetryReview, CanRetry
<1>6. ASSUME NEW l \in Loops, DispatchClaim(l)
      PROVE  TypeInv'
  BY <1>6 DEF DispatchClaim
<1>7. ASSUME NEW l \in Loops, DispatchAccepted(l)
      PROVE  TypeInv'
  BY <1>7 DEF DispatchAccepted, Enqueue
<1>8. ASSUME NEW l \in Loops, DispatchFailed(l)
      PROVE  TypeInv'
  BY <1>8 DEF DispatchFailed, Enqueue
<1>9. ASSUME NEW l \in Loops, DispatchRecord(l)
      PROVE  TypeInv'
  BY <1>9 DEF DispatchRecord, ClosedByRedis
<1>10. ASSUME NEW l \in Loops, DispatchAbandoned(l)
      PROVE  TypeInv'
  BY <1>10 DEF DispatchAbandoned
<1>11. ASSUME NEW c \in Consumers, NEW d \in Inputs, StartJob(c, d)
      PROVE  TypeInv'
  BY <1>11 DEF StartJob, Runnable
<1>12. ASSUME NEW c \in Consumers, NEW d \in Inputs, ClaimMissed(c, d)
      PROVE  TypeInv'
  BY <1>12 DEF ClaimMissed, Runnable
<1>13. ASSUME NEW c \in Consumers, RefuseJob(c)
      PROVE  TypeInv'
  BY <1>13 DEF RefuseJob, Refused, JobEnds, Return
<1>14. ASSUME NEW c \in Consumers, StartUnclaimed(c)
      PROVE  TypeInv'
  BY <1>14 DEF StartUnclaimed, Refused
<1>15. ASSUME NEW c \in Consumers, LookupFails(c)
      PROVE  TypeInv'
  BY <1>15 DEF LookupFails, JobEnds, JobRetries, Return
<1>16. ASSUME NEW c \in Consumers, ClaimMessage(c)
      PROVE  TypeInv'
  BY <1>16 DEF ClaimMessage, Unprocessed
<1>17. ASSUME NEW c \in Consumers, HandlerCommits(c)
      PROVE  TypeInv'
  BY <1>17 DEF HandlerCommits, RuntimeWrites
<1>18. ASSUME NEW c \in Consumers, HandlerSends(c)
      PROVE  TypeInv'
  BY <1>18 DEF HandlerSends
<1>19. ASSUME NEW c \in Consumers, HandlerCommitUnacknowledged(c)
      PROVE  TypeInv'
  BY <1>19 DEF HandlerCommitUnacknowledged, Raise, RuntimeWrites
<1>20. ASSUME NEW c \in Consumers, FinishJob(c)
      PROVE  TypeInv'
  <2>1. CASE Acknowledge(c)
    BY <1>20, <2>1 DEF FinishJob, Acknowledge, CloseRow, JobEnds, Return, RuntimeWrites
  <2>2. CASE AcknowledgeProcessed(c)
    BY <1>20, <2>2 DEF FinishJob, AcknowledgeProcessed, CloseRow, JobEnds, Return, RuntimeWrites
  <2>3. QED
    BY <1>20, <2>1, <2>2 DEF FinishJob
<1>21. ASSUME NEW c \in Consumers, DeferJob(c)
      PROVE  TypeInv'
  <2>1. job' \in [Inputs -> {"absent", "queued", "active"}]
    BY <1>21 DEF DeferJob, JobEnds, JobRetries
  <2>2. /\ pc' \in [Consumers -> {"idle", "missed", "running", "failing"}]
        /\ cur' \in [Consumers -> Inputs \cup {None}]
        /\ \A k \in Consumers : Busy(k)' => cur'[k] \in Inputs
    BY <1>21 DEF DeferJob, Return
  <2>3. /\ owns' \in [Consumers -> BOOLEAN] /\ performs' \in [Consumers -> BOOLEAN]
        /\ snapshot' \in [Consumers -> Versions]
        /\ committed' \in [Consumers -> BOOLEAN] /\ ioStarted' \in [Consumers -> BOOLEAN]
    BY <1>21 DEF DeferJob, Return
  <2>4. QED
    BY <1>21, <2>1, <2>2, <2>3, DeferTypes DEF DeferJob, RuntimeWrites
<1>22. ASSUME NEW c \in Consumers, FinishUnacknowledged(c)
      PROVE  TypeInv'
  <2>1. CASE Acknowledge(c)
    BY <1>22, <2>1 DEF FinishUnacknowledged, Acknowledge, CloseRow, Raise, RuntimeWrites
  <2>2. CASE AcknowledgeProcessed(c)
    BY <1>22, <2>2 DEF FinishUnacknowledged, AcknowledgeProcessed, CloseRow, Raise, RuntimeWrites
  <2>3. CASE Defer(c)
    BY <1>22, <2>3, DeferTypes DEF FinishUnacknowledged, Raise, RuntimeWrites
  <2>4. QED
    BY <1>22, <2>1, <2>2, <2>3 DEF FinishUnacknowledged
<1>23. ASSUME NEW c \in Consumers, JobFails(c)
      PROVE  TypeInv'
  BY <1>23 DEF JobFails, Raise, RolledBack
<1>24. ASSUME NEW c \in Consumers, RecordFailure(c)
      PROVE  TypeInv'
  <2>1. job' \in [Inputs -> {"absent", "queued", "active"}]
    BY <1>24 DEF RecordFailure, JobEnds, JobRetries
  <2>2. /\ pc' \in [Consumers -> {"idle", "missed", "running", "failing"}]
        /\ cur' \in [Consumers -> Inputs \cup {None}]
        /\ \A k \in Consumers : Busy(k)' => cur'[k] \in Inputs
    BY <1>24 DEF RecordFailure, Return
  <2>3. /\ owns' \in [Consumers -> BOOLEAN] /\ performs' \in [Consumers -> BOOLEAN]
        /\ snapshot' \in [Consumers -> Versions]
        /\ committed' \in [Consumers -> BOOLEAN] /\ ioStarted' \in [Consumers -> BOOLEAN]
    BY <1>24 DEF RecordFailure, Return
  <2>4. /\ status' \in [Dispatches -> Statuses]
        /\ fence' \in [Dispatches -> Loops \cup {None}]
        /\ evidence' \in [Dispatches -> Versions \cup {None}]
    BY <1>24 DEF RecordFailure
  <2>5. failures' \in [Dispatches -> 0..MaxFailures]
        /\ \A d \in Dispatches : status'[d] \in {"none", "pending", "running"} => failures'[d] < MaxFailures
    BY <1>24 DEF RecordFailure, TakesFailure, SafeRetry, FailuresLeft
  <2>6. QED
    BY <1>24, <2>1, <2>2, <2>3, <2>4, <2>5 DEF RecordFailure
<1>25. ASSUME NEW c \in Consumers, FailureNotRecorded(c)
      PROVE  TypeInv'
  BY <1>25 DEF FailureNotRecorded, JobEnds, JobRetries, Return
<1>26. CASE Crash
  BY <1>26 DEF Crash
<1>27. CASE MaintainDeliveryQueues
  BY <1>27 DEF MaintainDeliveryQueues, Maintain, Stale, Forgettable
<1>28. CASE UNCHANGED vars
  BY <1>28 DEF vars
<1>29. QED
  BY <1>1, <1>2, <1>3, <1>4, <1>5, <1>6, <1>7, <1>8, <1>9, <1>10, <1>11, <1>12, <1>13,
     <1>14, <1>15, <1>16, <1>17, <1>18, <1>19, <1>20, <1>21, <1>22, <1>23, <1>24, <1>25,
     <1>26, <1>27, <1>28
     DEF Next, LoopStep, ConsumerStep

\* Every step keeps the messages' claims exclusive, completed ones for good.
LEMMA MessageInvStep ==
  ASSUME TypeInv, MessageInv, [Next]_vars
  PROVE  MessageInv'
<1> USE KindAssumption, FailuresAssumption, BoundAssumption, NoneAssumption
<1> USE DEF TypeInv, TypeOK, Dispatches, Statuses, Versions, Busy, Executing, rowVars,
           loopVars, consumerVars, historyVars
<1> USE DEF MessageInv
<1>1. CASE ChatChanges
  BY <1>1 DEF ChatChanges
<1>2. ASSUME NEW d \in Dispatches, SaveRuntimeDispatch(d)
      PROVE  MessageInv'
  BY <1>2 DEF SaveRuntimeDispatch
<1>3. ASSUME NEW d \in Inputs, RedisLosesJob(d)
      PROVE  MessageInv'
  BY <1>3 DEF RedisLosesJob
<1>4. ASSUME NEW d \in Inputs, JobReappears(d)
      PROVE  MessageInv'
  BY <1>4 DEF JobReappears
<1>5. ASSUME NEW d \in Inputs, RetryReview(d)
      PROVE  MessageInv'
  BY <1>5 DEF RetryReview, CanRetry
<1>6. ASSUME NEW l \in Loops, DispatchClaim(l)
      PROVE  MessageInv'
  BY <1>6 DEF DispatchClaim
<1>7. ASSUME NEW l \in Loops, DispatchAccepted(l)
      PROVE  MessageInv'
  BY <1>7 DEF DispatchAccepted, Enqueue
<1>8. ASSUME NEW l \in Loops, DispatchFailed(l)
      PROVE  MessageInv'
  BY <1>8 DEF DispatchFailed, Enqueue
<1>9. ASSUME NEW l \in Loops, DispatchRecord(l)
      PROVE  MessageInv'
  BY <1>9 DEF DispatchRecord, ClosedByRedis
<1>10. ASSUME NEW l \in Loops, DispatchAbandoned(l)
      PROVE  MessageInv'
  BY <1>10 DEF DispatchAbandoned
<1>11. ASSUME NEW c \in Consumers, NEW d \in Inputs, StartJob(c, d)
      PROVE  MessageInv'
  BY <1>11 DEF StartJob, Runnable
<1>12. ASSUME NEW c \in Consumers, NEW d \in Inputs, ClaimMissed(c, d)
      PROVE  MessageInv'
  BY <1>12 DEF ClaimMissed, Runnable
<1>13. ASSUME NEW c \in Consumers, RefuseJob(c)
      PROVE  MessageInv'
  BY <1>13 DEF RefuseJob, Refused, JobEnds, Return
<1>14. ASSUME NEW c \in Consumers, StartUnclaimed(c)
      PROVE  MessageInv'
  BY <1>14 DEF StartUnclaimed, Refused
<1>15. ASSUME NEW c \in Consumers, LookupFails(c)
      PROVE  MessageInv'
  BY <1>15 DEF LookupFails, JobEnds, JobRetries, Return
<1>16. ASSUME NEW c \in Consumers, ClaimMessage(c)
      PROVE  MessageInv'
  BY <1>16 DEF ClaimMessage, Unprocessed
<1>17. ASSUME NEW c \in Consumers, HandlerCommits(c)
      PROVE  MessageInv'
  BY <1>17 DEF HandlerCommits, RuntimeWrites
<1>18. ASSUME NEW c \in Consumers, HandlerSends(c)
      PROVE  MessageInv'
  BY <1>18 DEF HandlerSends
<1>19. ASSUME NEW c \in Consumers, HandlerCommitUnacknowledged(c)
      PROVE  MessageInv'
  BY <1>19 DEF HandlerCommitUnacknowledged, Raise, RuntimeWrites
<1>20. ASSUME NEW c \in Consumers, FinishJob(c)
      PROVE  MessageInv'
  <2>1. CASE Acknowledge(c)
    BY <1>20, <2>1 DEF FinishJob, Acknowledge, CloseRow, JobEnds, Return, RuntimeWrites
  <2>2. CASE AcknowledgeProcessed(c)
    BY <1>20, <2>2 DEF FinishJob, AcknowledgeProcessed, CloseRow, JobEnds, Return, RuntimeWrites
  <2>3. QED
    BY <1>20, <2>1, <2>2 DEF FinishJob
<1>21. ASSUME NEW c \in Consumers, DeferJob(c)
      PROVE  MessageInv'
  BY <1>21 DEF DeferJob, Defer, JobEnds, JobRetries, Return, RuntimeWrites
<1>22. ASSUME NEW c \in Consumers, FinishUnacknowledged(c)
      PROVE  MessageInv'
  <2>1. CASE Acknowledge(c)
    BY <1>22, <2>1 DEF FinishUnacknowledged, Acknowledge, CloseRow, Raise, RuntimeWrites
  <2>2. CASE AcknowledgeProcessed(c)
    BY <1>22, <2>2 DEF FinishUnacknowledged, AcknowledgeProcessed, CloseRow, Raise, RuntimeWrites
  <2>3. CASE Defer(c)
    BY <1>22, <2>3 DEF FinishUnacknowledged, Defer, CloseRow, Raise, RuntimeWrites
  <2>4. QED
    BY <1>22, <2>1, <2>2, <2>3 DEF FinishUnacknowledged
<1>23. ASSUME NEW c \in Consumers, JobFails(c)
      PROVE  MessageInv'
  BY <1>23 DEF JobFails, Raise, RolledBack
<1>24. ASSUME NEW c \in Consumers, RecordFailure(c)
      PROVE  MessageInv'
  BY <1>24 DEF RecordFailure, TakesFailure, SafeRetry, NoEffects, FailuresLeft, JobEnds,
     JobRetries, Return
<1>25. ASSUME NEW c \in Consumers, FailureNotRecorded(c)
      PROVE  MessageInv'
  BY <1>25 DEF FailureNotRecorded, JobEnds, JobRetries, Return
<1>26. CASE Crash
  BY <1>26 DEF Crash
<1>27. CASE MaintainDeliveryQueues
  BY <1>27 DEF MaintainDeliveryQueues, Maintain, Stale, Forgettable
<1>28. CASE UNCHANGED vars
  BY <1>28 DEF vars
<1>29. QED
  BY <1>1, <1>2, <1>3, <1>4, <1>5, <1>6, <1>7, <1>8, <1>9, <1>10, <1>11, <1>12, <1>13,
     <1>14, <1>15, <1>16, <1>17, <1>18, <1>19, <1>20, <1>21, <1>22, <1>23, <1>24, <1>25,
     <1>26, <1>27, <1>28
     DEF Next, LoopStep, ConsumerStep

\* Every step keeps the fence of a running row.
LEMMA FenceInvStep ==
  ASSUME StartInv, StartsOnly, [Next]_vars
  PROVE  FenceInv'
<1> USE KindAssumption, FailuresAssumption, BoundAssumption, NoneAssumption
<1> USE DEF TypeInv, TypeOK, Dispatches, Statuses, Versions, Busy, Executing, rowVars,
           loopVars, consumerVars, historyVars
<1> USE DEF StartInv, StartsOnly, FenceInv
<1>1. CASE ChatChanges
  BY <1>1 DEF ChatChanges
<1>2. ASSUME NEW d \in Dispatches, SaveRuntimeDispatch(d)
      PROVE  FenceInv'
  BY <1>2 DEF SaveRuntimeDispatch
<1>3. ASSUME NEW d \in Inputs, RedisLosesJob(d)
      PROVE  FenceInv'
  BY <1>3 DEF RedisLosesJob
<1>4. ASSUME NEW d \in Inputs, JobReappears(d)
      PROVE  FenceInv'
  BY <1>4 DEF JobReappears
<1>5. ASSUME NEW d \in Inputs, RetryReview(d)
      PROVE  FenceInv'
  BY <1>5 DEF RetryReview, CanRetry
<1>6. ASSUME NEW l \in Loops, DispatchClaim(l)
      PROVE  FenceInv'
  BY <1>6 DEF DispatchClaim
<1>7. ASSUME NEW l \in Loops, DispatchAccepted(l)
      PROVE  FenceInv'
  BY <1>7 DEF DispatchAccepted, Enqueue
<1>8. ASSUME NEW l \in Loops, DispatchFailed(l)
      PROVE  FenceInv'
  BY <1>8 DEF DispatchFailed, Enqueue
<1>9. ASSUME NEW l \in Loops, DispatchRecord(l)
      PROVE  FenceInv'
  BY <1>9 DEF DispatchRecord, ClosedByRedis
<1>10. ASSUME NEW l \in Loops, DispatchAbandoned(l)
      PROVE  FenceInv'
  BY <1>10 DEF DispatchAbandoned
<1>11. ASSUME NEW c \in Consumers, NEW d \in Inputs, StartJob(c, d)
      PROVE  FenceInv'
  BY <1>11 DEF StartJob, Runnable
<1>12. ASSUME NEW c \in Consumers, NEW d \in Inputs, ClaimMissed(c, d)
      PROVE  FenceInv'
  BY <1>12 DEF ClaimMissed, Runnable
<1>13. ASSUME NEW c \in Consumers, RefuseJob(c)
      PROVE  FenceInv'
  BY <1>13 DEF RefuseJob, Refused, JobEnds, Return
<1>14. ASSUME NEW c \in Consumers, StartUnclaimed(c)
      PROVE  FenceInv'
  BY <1>14 DEF StartUnclaimed, Refused
<1>15. ASSUME NEW c \in Consumers, LookupFails(c)
      PROVE  FenceInv'
  BY <1>15 DEF LookupFails, JobEnds, JobRetries, Return
<1>16. ASSUME NEW c \in Consumers, ClaimMessage(c)
      PROVE  FenceInv'
  BY <1>16 DEF ClaimMessage, Unprocessed
<1>17. ASSUME NEW c \in Consumers, HandlerCommits(c)
      PROVE  FenceInv'
  BY <1>17 DEF HandlerCommits, RuntimeWrites
<1>18. ASSUME NEW c \in Consumers, HandlerSends(c)
      PROVE  FenceInv'
  BY <1>18 DEF HandlerSends
<1>19. ASSUME NEW c \in Consumers, HandlerCommitUnacknowledged(c)
      PROVE  FenceInv'
  BY <1>19 DEF HandlerCommitUnacknowledged, Raise, RuntimeWrites
<1>20. ASSUME NEW c \in Consumers, FinishJob(c)
      PROVE  FenceInv'
  <2>1. CASE Acknowledge(c)
    BY <1>20, <2>1 DEF FinishJob, Acknowledge, CloseRow, JobEnds, Return, RuntimeWrites
  <2>2. CASE AcknowledgeProcessed(c)
    BY <1>20, <2>2 DEF FinishJob, AcknowledgeProcessed, CloseRow, JobEnds, Return, RuntimeWrites
  <2>3. QED
    BY <1>20, <2>1, <2>2 DEF FinishJob
<1>21. ASSUME NEW c \in Consumers, DeferJob(c)
      PROVE  FenceInv'
  BY <1>21 DEF DeferJob, Defer, JobEnds, JobRetries, Return, RuntimeWrites
<1>22. ASSUME NEW c \in Consumers, FinishUnacknowledged(c)
      PROVE  FenceInv'
  <2>1. CASE Acknowledge(c)
    BY <1>22, <2>1 DEF FinishUnacknowledged, Acknowledge, CloseRow, Raise, RuntimeWrites
  <2>2. CASE AcknowledgeProcessed(c)
    BY <1>22, <2>2 DEF FinishUnacknowledged, AcknowledgeProcessed, CloseRow, Raise, RuntimeWrites
  <2>3. CASE Defer(c)
    BY <1>22, <2>3 DEF FinishUnacknowledged, Defer, CloseRow, Raise, RuntimeWrites
  <2>4. QED
    BY <1>22, <2>1, <2>2, <2>3 DEF FinishUnacknowledged
<1>23. ASSUME NEW c \in Consumers, JobFails(c)
      PROVE  FenceInv'
  BY <1>23 DEF JobFails, Raise, RolledBack
<1>24. ASSUME NEW c \in Consumers, RecordFailure(c)
      PROVE  FenceInv'
  BY <1>24 DEF RecordFailure, TakesFailure, SafeRetry, NoEffects, FailuresLeft, JobEnds,
     JobRetries, Return
<1>25. ASSUME NEW c \in Consumers, FailureNotRecorded(c)
      PROVE  FenceInv'
  BY <1>25 DEF FailureNotRecorded, JobEnds, JobRetries, Return
<1>26. CASE Crash
  BY <1>26 DEF Crash
<1>27. CASE MaintainDeliveryQueues
  BY <1>27 DEF MaintainDeliveryQueues, Maintain, Stale, Forgettable
<1>28. CASE UNCHANGED vars
  BY <1>28 DEF vars
<1>29. QED
  BY <1>1, <1>2, <1>3, <1>4, <1>5, <1>6, <1>7, <1>8, <1>9, <1>10, <1>11, <1>12, <1>13,
     <1>14, <1>15, <1>16, <1>17, <1>18, <1>19, <1>20, <1>21, <1>22, <1>23, <1>24, <1>25,
     <1>26, <1>27, <1>28
     DEF Next, LoopStep, ConsumerStep

\* Every step keeps effects accounted for by the consumer that had them.
LEMMA CleanInvStep ==
  ASSUME StartInv, StartsOnly, [Next]_vars
  PROVE  CleanInv'
<1> USE KindAssumption, FailuresAssumption, BoundAssumption, NoneAssumption
<1> USE DEF TypeInv, TypeOK, Dispatches, Statuses, Versions, Busy, Executing, rowVars,
           loopVars, consumerVars, historyVars
<1> USE DEF StartInv, StartsOnly, MessageInv, FenceInv, CleanInv
<1>1. CASE ChatChanges
  BY <1>1 DEF ChatChanges
<1>2. ASSUME NEW d \in Dispatches, SaveRuntimeDispatch(d)
      PROVE  CleanInv'
  BY <1>2 DEF SaveRuntimeDispatch
<1>3. ASSUME NEW d \in Inputs, RedisLosesJob(d)
      PROVE  CleanInv'
  BY <1>3 DEF RedisLosesJob
<1>4. ASSUME NEW d \in Inputs, JobReappears(d)
      PROVE  CleanInv'
  BY <1>4 DEF JobReappears
<1>5. ASSUME NEW d \in Inputs, RetryReview(d)
      PROVE  CleanInv'
  BY <1>5 DEF RetryReview, CanRetry
<1>6. ASSUME NEW l \in Loops, DispatchClaim(l)
      PROVE  CleanInv'
  BY <1>6 DEF DispatchClaim
<1>7. ASSUME NEW l \in Loops, DispatchAccepted(l)
      PROVE  CleanInv'
  BY <1>7 DEF DispatchAccepted, Enqueue
<1>8. ASSUME NEW l \in Loops, DispatchFailed(l)
      PROVE  CleanInv'
  BY <1>8 DEF DispatchFailed, Enqueue
<1>9. ASSUME NEW l \in Loops, DispatchRecord(l)
      PROVE  CleanInv'
  BY <1>9 DEF DispatchRecord, ClosedByRedis
<1>10. ASSUME NEW l \in Loops, DispatchAbandoned(l)
      PROVE  CleanInv'
  BY <1>10 DEF DispatchAbandoned
<1>11. ASSUME NEW c \in Consumers, NEW d \in Inputs, StartJob(c, d)
      PROVE  CleanInv'
  BY <1>11 DEF StartJob, Runnable
<1>12. ASSUME NEW c \in Consumers, NEW d \in Inputs, ClaimMissed(c, d)
      PROVE  CleanInv'
  BY <1>12 DEF ClaimMissed, Runnable
<1>13. ASSUME NEW c \in Consumers, RefuseJob(c)
      PROVE  CleanInv'
  BY <1>13 DEF RefuseJob, Refused, JobEnds, Return
<1>14. ASSUME NEW c \in Consumers, StartUnclaimed(c)
      PROVE  CleanInv'
  BY <1>14 DEF StartUnclaimed, Refused
<1>15. ASSUME NEW c \in Consumers, LookupFails(c)
      PROVE  CleanInv'
  BY <1>15 DEF LookupFails, JobEnds, JobRetries, Return
<1>16. ASSUME NEW c \in Consumers, ClaimMessage(c)
      PROVE  CleanInv'
  BY <1>16 DEF ClaimMessage, Unprocessed
<1>17. ASSUME NEW c \in Consumers, HandlerCommits(c)
      PROVE  CleanInv'
  BY <1>17 DEF HandlerCommits, RuntimeWrites
<1>18. ASSUME NEW c \in Consumers, HandlerSends(c)
      PROVE  CleanInv'
  BY <1>18 DEF HandlerSends
<1>19. ASSUME NEW c \in Consumers, HandlerCommitUnacknowledged(c)
      PROVE  CleanInv'
  BY <1>19 DEF HandlerCommitUnacknowledged, Raise, RuntimeWrites
<1>20. ASSUME NEW c \in Consumers, FinishJob(c)
      PROVE  CleanInv'
  <2>1. CASE Acknowledge(c)
    BY <1>20, <2>1 DEF FinishJob, Acknowledge, CloseRow, JobEnds, Return, RuntimeWrites
  <2>2. CASE AcknowledgeProcessed(c)
    BY <1>20, <2>2 DEF FinishJob, AcknowledgeProcessed, CloseRow, JobEnds, Return, RuntimeWrites
  <2>3. QED
    BY <1>20, <2>1, <2>2 DEF FinishJob
<1>21. ASSUME NEW c \in Consumers, DeferJob(c)
      PROVE  CleanInv'
  BY <1>21 DEF DeferJob, Defer, JobEnds, JobRetries, Return, RuntimeWrites
<1>22. ASSUME NEW c \in Consumers, FinishUnacknowledged(c)
      PROVE  CleanInv'
  <2>1. CASE Acknowledge(c)
    BY <1>22, <2>1 DEF FinishUnacknowledged, Acknowledge, CloseRow, Raise, RuntimeWrites
  <2>2. CASE AcknowledgeProcessed(c)
    BY <1>22, <2>2 DEF FinishUnacknowledged, AcknowledgeProcessed, CloseRow, Raise, RuntimeWrites
  <2>3. CASE Defer(c)
    BY <1>22, <2>3 DEF FinishUnacknowledged, Defer, CloseRow, Raise, RuntimeWrites
  <2>4. QED
    BY <1>22, <2>1, <2>2, <2>3 DEF FinishUnacknowledged
<1>23. ASSUME NEW c \in Consumers, JobFails(c)
      PROVE  CleanInv'
  BY <1>23 DEF JobFails, Raise, RolledBack
<1>24. ASSUME NEW c \in Consumers, RecordFailure(c)
      PROVE  CleanInv'
  BY <1>24 DEF RecordFailure, TakesFailure, SafeRetry, NoEffects, FailuresLeft, JobEnds,
     JobRetries, Return
<1>25. ASSUME NEW c \in Consumers, FailureNotRecorded(c)
      PROVE  CleanInv'
  BY <1>25 DEF FailureNotRecorded, JobEnds, JobRetries, Return
<1>26. CASE Crash
  BY <1>26 DEF Crash
<1>27. CASE MaintainDeliveryQueues
  BY <1>27 DEF MaintainDeliveryQueues, Maintain, Stale, Forgettable
<1>28. CASE UNCHANGED vars
  BY <1>28 DEF vars
<1>29. QED
  BY <1>1, <1>2, <1>3, <1>4, <1>5, <1>6, <1>7, <1>8, <1>9, <1>10, <1>11, <1>12, <1>13,
     <1>14, <1>15, <1>16, <1>17, <1>18, <1>19, <1>20, <1>21, <1>22, <1>23, <1>24, <1>25,
     <1>26, <1>27, <1>28
     DEF Next, LoopStep, ConsumerStep

\* Every step keeps completions and closed rows together.
LEMMA CompletionInvStep ==
  ASSUME StartInv, StartsOnly, [Next]_vars
  PROVE  CompletionInv'
<1> USE KindAssumption, FailuresAssumption, BoundAssumption, NoneAssumption
<1> USE DEF TypeInv, TypeOK, Dispatches, Statuses, Versions, Busy, Executing, rowVars,
           loopVars, consumerVars, historyVars
<1> USE DEF StartInv, StartsOnly, MessageInv, FenceInv, CleanInv, CompletionInv, Adrift, Unaccounted
<1>1. CASE ChatChanges
  BY <1>1 DEF ChatChanges
<1>2. ASSUME NEW d \in Dispatches, SaveRuntimeDispatch(d)
      PROVE  CompletionInv'
  BY <1>2 DEF SaveRuntimeDispatch
<1>3. ASSUME NEW d \in Inputs, RedisLosesJob(d)
      PROVE  CompletionInv'
  BY <1>3 DEF RedisLosesJob
<1>4. ASSUME NEW d \in Inputs, JobReappears(d)
      PROVE  CompletionInv'
  BY <1>4 DEF JobReappears
<1>5. ASSUME NEW d \in Inputs, RetryReview(d)
      PROVE  CompletionInv'
  BY <1>5 DEF RetryReview, CanRetry
<1>6. ASSUME NEW l \in Loops, DispatchClaim(l)
      PROVE  CompletionInv'
  BY <1>6 DEF DispatchClaim
<1>7. ASSUME NEW l \in Loops, DispatchAccepted(l)
      PROVE  CompletionInv'
  BY <1>7 DEF DispatchAccepted, Enqueue
<1>8. ASSUME NEW l \in Loops, DispatchFailed(l)
      PROVE  CompletionInv'
  BY <1>8 DEF DispatchFailed, Enqueue
<1>9. ASSUME NEW l \in Loops, DispatchRecord(l)
      PROVE  CompletionInv'
  BY <1>9 DEF DispatchRecord, ClosedByRedis
<1>10. ASSUME NEW l \in Loops, DispatchAbandoned(l)
      PROVE  CompletionInv'
  BY <1>10 DEF DispatchAbandoned
<1>11. ASSUME NEW c \in Consumers, NEW d \in Inputs, StartJob(c, d)
      PROVE  CompletionInv'
  BY <1>11 DEF StartJob, Runnable
<1>12. ASSUME NEW c \in Consumers, NEW d \in Inputs, ClaimMissed(c, d)
      PROVE  CompletionInv'
  BY <1>12 DEF ClaimMissed, Runnable
<1>13. ASSUME NEW c \in Consumers, RefuseJob(c)
      PROVE  CompletionInv'
  BY <1>13 DEF RefuseJob, Refused, JobEnds, Return
<1>14. ASSUME NEW c \in Consumers, StartUnclaimed(c)
      PROVE  CompletionInv'
  BY <1>14 DEF StartUnclaimed, Refused
<1>15. ASSUME NEW c \in Consumers, LookupFails(c)
      PROVE  CompletionInv'
  BY <1>15 DEF LookupFails, JobEnds, JobRetries, Return
<1>16. ASSUME NEW c \in Consumers, ClaimMessage(c)
      PROVE  CompletionInv'
  BY <1>16 DEF ClaimMessage, Unprocessed
<1>17. ASSUME NEW c \in Consumers, HandlerCommits(c)
      PROVE  CompletionInv'
  BY <1>17 DEF HandlerCommits, RuntimeWrites
<1>18. ASSUME NEW c \in Consumers, HandlerSends(c)
      PROVE  CompletionInv'
  BY <1>18 DEF HandlerSends
<1>19. ASSUME NEW c \in Consumers, HandlerCommitUnacknowledged(c)
      PROVE  CompletionInv'
  BY <1>19 DEF HandlerCommitUnacknowledged, Raise, RuntimeWrites
<1>20. ASSUME NEW c \in Consumers, FinishJob(c)
      PROVE  CompletionInv'
  <2>1. CASE Acknowledge(c)
    BY <1>20, <2>1 DEF FinishJob, Acknowledge, CloseRow, JobEnds, Return, RuntimeWrites
  <2>2. CASE AcknowledgeProcessed(c)
    BY <1>20, <2>2 DEF FinishJob, AcknowledgeProcessed, CloseRow, JobEnds, Return, RuntimeWrites
  <2>3. QED
    BY <1>20, <2>1, <2>2 DEF FinishJob
<1>21. ASSUME NEW c \in Consumers, DeferJob(c)
      PROVE  CompletionInv'
  BY <1>21 DEF DeferJob, Defer, JobEnds, JobRetries, Return, RuntimeWrites
<1>22. ASSUME NEW c \in Consumers, FinishUnacknowledged(c)
      PROVE  CompletionInv'
  <2>1. CASE Acknowledge(c)
    BY <1>22, <2>1 DEF FinishUnacknowledged, Acknowledge, CloseRow, Raise, RuntimeWrites
  <2>2. CASE AcknowledgeProcessed(c)
    BY <1>22, <2>2 DEF FinishUnacknowledged, AcknowledgeProcessed, CloseRow, Raise, RuntimeWrites
  <2>3. CASE Defer(c)
    BY <1>22, <2>3 DEF FinishUnacknowledged, Defer, CloseRow, Raise, RuntimeWrites
  <2>4. QED
    BY <1>22, <2>1, <2>2, <2>3 DEF FinishUnacknowledged
<1>23. ASSUME NEW c \in Consumers, JobFails(c)
      PROVE  CompletionInv'
  BY <1>23 DEF JobFails, Raise, RolledBack
<1>24. ASSUME NEW c \in Consumers, RecordFailure(c)
      PROVE  CompletionInv'
  BY <1>24 DEF RecordFailure, TakesFailure, SafeRetry, NoEffects, FailuresLeft, JobEnds,
     JobRetries, Return
<1>25. ASSUME NEW c \in Consumers, FailureNotRecorded(c)
      PROVE  CompletionInv'
  BY <1>25 DEF FailureNotRecorded, JobEnds, JobRetries, Return
<1>26. CASE Crash
  BY <1>26 DEF Crash
<1>27. CASE MaintainDeliveryQueues
  BY <1>27 DEF MaintainDeliveryQueues, Maintain, Stale, Forgettable
<1>28. CASE UNCHANGED vars
  BY <1>28 DEF vars
<1>29. QED
  BY <1>1, <1>2, <1>3, <1>4, <1>5, <1>6, <1>7, <1>8, <1>9, <1>10, <1>11, <1>12, <1>13,
     <1>14, <1>15, <1>16, <1>17, <1>18, <1>19, <1>20, <1>21, <1>22, <1>23, <1>24, <1>25,
     <1>26, <1>27, <1>28
     DEF Next, LoopStep, ConsumerStep

-----------------------------------------------------------------------------
(* Theorems.                                                               *)

\* Every reachable state is well typed, the failure counter included: the
\* retry limit of protect_dispatch_replay is never exceeded.
THEOREM SpecTypeOK == Spec => []TypeOK
<1>1. Init => TypeInv
  BY InitInv DEF StartInv
<1>2. TypeInv /\ [Next]_vars => TypeInv'
  BY TypeInvStep
<1>3. TypeInv => TypeOK
  BY DEF TypeInv
<1>4. QED
  BY <1>1, <1>2, <1>3, PTL DEF Spec

LEMMA SpecMessageInv == Spec => [](TypeInv /\ MessageInv)
<1>1. Init => TypeInv /\ MessageInv
  BY InitInv DEF StartInv
<1>2. TypeInv /\ MessageInv /\ [Next]_vars => (TypeInv /\ MessageInv)'
  BY TypeInvStep, MessageInvStep
<1>3. QED
  BY <1>1, <1>2, PTL DEF Spec

\* The funnel runs to its end at most once for an input or a start: lost
\* acknowledgements, killed workers, deferrals, executions past the fence and
\* released reviews included, however long a job lives.
THEOREM SpecCompletedAtMostOnce == Spec => []CompletedAtMostOnce
<1>1. TypeInv /\ MessageInv => CompletedAtMostOnce
  BY DEF TypeInv, TypeOK, MessageInv, CompletedAtMostOnce, Dispatches
<1>2. QED
  BY <1>1, SpecMessageInv, PTL

LEMMA SpecStartInv ==
  ASSUME StartsOnly
  PROVE  Spec => []StartInv
<1>1. Init => StartInv
  BY InitInv
<1>2. StartInv /\ [Next]_vars => StartInv'
  BY StartsOnly, TypeInvStep, MessageInvStep, FenceInvStep, CleanInvStep, CompletionInvStep
     DEF StartInv
<1>3. QED
  BY <1>1, <1>2, PTL DEF Spec

\* The claim of a start's row is exclusive, however often Redis hands its job
\* out, and so is the funnel's run for its message, past the fence as well.
THEOREM SpecOneConsumerPerDispatch ==
  ASSUME StartsOnly
  PROVE  Spec => []OneConsumerPerDispatch
<1>1. StartInv => OneConsumerPerDispatch
  BY DEF StartInv, MessageInv, FenceInv, OneConsumerPerDispatch
<1>2. QED
  BY <1>1, SpecStartInv, PTL

\* protect_dispatch_replay returns a start dispatch to the queue only when the
\* failed execution left no known effect, or another one has bypassed the fence.
THEOREM SpecAutomaticRetryIsClean ==
  ASSUME StartsOnly
  PROVE  Spec => AutomaticRetryIsClean
<1>1. StartInv' => \A d \in Inputs :
        status[d] = "running" /\ status'[d] = "pending" => bypassed'[d] \/ ~dirty'[d]
  BY DEF StartInv, CleanInv
<1>2. QED
  BY <1>1, SpecStartInv, PTL DEF Spec, AutomaticRetryIsClean

\* No step but the administrator's retry takes a row out of review.
LEMMA ReviewStep ==
  ASSUME TypeInv, [Next]_vars
  PROVE  LeavesReviewByRetry
<1> USE KindAssumption, FailuresAssumption, BoundAssumption, NoneAssumption
<1> USE DEF TypeInv, TypeOK, Dispatches, Statuses, Versions, Busy, Executing, rowVars,
           loopVars, consumerVars, historyVars
<1> USE DEF LeavesReviewByRetry
<1>1. CASE ChatChanges
  BY <1>1 DEF ChatChanges
<1>2. ASSUME NEW i \in Dispatches, SaveRuntimeDispatch(i)
      PROVE  LeavesReviewByRetry
  BY <1>2 DEF SaveRuntimeDispatch
<1>3. ASSUME NEW i \in Inputs, RedisLosesJob(i)
      PROVE  LeavesReviewByRetry
  BY <1>3 DEF RedisLosesJob
<1>4. ASSUME NEW i \in Inputs, JobReappears(i)
      PROVE  LeavesReviewByRetry
  BY <1>4 DEF JobReappears
<1>5. ASSUME NEW i \in Inputs, RetryReview(i)
      PROVE  LeavesReviewByRetry
  BY <1>5 DEF RetryReview, CanRetry
<1>6. ASSUME NEW l \in Loops, DispatchClaim(l)
      PROVE  LeavesReviewByRetry
  BY <1>6 DEF DispatchClaim
<1>7. ASSUME NEW l \in Loops, DispatchAccepted(l)
      PROVE  LeavesReviewByRetry
  BY <1>7 DEF DispatchAccepted, Enqueue
<1>8. ASSUME NEW l \in Loops, DispatchFailed(l)
      PROVE  LeavesReviewByRetry
  BY <1>8 DEF DispatchFailed, Enqueue
<1>9. ASSUME NEW l \in Loops, DispatchRecord(l)
      PROVE  LeavesReviewByRetry
  BY <1>9 DEF DispatchRecord, ClosedByRedis
<1>10. ASSUME NEW l \in Loops, DispatchAbandoned(l)
      PROVE  LeavesReviewByRetry
  BY <1>10 DEF DispatchAbandoned
<1>11. ASSUME NEW c \in Consumers, NEW i \in Inputs, StartJob(c, i)
      PROVE  LeavesReviewByRetry
  BY <1>11 DEF StartJob, Runnable
<1>12. ASSUME NEW c \in Consumers, NEW i \in Inputs, ClaimMissed(c, i)
      PROVE  LeavesReviewByRetry
  BY <1>12 DEF ClaimMissed, Runnable
<1>13. ASSUME NEW c \in Consumers, RefuseJob(c)
      PROVE  LeavesReviewByRetry
  BY <1>13 DEF RefuseJob, Refused, JobEnds, Return
<1>14. ASSUME NEW c \in Consumers, StartUnclaimed(c)
      PROVE  LeavesReviewByRetry
  BY <1>14 DEF StartUnclaimed, Refused
<1>15. ASSUME NEW c \in Consumers, LookupFails(c)
      PROVE  LeavesReviewByRetry
  BY <1>15 DEF LookupFails, JobEnds, JobRetries, Return
<1>16. ASSUME NEW c \in Consumers, ClaimMessage(c)
      PROVE  LeavesReviewByRetry
  BY <1>16 DEF ClaimMessage, Unprocessed
<1>17. ASSUME NEW c \in Consumers, HandlerCommits(c)
      PROVE  LeavesReviewByRetry
  BY <1>17 DEF HandlerCommits, RuntimeWrites
<1>18. ASSUME NEW c \in Consumers, HandlerSends(c)
      PROVE  LeavesReviewByRetry
  BY <1>18 DEF HandlerSends
<1>19. ASSUME NEW c \in Consumers, HandlerCommitUnacknowledged(c)
      PROVE  LeavesReviewByRetry
  BY <1>19 DEF HandlerCommitUnacknowledged, Raise, RuntimeWrites
<1>20. ASSUME NEW c \in Consumers, FinishJob(c)
      PROVE  LeavesReviewByRetry
  <2>1. CASE Acknowledge(c)
    BY <1>20, <2>1 DEF FinishJob, Acknowledge, CloseRow, JobEnds, Return, RuntimeWrites
  <2>2. CASE AcknowledgeProcessed(c)
    BY <1>20, <2>2 DEF FinishJob, AcknowledgeProcessed, CloseRow, JobEnds, Return, RuntimeWrites
  <2>3. QED
    BY <1>20, <2>1, <2>2 DEF FinishJob
<1>21. ASSUME NEW c \in Consumers, DeferJob(c)
      PROVE  LeavesReviewByRetry
  BY <1>21 DEF DeferJob, Defer, JobEnds, JobRetries, Return, RuntimeWrites
<1>22. ASSUME NEW c \in Consumers, FinishUnacknowledged(c)
      PROVE  LeavesReviewByRetry
  <2>1. CASE Acknowledge(c)
    BY <1>22, <2>1 DEF FinishUnacknowledged, Acknowledge, CloseRow, Raise, RuntimeWrites
  <2>2. CASE AcknowledgeProcessed(c)
    BY <1>22, <2>2 DEF FinishUnacknowledged, AcknowledgeProcessed, CloseRow, Raise, RuntimeWrites
  <2>3. CASE Defer(c)
    BY <1>22, <2>3 DEF FinishUnacknowledged, Defer, CloseRow, Raise, RuntimeWrites
  <2>4. QED
    BY <1>22, <2>1, <2>2, <2>3 DEF FinishUnacknowledged
<1>23. ASSUME NEW c \in Consumers, JobFails(c)
      PROVE  LeavesReviewByRetry
  BY <1>23 DEF JobFails, Raise, RolledBack
<1>24. ASSUME NEW c \in Consumers, RecordFailure(c)
      PROVE  LeavesReviewByRetry
  BY <1>24 DEF RecordFailure, TakesFailure, SafeRetry, NoEffects, FailuresLeft, JobEnds,
     JobRetries, Return
<1>25. ASSUME NEW c \in Consumers, FailureNotRecorded(c)
      PROVE  LeavesReviewByRetry
  BY <1>25 DEF FailureNotRecorded, JobEnds, JobRetries, Return
<1>26. CASE Crash
  BY <1>26 DEF Crash
<1>27. CASE MaintainDeliveryQueues
  BY <1>27 DEF MaintainDeliveryQueues, Maintain, Stale, Forgettable
<1>28. CASE UNCHANGED vars
  BY <1>28 DEF vars
<1>29. QED
  BY <1>1, <1>2, <1>3, <1>4, <1>5, <1>6, <1>7, <1>8, <1>9, <1>10, <1>11, <1>12, <1>13,
     <1>14, <1>15, <1>16, <1>17, <1>18, <1>19, <1>20, <1>21, <1>22, <1>23, <1>24, <1>25,
     <1>26, <1>27, <1>28
     DEF Next, LoopStep, ConsumerStep

\* Only RuntimeReviewService.retry moves an input or start out of review,
\* whatever its earlier consumers still do.
THEOREM SpecReviewLeftByAdminOnly == Spec => ReviewLeftByAdminOnly
<1>1. Init => TypeInv
  BY InitInv DEF StartInv
<1>2. TypeInv /\ [Next]_vars => TypeInv'
  BY TypeInvStep
<1>3. TypeInv /\ [Next]_vars => LeavesReviewByRetry
  BY ReviewStep
<1>4. QED
  BY <1>1, <1>2, <1>3, PTL DEF Spec, ReviewLeftByAdminOnly

-----------------------------------------------------------------------------
(* The outbox implements AtMostOnceWork.                                   *)

\* What one step may do to a dispatch.
Move(d) ==
  \/ /\ status'[d] = status[d] /\ completed'[d] = completed[d]
     /\ Adrift(d)' <=> Adrift(d)
  \/ /\ completed'[d] = completed[d] /\ ~Adrift(d) /\ ~Adrift(d)'
     /\ \/ status[d] = "none" /\ status'[d] = "pending"
        \/ status[d] = "pending" /\ status'[d] = "running"
        \/ status[d] = "running" /\ status'[d] \in {"pending", "review"}
        \/ status[d] = "pending" /\ status'[d] = "done" /\ d \in Hints
        \/ status[d] = "review" /\ status'[d] = "pending" /\ d \in Inputs
        \/ status[d] = "done" /\ status'[d] = "purged"
  \/ /\ status[d] = "running" /\ status'[d] = "done"
     /\ completed[d] = 0 /\ completed'[d] = 1 /\ ~Adrift(d) /\ ~Adrift(d)'
  \/ d \in Inputs /\ Adrift(d)' /\ completed'[d] = completed[d]
  \/ Adrift(d) /\ Adrift(d)' /\ completed[d] = 0 /\ completed'[d] = 1

Moves == \A d \in Dispatches : Move(d)

\* Every step moves every row along one of the lines of Move.
LEMMA MoveStep ==
  ASSUME StartInv, StartsOnly, [Next]_vars
  PROVE  Moves
<1> USE KindAssumption, FailuresAssumption, BoundAssumption, NoneAssumption
<1> USE DEF TypeInv, TypeOK, Dispatches, Statuses, Versions, Busy, Executing, rowVars,
           loopVars, consumerVars, historyVars
<1> USE DEF StartInv, StartsOnly, MessageInv, FenceInv, CleanInv, CompletionInv, Adrift, Unaccounted, Moves, Move
<1>1. CASE ChatChanges
  BY <1>1 DEF ChatChanges
<1>2. ASSUME NEW i \in Dispatches, SaveRuntimeDispatch(i)
      PROVE  Moves
  BY <1>2 DEF SaveRuntimeDispatch
<1>3. ASSUME NEW i \in Inputs, RedisLosesJob(i)
      PROVE  Moves
  BY <1>3 DEF RedisLosesJob
<1>4. ASSUME NEW i \in Inputs, JobReappears(i)
      PROVE  Moves
  BY <1>4 DEF JobReappears
<1>5. ASSUME NEW i \in Inputs, RetryReview(i)
      PROVE  Moves
  BY <1>5 DEF RetryReview, CanRetry
<1>6. ASSUME NEW l \in Loops, DispatchClaim(l)
      PROVE  Moves
  BY <1>6 DEF DispatchClaim
<1>7. ASSUME NEW l \in Loops, DispatchAccepted(l)
      PROVE  Moves
  BY <1>7 DEF DispatchAccepted, Enqueue
<1>8. ASSUME NEW l \in Loops, DispatchFailed(l)
      PROVE  Moves
  BY <1>8 DEF DispatchFailed, Enqueue
<1>9. ASSUME NEW l \in Loops, DispatchRecord(l)
      PROVE  Moves
  BY <1>9 DEF DispatchRecord, ClosedByRedis
<1>10. ASSUME NEW l \in Loops, DispatchAbandoned(l)
      PROVE  Moves
  BY <1>10 DEF DispatchAbandoned
<1>11. ASSUME NEW c \in Consumers, NEW i \in Inputs, StartJob(c, i)
      PROVE  Moves
  BY <1>11 DEF StartJob, Runnable
<1>12. ASSUME NEW c \in Consumers, NEW i \in Inputs, ClaimMissed(c, i)
      PROVE  Moves
  BY <1>12 DEF ClaimMissed, Runnable
<1>13. ASSUME NEW c \in Consumers, RefuseJob(c)
      PROVE  Moves
  BY <1>13 DEF RefuseJob, Refused, JobEnds, Return
<1>14. ASSUME NEW c \in Consumers, StartUnclaimed(c)
      PROVE  Moves
  BY <1>14 DEF StartUnclaimed, Refused
<1>15. ASSUME NEW c \in Consumers, LookupFails(c)
      PROVE  Moves
  BY <1>15 DEF LookupFails, JobEnds, JobRetries, Return
<1>16. ASSUME NEW c \in Consumers, ClaimMessage(c)
      PROVE  Moves
  BY <1>16 DEF ClaimMessage, Unprocessed
<1>17. ASSUME NEW c \in Consumers, HandlerCommits(c)
      PROVE  Moves
  BY <1>17 DEF HandlerCommits, RuntimeWrites
<1>18. ASSUME NEW c \in Consumers, HandlerSends(c)
      PROVE  Moves
  BY <1>18 DEF HandlerSends
<1>19. ASSUME NEW c \in Consumers, HandlerCommitUnacknowledged(c)
      PROVE  Moves
  BY <1>19 DEF HandlerCommitUnacknowledged, Raise, RuntimeWrites
<1>20. ASSUME NEW c \in Consumers, FinishJob(c)
      PROVE  Moves
  <2>1. CASE Acknowledge(c)
    BY <1>20, <2>1 DEF FinishJob, Acknowledge, CloseRow, JobEnds, Return, RuntimeWrites
  <2>2. CASE AcknowledgeProcessed(c)
    BY <1>20, <2>2 DEF FinishJob, AcknowledgeProcessed, CloseRow, JobEnds, Return, RuntimeWrites
  <2>3. QED
    BY <1>20, <2>1, <2>2 DEF FinishJob
<1>21. ASSUME NEW c \in Consumers, DeferJob(c)
      PROVE  Moves
  BY <1>21 DEF DeferJob, Defer, JobEnds, JobRetries, Return, RuntimeWrites
<1>22. ASSUME NEW c \in Consumers, FinishUnacknowledged(c)
      PROVE  Moves
  <2>1. CASE Acknowledge(c)
    BY <1>22, <2>1 DEF FinishUnacknowledged, Acknowledge, CloseRow, Raise, RuntimeWrites
  <2>2. CASE AcknowledgeProcessed(c)
    BY <1>22, <2>2 DEF FinishUnacknowledged, AcknowledgeProcessed, CloseRow, Raise, RuntimeWrites
  <2>3. CASE Defer(c)
    BY <1>22, <2>3 DEF FinishUnacknowledged, Defer, CloseRow, Raise, RuntimeWrites
  <2>4. QED
    BY <1>22, <2>1, <2>2, <2>3 DEF FinishUnacknowledged
<1>23. ASSUME NEW c \in Consumers, JobFails(c)
      PROVE  Moves
  BY <1>23 DEF JobFails, Raise, RolledBack
<1>24. ASSUME NEW c \in Consumers, RecordFailure(c)
      PROVE  Moves
  BY <1>24 DEF RecordFailure, TakesFailure, SafeRetry, NoEffects, FailuresLeft, JobEnds,
     JobRetries, Return
<1>25. ASSUME NEW c \in Consumers, FailureNotRecorded(c)
      PROVE  Moves
  BY <1>25 DEF FailureNotRecorded, JobEnds, JobRetries, Return
<1>26. CASE Crash
  BY <1>26 DEF Crash
<1>27. CASE MaintainDeliveryQueues
  BY <1>27 DEF MaintainDeliveryQueues, Maintain, Stale, Forgettable
<1>28. CASE UNCHANGED vars
  BY <1>28 DEF vars
<1>29. QED
  BY <1>1, <1>2, <1>3, <1>4, <1>5, <1>6, <1>7, <1>8, <1>9, <1>10, <1>11, <1>12, <1>13,
     <1>14, <1>15, <1>16, <1>17, <1>18, <1>19, <1>20, <1>21, <1>22, <1>23, <1>24, <1>25,
     <1>26, <1>27, <1>28
     DEF Next, LoopStep, ConsumerStep

\* A step made of such moves is a step of AtMostOnceWork.
LEMMA MovesImplement ==
  ASSUME TypeInv, TypeInv', MessageInv, MessageInv', CompletionInv, CompletionInv', Moves
  PROVE  Work!Next
<1> DEFINE phase == [d \in Dispatches |-> Phase(d)]
<1>1. phase' \in [Dispatches -> Work!Phases] /\ completed' \in [Dispatches -> 0..1]
  BY DEF TypeInv, TypeOK, Statuses, MessageInv, Phase, Work!Phases, Dispatches
<1>2. ASSUME NEW d \in Dispatches
      PROVE  \/ Work!Submit(d) \/ Work!Complete(d) \/ Work!CompleteParked(d) \/ Work!Drop(d)
             \/ Work!Park(d) \/ Work!Reopen(d) \/ Work!Forget(d) \/ Work!Rest(d)
             \/ Work!Lose(d) \/ Work!CompleteAdrift(d)
  <2>1. Move(d)
    BY DEF Moves
  <2>2. status[d] \in Statuses /\ status'[d] \in Statuses
    BY DEF TypeInv, TypeOK
  <2>3. status[d] = "review" => completed[d] = 0 \/ Adrift(d)
    BY DEF CompletionInv, MessageInv, Dispatches
  <2>4. /\ phase[d] = Phase(d) /\ phase'[d] = Phase(d)'
        /\ Adrift(d) => Phase(d) = "adrift"
        /\ Adrift(d)' => Phase(d)' = "adrift"
    <3>1. phase[d] = Phase(d) /\ phase'[d] = Phase(d)'
      OBVIOUS
    <3>2. Adrift(d) => Phase(d) = "adrift"
      BY DEF Phase, Adrift
    <3>3. Adrift(d)' => Phase(d)' = "adrift"
      BY DEF Phase, Adrift
    <3>4. QED
      BY <3>1, <3>2, <3>3
  <2>5. CASE status'[d] = status[d] /\ completed'[d] = completed[d] /\ (Adrift(d)' <=> Adrift(d))
    <3>1. CASE Adrift(d)
      BY <2>4, <2>5, <3>1 DEF Work!Rest
    <3>2. CASE ~Adrift(d)
      <4>1. ~(bypassed[d] \/ Unaccounted(d)) /\ ~(bypassed'[d] \/ Unaccounted(d)')
        BY <2>5, <3>2 DEF Adrift
      <4>2. status'[d] = status[d]
        BY <2>5
      <4>3. Phase(d)' = Phase(d)
        BY <4>1, <4>2 DEF Phase
      <4>4. QED
        BY <2>4, <2>5, <4>3 DEF Work!Rest
    <3>3. QED
      BY <3>1, <3>2
  <2>6. CASE d \in Inputs /\ Adrift(d)' /\ completed'[d] = completed[d]
    BY <2>4, <2>6 DEF Work!Lose, Work!Rest
  <2>7. CASE Adrift(d) /\ Adrift(d)' /\ completed[d] = 0 /\ completed'[d] = 1
    BY <2>4, <2>7 DEF Work!CompleteAdrift
  <2>8. CASE ~Adrift(d) /\ ~Adrift(d)'
    BY <2>1, <2>2, <2>3, <2>4, <2>8 DEF Move, Adrift, Statuses, Phase, Work!Submit,
       Work!Complete, Work!Drop, Work!Park, Work!Reopen, Work!Forget, Work!Rest
  <2>9. QED
    BY <2>1, <2>5, <2>6, <2>7, <2>8 DEF Move
<1>3. QED
  BY <1>1, <1>2 DEF Work!Next

\* A start's funnel runs to its end at most once, and, unless the outbox has lost
\* track of it, its row is closed only by that run and reopened only before it:
\* the outbox implements AtMostOnceWork.
THEOREM SpecImplementsAtMostOnceWork ==
  ASSUME StartsOnly
  PROVE  Spec => ImplementsAtMostOnceWork
<1>1. Init => Work!Init
  BY DEF Init, Work!Init, Phase, Unaccounted
<1>2. StartInv /\ StartInv' /\ [Next]_vars => Work!Next
  BY StartsOnly, MoveStep, MovesImplement DEF StartInv
<1>3. QED
  BY <1>1, <1>2, SpecStartInv, PTL DEF Spec, ImplementsAtMostOnceWork, Work!Spec
=============================================================================
