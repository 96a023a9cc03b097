---------------------- MODULE ScheduledMessages_proofs -----------------------
(***************************************************************************)
(* Proofs about ScheduledMessages, for any messages, workers, operators    *)
(* and faults.                                                             *)
(***************************************************************************)
EXTENDS ScheduledMessages, TLAPS

USE NoneAssumption, BoundAssumption

\* What a request is about to do is still to be done, and nobody else is about
\* to do it.
RequestInv ==
  /\ \A o \in Operators, m \in Messages :
       /\ Asked(o, "writing", m) => status[m] = "none" /\ m \in stored
       /\ Asked(o, "cancelling", m) => status[m] = "pending"
       /\ Asked(o, "cancelled", m) => status[m] = "cancelled"
  /\ \A o, p \in Operators, m \in Messages :
       /\ Asked(o, "writing", m) /\ Asked(p, "writing", m) => o = p
       /\ Asked(o, "cancelling", m) /\ Asked(p, "cancelling", m) => o = p

\* A message at work was claimed, by one worker, although two workers may
\* believe that they hold the lock.
WorkInv ==
  /\ \A w \in Workers, m \in Messages : cur[w] = m =>
       /\ status[m] \in {"running", "failed", "sent"}
       /\ pc[w] \in {"claimed", "sending"} => delivered[m] = 0
  /\ \A w, x \in Workers : cur[w] # None /\ cur[w] = cur[x] => w = x

DeliveryInv ==
  \A m \in Messages :
    /\ delivered[m] <= 1
    /\ status[m] \in {"none", "pending", "cancelled"} => delivered[m] = 0

\* The inductive invariant.
IInv == TypeOK /\ RequestInv /\ WorkInv /\ DeliveryInv /\ FilesWhileNeeded

LEMMA InitIInv == Init => IInv
<1> SUFFICES ASSUME Init PROVE IInv
  OBVIOUS
<1>1. TypeOK
  BY DEF Init, TypeOK, Statuses, Points
<1>2. RequestInv
  BY DEF Init, RequestInv, Asked, Idle
<1>3. WorkInv /\ DeliveryInv /\ FilesWhileNeeded
  BY DEF Init, WorkInv, DeliveryInv, FilesWhileNeeded
<1>4. QED
  BY <1>1, <1>2, <1>3 DEF IInv

-----------------------------------------------------------------------------
(* What the helpers do to the requests.                                    *)

Requests == [phase : Phases, message : Messages] \cup {Idle}

LEMMA AskFacts ==
  ASSUME request \in [Operators -> Requests], NEW o \in Operators, NEW phase \in Phases,
         NEW m \in Messages, Ask(o, phase, m)
  PROVE  /\ request' \in [Operators -> Requests]
         /\ \A p \in Operators, k \in Messages, f \in Phases :
              Asked(p, f, k)' <=> IF p = o THEN f = phase /\ k = m ELSE Asked(p, f, k)
<1>1. request' \in [Operators -> Requests]
  BY DEF Ask, Requests
<1>2. ASSUME NEW p \in Operators, NEW k \in Messages, NEW f \in Phases
      PROVE  Asked(p, f, k)' <=> IF p = o THEN f = phase /\ k = m ELSE Asked(p, f, k)
  <2>1. [phase |-> phase, message |-> m] = [phase |-> f, message |-> k] <=> f = phase /\ k = m
    OBVIOUS
  <2>2. request'[p] = IF p = o THEN [phase |-> phase, message |-> m] ELSE request[p]
    BY DEF Ask
  <2>3. QED
    BY <2>1, <2>2 DEF Asked
<1>3. QED
  BY <1>1, <1>2

LEMMA AnswerFacts ==
  ASSUME request \in [Operators -> Requests], NEW o \in Operators, Answer(o)
  PROVE  /\ request' \in [Operators -> Requests]
         /\ \A p \in Operators, k \in Messages, f \in Phases :
              Asked(p, f, k)' <=> p # o /\ Asked(p, f, k)
<1>1. request' \in [Operators -> Requests]
  BY DEF Answer, Requests
<1>2. ASSUME NEW p \in Operators, NEW k \in Messages, NEW f \in Phases
      PROVE  Asked(p, f, k)' <=> p # o /\ Asked(p, f, k)
  <2>1. Idle # [phase |-> f, message |-> k]
    BY DEF Idle, Phases
  <2>2. request'[p] = IF p = o THEN Idle ELSE request[p]
    BY DEF Answer
  <2>3. QED
    BY <2>1, <2>2 DEF Asked
<1>3. QED
  BY <1>1, <1>2

\* Who has a request open has asked for something about that message.
LEMMA IdleFacts ==
  ASSUME NEW p \in Operators, NEW m \in Messages, NEW f \in Phases, request[p].message # m
  PROVE  ~Asked(p, f, m)
BY DEF Asked

\* What the requests are about to do does not change when they do not and the
\* messages they are about do not.
LEMMA RequestsStand ==
  ASSUME RequestInv, UNCHANGED request,
         \A m \in Messages :
           /\ status[m] \in {"none", "pending", "cancelled"} =>
                status'[m] = status[m] \/ (status[m] = "pending" /\ RowFree(m))
           /\ status[m] = "none" /\ m \in stored => m \in stored'
  PROVE  RequestInv'
BY DEF RequestInv, Asked, RowFree

-----------------------------------------------------------------------------
(* Operators' requests preserve the invariant.                             *)

LEMMA RequestStep ==
  ASSUME IInv, NEW o \in Operators, NEW m \in Messages,
         \/ WriteFiles(o, m) \/ ScheduleMessage(o, m) \/ ScheduleFails(o, m)
         \/ CancelMessage(o, m) \/ CancelCommits(o, m) \/ CancelFails(o, m)
         \/ CancelRemovesFiles(o, m)
  PROVE  IInv'
<1> USE DEF IInv, Phases
<1>0. request \in [Operators -> Requests]
  BY DEF TypeOK, Requests
<1>1. CASE WriteFiles(o, m)
  <2> USE <1>1 DEF WriteFiles
  <2>1. /\ request' \in [Operators -> Requests]
        /\ \A p \in Operators, k \in Messages, f \in Phases :
             Asked(p, f, k)' <=> IF p = o THEN f = "writing" /\ k = m ELSE Asked(p, f, k)
    BY <1>0, AskFacts
  <2>2. \A p \in Operators, f \in Phases : ~Asked(p, f, m)
    BY IdleFacts
  <2>3. TypeOK'
    BY <2>1 DEF TypeOK, Requests, workerVars
  <2>4. RequestInv'
    BY <2>1, <2>2 DEF RequestInv, TypeOK
  <2>5. WorkInv' /\ DeliveryInv' /\ FilesWhileNeeded'
    BY DEF WorkInv, DeliveryInv, FilesWhileNeeded, workerVars
  <2>6. QED
    BY <2>3, <2>4, <2>5
<1>2. CASE ScheduleMessage(o, m)
  <2> USE <1>2 DEF ScheduleMessage
  <2>1. /\ request' \in [Operators -> Requests]
        /\ \A p \in Operators, k \in Messages, f \in Phases :
             Asked(p, f, k)' <=> p # o /\ Asked(p, f, k)
    BY <1>0, AnswerFacts
  <2>2. status[m] = "none" /\ m \in stored
    BY DEF RequestInv
  <2>3. TypeOK'
    BY <2>1 DEF TypeOK, Requests, workerVars, Statuses
  <2>4. RequestInv'
    BY <2>1, <2>2 DEF RequestInv, TypeOK
  <2>5. WorkInv'
    BY <2>2 DEF WorkInv, TypeOK, workerVars
  <2>6. DeliveryInv' /\ FilesWhileNeeded'
    BY <2>2 DEF DeliveryInv, FilesWhileNeeded, TypeOK, workerVars
  <2>7. QED
    BY <2>3, <2>4, <2>5, <2>6
<1>3. CASE ScheduleFails(o, m)
  <2> USE <1>3 DEF ScheduleFails
  <2>1. /\ request' \in [Operators -> Requests]
        /\ \A p \in Operators, k \in Messages, f \in Phases :
             Asked(p, f, k)' <=> p # o /\ Asked(p, f, k)
    BY <1>0, AnswerFacts
  <2>2. status[m] = "none"
    BY DEF RequestInv
  <2>3. TypeOK'
    BY <2>1 DEF TypeOK, Requests, workerVars
  <2>4. RequestInv'
    BY <2>1 DEF RequestInv
  <2>5. WorkInv' /\ DeliveryInv' /\ FilesWhileNeeded'
    BY <2>2 DEF WorkInv, DeliveryInv, FilesWhileNeeded, workerVars
  <2>6. QED
    BY <2>3, <2>4, <2>5
<1>4. CASE CancelMessage(o, m)
  <2> USE <1>4 DEF CancelMessage
  <2>1. /\ request' \in [Operators -> Requests]
        /\ \A p \in Operators, k \in Messages, f \in Phases :
             Asked(p, f, k)' <=> IF p = o THEN f = "cancelling" /\ k = m ELSE Asked(p, f, k)
    BY <1>0, AskFacts
  <2>2. TypeOK'
    BY <2>1 DEF TypeOK, Requests, workerVars
  <2>3. RequestInv'
    BY <2>1 DEF RequestInv, Cancellable, RowFree
  <2>4. WorkInv' /\ DeliveryInv' /\ FilesWhileNeeded'
    BY DEF WorkInv, DeliveryInv, FilesWhileNeeded, workerVars
  <2>5. QED
    BY <2>2, <2>3, <2>4
<1>5. CASE CancelCommits(o, m)
  <2> USE <1>5 DEF CancelCommits
  <2>1. /\ request' \in [Operators -> Requests]
        /\ \A p \in Operators, k \in Messages, f \in Phases :
             Asked(p, f, k)' <=> IF p = o THEN f = "cancelled" /\ k = m ELSE Asked(p, f, k)
    BY <1>0, AskFacts
  <2>2. status[m] = "pending"
    BY DEF RequestInv
  <2>3. TypeOK'
    BY <2>1 DEF TypeOK, Requests, workerVars, Statuses
  <2>4. RequestInv'
    BY <2>1, <2>2 DEF RequestInv, TypeOK
  <2>5. WorkInv' /\ DeliveryInv' /\ FilesWhileNeeded'
    BY <2>2 DEF WorkInv, DeliveryInv, FilesWhileNeeded, TypeOK, workerVars
  <2>6. QED
    BY <2>3, <2>4, <2>5
<1>6. CASE CancelFails(o, m)
  <2> USE <1>6 DEF CancelFails
  <2>1. /\ request' \in [Operators -> Requests]
        /\ \A p \in Operators, k \in Messages, f \in Phases :
             Asked(p, f, k)' <=> p # o /\ Asked(p, f, k)
    BY <1>0, AnswerFacts
  <2>2. TypeOK'
    BY <2>1 DEF TypeOK, Requests, workerVars
  <2>3. RequestInv'
    BY <2>1 DEF RequestInv
  <2>4. WorkInv' /\ DeliveryInv' /\ FilesWhileNeeded'
    BY DEF WorkInv, DeliveryInv, FilesWhileNeeded, workerVars
  <2>5. QED
    BY <2>2, <2>3, <2>4
<1>7. CASE CancelRemovesFiles(o, m)
  <2> USE <1>7 DEF CancelRemovesFiles, MayRemove
  <2>1. /\ request' \in [Operators -> Requests]
        /\ \A p \in Operators, k \in Messages, f \in Phases :
             Asked(p, f, k)' <=> p # o /\ Asked(p, f, k)
    BY <1>0, AnswerFacts
  <2>2. status[m] = "cancelled"
    BY DEF RequestInv
  <2>3. TypeOK'
    BY <2>1 DEF TypeOK, Requests, workerVars
  <2>4. RequestInv'
    BY <2>1, <2>2 DEF RequestInv
  <2>5. WorkInv' /\ DeliveryInv' /\ FilesWhileNeeded'
    BY <2>2 DEF WorkInv, DeliveryInv, FilesWhileNeeded, workerVars
  <2>6. QED
    BY <2>3, <2>4, <2>5
<1>8. QED
  BY <1>1, <1>2, <1>3, <1>4, <1>5, <1>6, <1>7

-----------------------------------------------------------------------------
(* The workers preserve it.                                                *)

\* A worker that leaves its message alone, or has none.
LEMMA WorkerMoves ==
  ASSUME IInv, NEW w \in Workers,
         UNCHANGED <<status, stored, delivered, request>>,
         TypeOK', \A x \in Workers \ {w} : cur'[x] = cur[x] /\ pc'[x] = pc[x],
         \/ cur'[w] = None
         \/ cur'[w] = cur[w] /\ (pc'[w] = "claimed" => pc[w] = "claimed")
                             /\ (pc'[w] = "sending" => pc[w] \in {"claimed", "sending"})
  PROVE  IInv'
<1>1. RequestInv'
  BY RequestsStand DEF IInv
<1>2. WorkInv'
  BY DEF IInv, WorkInv, TypeOK
<1>3. DeliveryInv' /\ FilesWhileNeeded'
  BY DEF IInv, DeliveryInv, FilesWhileNeeded, TypeOK
<1>4. QED
  BY <1>1, <1>2, <1>3 DEF IInv

LEMMA WorkerSteps ==
  ASSUME IInv, NEW w \in Workers, WorkerStep(w) \/ RunAborts(w) \/ Dies(w)
  PROVE  IInv'
<1> USE DEF Goes
<1>0. TypeOK /\ RequestInv /\ WorkInv /\ DeliveryInv /\ FilesWhileNeeded
  BY DEF IInv
<1>1. CASE TryLock(w)
  <2>1. TypeOK'
    BY <1>0, <1>1 DEF TryLock, TypeOK, Points
  <2>2. QED
    BY <1>0, <1>1, <2>1, WorkerMoves DEF TryLock, TypeOK
<1>2. CASE Recover(w)
  <2> USE <1>2 DEF Recover
  <2>1. TypeOK'
    BY <1>0 DEF TypeOK, Points, Statuses, Interrupted
  <2>2. RequestInv'
    BY <1>0, RequestsStand DEF Interrupted
  <2>3. WorkInv'
    BY <1>0 DEF WorkInv, TypeOK, Interrupted
  <2>4. DeliveryInv' /\ FilesWhileNeeded'
    BY <1>0 DEF DeliveryInv, FilesWhileNeeded, TypeOK, Interrupted
  <2>5. QED
    BY <2>1, <2>2, <2>3, <2>4 DEF IInv
<1>3. CASE ListDue(w)
  <2>1. TypeOK'
    BY <1>0, <1>3 DEF ListDue, TypeOK, Points
  <2>2. QED
    BY <1>0, <1>3, <2>1, WorkerMoves DEF ListDue, TypeOK
<1>4. CASE Prepare(w)
  <2>1. TypeOK'
    BY <1>0, <1>4 DEF Prepare, TypeOK, Points
  <2>2. QED
    BY <1>0, <1>4, <2>1, WorkerMoves DEF Prepare, TypeOK
<1>5. CASE Send(w)
  <2> USE <1>5 DEF Send
  <2>1. cur[w] \in Messages /\ delivered[cur[w]] = 0
    BY <1>0 DEF TypeOK, WorkInv
  <2>2. TypeOK'
    BY <1>0, <2>1 DEF TypeOK, Points, Deliver
  <2>3. RequestInv'
    BY <1>0, RequestsStand
  <2>4. \A m \in Messages :
          delivered'[m] = delivered[m] \/ (m = cur[w] /\ delivered'[m] = 1)
    BY <1>0, <2>1 DEF TypeOK, Deliver
  <2>5. WorkInv'
    BY <1>0, <2>1, <2>4 DEF WorkInv, TypeOK
  <2>6. DeliveryInv'
    BY <1>0, <2>1, <2>4 DEF DeliveryInv, WorkInv, TypeOK
  <2>7. FilesWhileNeeded'
    BY <1>0 DEF FilesWhileNeeded, TypeOK
  <2>8. QED
    BY <2>2, <2>3, <2>5, <2>6, <2>7 DEF IInv
<1>6. CASE MarkSent(w)
  <2> USE <1>6 DEF MarkSent
  <2>1. cur[w] \in Messages /\ status[cur[w]] \in {"running", "failed", "sent"}
    BY <1>0 DEF TypeOK, WorkInv
  <2>2. TypeOK'
    BY <1>0 DEF TypeOK, Points, Statuses
  <2>3. RequestInv'
    BY <1>0, <2>1, RequestsStand DEF TypeOK
  <2>4. WorkInv' /\ DeliveryInv' /\ FilesWhileNeeded'
    BY <1>0, <2>1 DEF WorkInv, DeliveryInv, FilesWhileNeeded, TypeOK
  <2>5. QED
    BY <2>2, <2>3, <2>4 DEF IInv
<1>7. CASE MarkFailed(w)
  <2> USE <1>7 DEF MarkFailed
  <2>1. cur[w] \in Messages /\ status[cur[w]] \in {"running", "failed", "sent"}
    BY <1>0 DEF TypeOK, WorkInv
  <2>2. TypeOK'
    BY <1>0 DEF TypeOK, Points, Statuses
  <2>3. RequestInv'
    BY <1>0, <2>1, RequestsStand DEF TypeOK
  <2>4. WorkInv' /\ DeliveryInv' /\ FilesWhileNeeded'
    BY <1>0, <2>1 DEF WorkInv, DeliveryInv, FilesWhileNeeded, TypeOK
  <2>5. QED
    BY <2>2, <2>3, <2>4 DEF IInv
<1>8. CASE RemoveFiles(w)
  <2> USE <1>8 DEF RemoveFiles
  <2>1. cur[w] \in Messages /\ status[cur[w]] \in {"running", "failed", "sent"}
    BY <1>0 DEF TypeOK, WorkInv
  <2>2. TypeOK'
    BY <1>0 DEF TypeOK, Points
  <2>3. RequestInv'
    BY <1>0, <2>1, RequestsStand
  <2>4. WorkInv' /\ DeliveryInv'
    BY <1>0 DEF WorkInv, DeliveryInv, TypeOK
  <2>5. \A x \in Workers : x # w => cur[x] # cur[w]
    BY <1>0, <2>1 DEF WorkInv
  <2>6. FilesWhileNeeded'
    BY <1>0, <2>1, <2>5 DEF FilesWhileNeeded, TypeOK
  <2>7. QED
    BY <2>2, <2>3, <2>4, <2>6 DEF IInv
<1>9. CASE RunEnds(w)
  <2>1. TypeOK'
    BY <1>0, <1>9 DEF RunEnds, TypeOK, Points
  <2>2. QED
    BY <1>0, <1>9, <2>1, WorkerMoves DEF RunEnds, TypeOK
<1>10. CASE Unlock(w)
  <2>1. TypeOK'
    BY <1>0, <1>10 DEF Unlock, TypeOK, Points
  <2>2. QED
    BY <1>0, <1>10, <2>1, WorkerMoves DEF Unlock, TypeOK
<1>11. CASE \E m \in Messages : MarkRunning(w, m)
  <2> PICK m \in Messages : MarkRunning(w, m)
    BY <1>11
  <2>1. CASE status[m] = "pending"
    <3>1. /\ status' = [status EXCEPT ![m] = "running"] /\ cur' = [cur EXCEPT ![w] = m]
          /\ pc' = [pc EXCEPT ![w] = "claimed"] /\ todo' = [todo EXCEPT ![w] = @ \ {m}]
          /\ RowFree(m) /\ UNCHANGED <<due, stored, lock, request, faults, delivered>>
      BY <2>1 DEF MarkRunning
    <3>2. TypeOK'
      BY <1>0, <3>1 DEF TypeOK, Points, Statuses
    <3>3. RequestInv'
      BY <1>0, <2>1, <3>1, RequestsStand DEF TypeOK
    <3>4. WorkInv'
      BY <1>0, <2>1, <3>1 DEF WorkInv, DeliveryInv, TypeOK
    <3>5. DeliveryInv' /\ FilesWhileNeeded'
      BY <1>0, <2>1, <3>1 DEF DeliveryInv, FilesWhileNeeded, TypeOK
    <3>6. QED
      BY <3>2, <3>3, <3>4, <3>5 DEF IInv
  <2>2. CASE status[m] # "pending"
    <3>1. TypeOK'
      BY <1>0, <2>2 DEF MarkRunning, TypeOK
    <3>2. QED
      BY <1>0, <2>2, <3>1, WorkerMoves DEF MarkRunning
  <2>3. QED
    BY <2>1, <2>2
<1>12. CASE RunAborts(w)
  <2>1. TypeOK'
    BY <1>0, <1>12 DEF RunAborts, TypeOK, Points
  <2>2. QED
    BY <1>0, <1>12, <2>1, WorkerMoves DEF RunAborts, TypeOK
<1>13. CASE Dies(w)
  <2> USE <1>13 DEF Dies
  <2>1. pc[w] = "sending" => cur[w] \in Messages /\ delivered[cur[w]] = 0
    BY <1>0 DEF TypeOK, WorkInv
  <2>2. TypeOK'
    BY <1>0, <2>1 DEF TypeOK, Points, Deliver
  <2>3. RequestInv'
    BY <1>0, RequestsStand
  <2>4. \A m \in Messages :
          delivered'[m] = delivered[m] \/ (m = cur[w] /\ pc[w] = "sending" /\ delivered'[m] = 1)
    BY <1>0, <2>1 DEF TypeOK, Deliver
  <2>5. WorkInv'
    BY <1>0, <2>4 DEF WorkInv, TypeOK
  <2>6. DeliveryInv'
    BY <1>0, <2>4 DEF DeliveryInv, WorkInv, TypeOK
  <2>7. FilesWhileNeeded'
    BY <1>0 DEF FilesWhileNeeded, TypeOK
  <2>8. QED
    BY <2>2, <2>3, <2>5, <2>6, <2>7 DEF IInv
<1>14. QED
  BY <1>1, <1>2, <1>3, <1>4, <1>5, <1>6, <1>7, <1>8, <1>9, <1>10, <1>11, <1>12, <1>13
     DEF WorkerStep

-----------------------------------------------------------------------------
LEMMA NextIInv == IInv /\ [Next]_vars => IInv'
<1> SUFFICES ASSUME IInv, [Next]_vars PROVE IInv'
  OBVIOUS
<1>1. CASE \E o \in Operators, m \in Messages :
             \/ WriteFiles(o, m) \/ ScheduleMessage(o, m) \/ ScheduleFails(o, m)
             \/ CancelMessage(o, m) \/ CancelCommits(o, m) \/ CancelFails(o, m)
             \/ CancelRemovesFiles(o, m)
  BY <1>1, RequestStep
<1>2. CASE \E m \in Messages : FallsDue(m)
  <2>1. TypeOK'
    BY <1>2 DEF IInv, TypeOK, FallsDue, workerVars
  <2>2. RequestInv' /\ WorkInv' /\ DeliveryInv' /\ FilesWhileNeeded'
    BY <1>2, RequestsStand
       DEF IInv, FallsDue, workerVars, WorkInv, DeliveryInv, FilesWhileNeeded
  <2>3. QED
    BY <2>1, <2>2 DEF IInv
<1>3. CASE \E w \in Workers : WorkerStep(w) \/ RunAborts(w) \/ Dies(w)
  BY <1>3, WorkerSteps
<1>4. CASE LockConnectionLost
  <2>1. TypeOK'
    BY <1>4 DEF IInv, TypeOK, LockConnectionLost
  <2>2. RequestInv' /\ WorkInv' /\ DeliveryInv' /\ FilesWhileNeeded'
    BY <1>4, RequestsStand
       DEF IInv, LockConnectionLost, WorkInv, DeliveryInv, FilesWhileNeeded
  <2>3. QED
    BY <2>1, <2>2 DEF IInv
<1>5. CASE UNCHANGED vars
  BY <1>5 DEF vars, workerVars, IInv, TypeOK, RequestInv, Asked, WorkInv, DeliveryInv, FilesWhileNeeded
<1>6. QED
  BY <1>1, <1>2, <1>3, <1>4, <1>5 DEF Next

-----------------------------------------------------------------------------
\* The inductive invariant holds in every state: requests, workers and deliveries
\* agree with the rows and the files.
THEOREM SpecIInv == Spec => []IInv
BY InitIInv, NextIInv, PTL DEF Spec

\* Every variable keeps its type, and a worker has a message exactly between its
\* claim and its outcome.
THEOREM SpecTypeOK == Spec => []TypeOK
<1>1. IInv => TypeOK
  BY DEF IInv
<1>2. QED
  BY <1>1, SpecIInv, PTL

\* Telegram gets a scheduled message at most once, and none that was cancelled,
\* for any number of workers that each may believe they hold the lock.
THEOREM SpecSentOnceOrCancelled == Spec => []SentOnceOrCancelled
<1>1. IInv => SentOnceOrCancelled
  BY DEF IInv, TypeOK, DeliveryInv, SentOnceOrCancelled
<1>2. QED
  BY <1>1, SpecIInv, PTL

\* No cancellation and no other worker removes files a delivery still reads.
THEOREM SpecFilesWhileNeeded == Spec => []FilesWhileNeeded
<1>1. IInv => FilesWhileNeeded
  BY DEF IInv
<1>2. QED
  BY <1>1, SpecIInv, PTL
=============================================================================
