-------------------------- MODULE ScheduledMessages --------------------------
(***************************************************************************)
(* Messages an operator schedules for later, the files they carry, and the *)
(* workers that deliver them one at a time under one advisory lock.  The   *)
(* lock belongs to a database session of its own: it is gone when the      *)
(* worker dies, and also when only that connection does.                   *)
(*                                                                         *)
(* Of a clock only its effect is modelled: at some moment a message is     *)
(* due.  What a message says is left out; that it carries files is not.    *)
(***************************************************************************)
EXTENDS Naturals, FiniteSets

CONSTANTS
  Messages,     \* messages that can be scheduled, each with files
  Workers,      \* scheduled message loops
  Operators,    \* API requests of operators
  MaxFaults,    \* bound: killed workers, lost lock connections, failed statements
  None          \* "nobody", "no message"

ASSUME NoneAssumption == None \notin Messages \cup Workers
ASSUME BoundAssumption == MaxFaults \in Nat

VARIABLES
  status,       \* scheduled_messages.status ("none": no row)
  due,          \* scheduled_at has passed
  stored,       \* the message's files are on the disk
  lock,         \* the worker whose session holds the advisory lock
  pc,           \* workers: where they are
  todo, cur,    \* due_ids not yet worked on, the message at work
  request,      \* requests: what they are about to do
  faults,
  \* history
  delivered     \* how often Telegram accepted the message, up to 2

workerVars == <<lock, pc, todo, cur>>
vars == <<status, due, stored, workerVars, request, faults, delivered>>

Statuses == {"none", "pending", "running", "sent", "failed", "cancelled"}
Points   == {"idle", "locked", "recovered", "loop", "claimed", "sending",
             "delivered", "failing", "sent", "unlocking"}
Phases   == {"writing", "cancelling", "cancelled"}
Idle     == [phase |-> "idle", message |-> None]

TypeOK ==
  /\ status \in [Messages -> Statuses]
  /\ due \subseteq Messages /\ stored \subseteq Messages
  /\ lock \in Workers \cup {None}
  /\ pc \in [Workers -> Points]
  /\ todo \in [Workers -> SUBSET Messages]
  /\ cur \in [Workers -> Messages \cup {None}]
  /\ request \in [Operators -> [phase : Phases, message : Messages] \cup {Idle}]
  /\ faults \in 0..MaxFaults
  /\ delivered \in [Messages -> 0..2]
  \* a worker has a message exactly between its claim and its outcome
  /\ \A w \in Workers :
       cur[w] # None <=> pc[w] \in {"claimed", "sending", "delivered", "failing", "sent"}

Init ==
  /\ status = [m \in Messages |-> "none"]
  /\ due = {} /\ stored = {}
  /\ lock = None
  /\ pc = [w \in Workers |-> "idle"]
  /\ todo = [w \in Workers |-> {}]
  /\ cur = [w \in Workers |-> None]
  /\ request = [o \in Operators |-> Idle]
  /\ faults = 0
  /\ delivered = [m \in Messages |-> 0]

Ask(o, phase, m) == request' = [request EXCEPT ![o] = [phase |-> phase, message |-> m]]
Answer(o) == request' = [request EXCEPT ![o] = Idle]

Asked(o, phase, m) == request[o] = [phase |-> phase, message |-> m]

-----------------------------------------------------------------------------
(* Operators' requests.                                                    *)

\* schedule_message: the files are written first, each under a new name.
WriteFiles(o, m) ==
  /\ request[o] = Idle
  /\ status[m] = "none" /\ \A p \in Operators : request[p].message # m
  /\ Ask(o, "writing", m)
  /\ stored' = stored \cup {m}
  /\ UNCHANGED <<status, due, workerVars, faults, delivered>>

\* The row is committed with the request.
ScheduleMessage(o, m) ==
  /\ Asked(o, "writing", m)
  /\ status' = [status EXCEPT ![m] = "pending"]
  /\ Answer(o)
  /\ UNCHANGED <<due, stored, workerVars, faults, delivered>>

\* The insert fails and the files are removed, or the commit fails and they stay.
ScheduleFails(o, m) ==
  /\ Asked(o, "writing", m)
  /\ stored' \in {stored, stored \ {m}}
  /\ Answer(o)
  /\ UNCHANGED <<status, due, workerVars, faults, delivered>>

Cancellable(m) == status[m] = "pending"

\* An UPDATE waits for the transaction that holds the row.
RowFree(m) == \A o \in Operators : ~Asked(o, "cancelling", m)

\* cancel_message: the UPDATE; nobody else sees it before the commit.
CancelMessage(o, m) ==
  /\ request[o] = Idle /\ RowFree(m)
  /\ Cancellable(m)
  /\ Ask(o, "cancelling", m)
  /\ UNCHANGED <<status, due, stored, workerVars, faults, delivered>>

CancelCommits(o, m) ==
  /\ Asked(o, "cancelling", m)
  /\ status' = [status EXCEPT ![m] = "cancelled"]
  /\ Ask(o, "cancelled", m)
  /\ UNCHANGED <<due, stored, workerVars, faults, delivered>>

CancelFails(o, m) ==
  /\ Asked(o, "cancelling", m) /\ faults < MaxFaults
  /\ faults' = faults + 1
  /\ Answer(o)
  /\ UNCHANGED <<status, due, stored, workerVars, delivered>>

\* Mutant: the files go before the commit.
MayRemoveMutant(o, m) == request[o].phase \in {"cancelling", "cancelled"} /\ request[o].message = m
MayRemove(o, m) == Asked(o, "cancelled", m)

CancelRemovesFiles(o, m) ==
  /\ MayRemove(o, m)
  /\ stored' = stored \ {m}
  /\ Answer(o)
  /\ UNCHANGED <<status, due, workerVars, faults, delivered>>

FallsDue(m) ==
  /\ status[m] = "pending" /\ m \notin due
  /\ due' = due \cup {m}
  /\ UNCHANGED <<status, stored, workerVars, request, faults, delivered>>

-----------------------------------------------------------------------------
(* Workers: run_once and process_due_messages.                             *)

Goes(w, to) == pc' = [pc EXCEPT ![w] = to]

\* pg_try_advisory_lock: a worker that does not get it waits for its next tick.
TryLock(w) ==
  /\ pc[w] = "idle" /\ lock = None
  /\ lock' = w
  /\ Goes(w, "locked")
  /\ UNCHANGED <<status, due, stored, todo, cur, request, faults, delivered>>

\* Mutants: an interrupted delivery is tried again; it is left as it is; it
\* gets a status the table does not allow.
InterruptedMutant1(s) == IF s = "running" THEN "pending" ELSE s
InterruptedMutant2(s) == s
InterruptedMutant3(s) == IF s = "running" THEN "interrupted" ELSE s
Interrupted(s) == IF s = "running" THEN "failed" ELSE s

\* recover_interrupted: what is running was interrupted, for the lock is ours.
Recover(w) ==
  /\ pc[w] = "locked"
  /\ status' = [m \in Messages |-> Interrupted(status[m])]
  /\ Goes(w, "recovered")
  /\ UNCHANGED <<due, stored, lock, todo, cur, request, faults, delivered>>

ListDue(w) ==
  /\ pc[w] = "recovered"
  /\ todo' = [todo EXCEPT ![w] = {m \in due : status[m] = "pending"}]
  /\ Goes(w, "loop")
  /\ UNCHANGED <<status, due, stored, lock, cur, request, faults, delivered>>

\* mark_running, committed before anything is sent; or somebody was faster.
MarkRunning(w, m) ==
  /\ pc[w] = "loop" /\ m \in todo[w] /\ RowFree(m)
  /\ todo' = [todo EXCEPT ![w] = @ \ {m}]
  /\ IF status[m] = "pending"
       THEN /\ status' = [status EXCEPT ![m] = "running"]
            /\ cur' = [cur EXCEPT ![w] = m]
            /\ Goes(w, "claimed")
       ELSE UNCHANGED <<status, cur, pc>>
  /\ UNCHANGED <<due, stored, lock, request, faults, delivered>>

\* The files are read and the chat is checked, or one of these fails.
Prepare(w) ==
  /\ pc[w] = "claimed"
  /\ \/ cur[w] \in stored /\ Goes(w, "sending")
     \/ Goes(w, "failing")
  /\ UNCHANGED <<status, due, stored, lock, todo, cur, request, faults, delivered>>

Deliver(m) == delivered' = [delivered EXCEPT ![m] = IF @ = 0 THEN 1 ELSE 2]

\* Telegram accepts it, and the message row is written or not; or it refuses.
Send(w) ==
  /\ pc[w] = "sending"
  /\ \/ Deliver(cur[w]) /\ Goes(w, "delivered")
     \/ Deliver(cur[w]) /\ Goes(w, "failing")
     \/ UNCHANGED delivered /\ Goes(w, "failing")
  /\ UNCHANGED <<status, due, stored, lock, todo, cur, request, faults>>

\* mark_sent is unconditional, in the transaction of the message row.
MarkSent(w) ==
  /\ pc[w] = "delivered"
  /\ status' = [status EXCEPT ![cur[w]] = "sent"]
  /\ Goes(w, "sent")
  /\ UNCHANGED <<due, stored, lock, todo, cur, request, faults, delivered>>

\* mark_failed as well; the files stay.
MarkFailed(w) ==
  /\ pc[w] = "failing"
  /\ status' = [status EXCEPT ![cur[w]] = "failed"]
  /\ cur' = [cur EXCEPT ![w] = None]
  /\ Goes(w, "loop")
  /\ UNCHANGED <<due, stored, lock, todo, request, faults, delivered>>

RemoveFiles(w) ==
  /\ pc[w] = "sent"
  /\ stored' = stored \ {cur[w]}
  /\ cur' = [cur EXCEPT ![w] = None]
  /\ Goes(w, "loop")
  /\ UNCHANGED <<status, due, lock, todo, request, faults, delivered>>

\* A statement outside the inner try fails: the run ends where it is.
RunAborts(w) ==
  /\ pc[w] \in {"locked", "recovered", "loop", "claimed", "delivered", "failing"}
  /\ faults < MaxFaults /\ faults' = faults + 1
  /\ cur' = [cur EXCEPT ![w] = None]
  /\ todo' = [todo EXCEPT ![w] = {}]
  /\ Goes(w, "unlocking")
  /\ UNCHANGED <<status, due, stored, lock, request, delivered>>

RunEnds(w) ==
  /\ pc[w] = "loop" /\ todo[w] = {}
  /\ Goes(w, "unlocking")
  /\ UNCHANGED <<status, due, stored, lock, todo, cur, request, faults, delivered>>

\* pg_advisory_unlock, or its connection is invalidated.
Unlock(w) ==
  /\ pc[w] = "unlocking"
  /\ lock' = IF lock = w THEN None ELSE lock
  /\ Goes(w, "idle")
  /\ UNCHANGED <<status, due, stored, todo, cur, request, faults, delivered>>

\* The process dies; what it was sending may have arrived.
Dies(w) ==
  /\ pc[w] # "idle" /\ faults < MaxFaults
  /\ faults' = faults + 1
  /\ \/ pc[w] = "sending" /\ Deliver(cur[w])
     \/ UNCHANGED delivered
  /\ lock' = IF lock = w THEN None ELSE lock
  /\ todo' = [todo EXCEPT ![w] = {}]
  /\ cur' = [cur EXCEPT ![w] = None]
  /\ Goes(w, "idle")
  /\ UNCHANGED <<status, due, stored, request>>

\* The lock's connection is lost, and the run does not notice.
LockConnectionLost ==
  /\ lock # None /\ faults < MaxFaults
  /\ faults' = faults + 1
  /\ lock' = None
  /\ UNCHANGED <<status, due, stored, pc, todo, cur, request, delivered>>

-----------------------------------------------------------------------------
WorkerStep(w) ==
  \/ TryLock(w) \/ Recover(w) \/ ListDue(w) \/ Prepare(w) \/ Send(w)
  \/ MarkSent(w) \/ MarkFailed(w) \/ RemoveFiles(w) \/ RunEnds(w) \/ Unlock(w)
  \/ \E m \in Messages : MarkRunning(w, m)

Next ==
  \/ \E o \in Operators, m \in Messages :
       \/ WriteFiles(o, m) \/ ScheduleMessage(o, m) \/ ScheduleFails(o, m)
       \/ CancelMessage(o, m) \/ CancelCommits(o, m) \/ CancelFails(o, m)
       \/ CancelRemovesFiles(o, m)
  \/ \E m \in Messages : FallsDue(m)
  \/ \E w \in Workers : WorkerStep(w) \/ RunAborts(w) \/ Dies(w)
  \/ LockConnectionLost

Spec == Init /\ [][Next]_vars

\* The loop polls every second, its calls have timeouts, requests end and
\* clocks run.
Fairness ==
  /\ \A w \in Workers : WF_vars(WorkerStep(w))
  /\ \A m \in Messages : WF_vars(FallsDue(m))
  /\ \A o \in Operators, m \in Messages :
       WF_vars(ScheduleMessage(o, m) \/ CancelCommits(o, m) \/ CancelRemovesFiles(o, m))

FairSpec == Spec /\ Fairness

-----------------------------------------------------------------------------
(* Properties.                                                             *)

\* Telegram gets a scheduled message at most once, and never after a cancellation
\* the operator was told of, although the worker may be killed between the send
\* and its record, a second worker may take the lock of a live one, and both may
\* have listed the message before it was cancelled.
SentOnceOrCancelled ==
  \A m \in Messages : delivered[m] <= IF status[m] = "cancelled" THEN 0 ELSE 1

\* The files of a message are on the disk as long as a delivery may read them:
\* neither a cancellation that fails nor another worker takes them away.
FilesWhileNeeded ==
  \A m \in Messages :
    \/ m \in stored
    \/ status[m] \notin {"pending", "running"}
    \/ status[m] = "running" /\ \A w \in Workers : ~(cur[w] = m /\ pc[w] = "claimed")

\* A scheduled message does not stay open: it is sent, put before the operator
\* as failed (also when the delivery was interrupted), or cancelled.
EveryMessageSettles ==
  \A m \in Messages :
    status[m] = "pending" ~> status[m] \in {"sent", "failed", "cancelled"}
=============================================================================
