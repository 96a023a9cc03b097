-------------------------- MODULE BroadcastDelivery --------------------------
(***************************************************************************)
(* One broadcast campaign: operators launch, edit, pause, resume, cancel   *)
(* and delete it through the API; worker runs (the polling loop and ARQ    *)
(* jobs) deliver it to its recipients, one owner at a time behind a        *)
(* PostgreSQL session advisory lock.                                       *)
(*                                                                         *)
(* API operations read the campaign, decide, and later write without       *)
(* looking again: a request is two steps, the second of which commits.     *)
(* A launch deletes the recipient rows and inserts new ones; snapshot      *)
(* numbers the sets of rows, so that a delivery task can find its row gone.*)
(***************************************************************************)
EXTENDS Naturals, FiniteSets

CONSTANTS
  Chats,          \* chats the audience filter selects
  Runs,           \* worker runs that may process the campaign
  Operators,      \* API requests that may be open at once
  Concurrency,    \* BROADCAST_CONCURRENCY
  MaxSnapshots,   \* bound: launches
  MaxCrashes,     \* bound: killed runs, lost lock connections, failed statements
  None

ASSUME ConcurrencyAssumption == Concurrency \in Nat \ {0}
ASSUME BoundAssumption       == MaxSnapshots \in Nat /\ MaxCrashes \in Nat
ASSUME FiniteAssumption      == IsFiniteSet(Chats) /\ IsFiniteSet(Runs)
ASSUME NoneAssumption        == None \notin Runs

VARIABLES
  \* tables broadcasts and broadcast_recipients
  campaign, snapshot, row,
  \* the campaign has stop_on_reply and a recipient answered since started_at
  replied,
  \* pg_try_advisory_lock
  lock,
  \* worker runs: the coordinator and its delivery tasks
  pc, task, batchOf, broken,
  \* open API requests: what they will do and which status they read
  request,
  \* history
  delivered,       \* deliveries of the campaign to each chat, up to 2
  startedStopped,  \* recipients started since the campaign was last stopped
  overlapped,      \* a launch or an edit was committed over a status it had not read
  lockLost,        \* the connection that held the lock was lost during a run
  crashes

tableVars   == <<campaign, snapshot, row, replied>>
runVars     == <<pc, task, batchOf, broken>>
historyVars == <<delivered, startedStopped, overlapped, lockLost,
                 crashes>>
vars == <<tableVars, lock, runVars, request, historyVars>>

\* "deleted": is_deleted is set (archived); "gone": no row any more.
CampaignStatuses == {"draft", "scheduled", "processing", "paused", "completed",
                     "cancelled", "deleted", "gone"}
RowStatuses == {"absent", "pending", "sending", "sent", "failed", "skipped"}
TaskStates  == {"none", "queued", "checked", "pausing", "claimed", "sent"}
RunStates   == {"idle", "starting", "sweep", "check", "pausing", "list",
                "complete", "batch"}
Launches    == {"send", "schedule"}
Operations  == Launches \cup {"edit", "cancel", "pause", "resume", "purge"}
NoRequest   == [op |-> "none", saw |-> "gone"]

Alive == campaign \notin {"deleted", "gone"}

\* Tasks inside the semaphore of a run.
InGate(w) == {c \in Chats : task[w][c] \in {"checked", "pausing", "claimed", "sent"}}

\* The row a task of run w was created for is still there.
RowStands(w) == batchOf[w] = snapshot /\ campaign # "gone"

Limit == Concurrency * (IF lockLost THEN Cardinality(Runs) ELSE 1)

TypeOK ==
  /\ campaign \in CampaignStatuses
  /\ snapshot \in 0..MaxSnapshots
  /\ row \in [Chats -> RowStatuses]
  /\ replied \in BOOLEAN
  /\ lock \in Runs \cup {None}
  /\ pc \in [Runs -> RunStates]
  /\ task \in [Runs -> [Chats -> TaskStates]]
  /\ batchOf \in [Runs -> 0..MaxSnapshots]
  /\ broken \in [Runs -> BOOLEAN]
  /\ request \in [Operators -> [op : Operations, saw : CampaignStatuses] \cup {NoRequest}]
  /\ delivered \in [Chats -> 0..2]
  /\ startedStopped \in 0..(Limit + 1)
  /\ overlapped \in BOOLEAN /\ lockLost \in BOOLEAN
  /\ crashes \in 0..MaxCrashes

NoTasks == [c \in Chats |-> "none"]

Init ==
  /\ campaign = "draft" /\ snapshot = 0
  /\ row = [c \in Chats |-> "absent"]
  /\ replied = FALSE
  /\ lock = None
  /\ pc = [w \in Runs |-> "idle"]
  /\ task = [w \in Runs |-> NoTasks]
  /\ batchOf = [w \in Runs |-> 0]
  /\ broken = [w \in Runs |-> FALSE]
  /\ request = [o \in Operators |-> NoRequest]
  /\ delivered = [c \in Chats |-> 0]
  /\ startedStopped = 0 /\ overlapped = FALSE /\ lockLost = FALSE
  /\ crashes = 0

UpTo2(n) == IF n = 0 THEN 1 ELSE 2

\* Every write of the status: started recipients are counted anew once the
\* campaign runs.
SetCampaign(s) ==
  /\ campaign' = s
  /\ startedStopped' = IF s = "processing" THEN 0 ELSE startedStopped

\* update_in_project: WHERE NOT is_deleted, whatever the status is by now.
UpdateInProject(s) ==
  IF Alive THEN SetCampaign(s) ELSE UNCHANGED <<campaign, startedStopped>>

SkipPending == row' = [c \in Chats |-> IF row[c] = "pending" THEN "skipped" ELSE row[c]]

-----------------------------------------------------------------------------
(* API requests: read and validate, then write and commit.                 *)

ReadableBy(op) ==
  CASE op \in Launches -> {"draft", "scheduled"}
    [] op = "edit"     -> {"draft", "scheduled"}
    [] op = "cancel"   -> {"draft", "scheduled", "processing", "paused"}
    [] op = "pause"    -> {"processing"}
    [] op = "resume"   -> {"paused"}
    [] op = "purge"    -> {"draft", "completed", "cancelled", "deleted"}

\* Launches and edits go on with the status they read; the others have done
\* with it once it is validated.
ReadCampaign(o, op) ==
  /\ request[o] = NoRequest
  /\ campaign \in ReadableBy(op)
  /\ request' = [request EXCEPT ![o] =
                   [op |-> op, saw |-> IF op \in Launches \cup {"edit"} THEN campaign
                                       ELSE NoRequest.saw]]
  /\ UNCHANGED <<tableVars, lock, runVars, historyVars>>

\* The request fails: its transaction is rolled back.
FailRequest(o) ==
  /\ request[o] # NoRequest
  /\ request' = [request EXCEPT ![o] = NoRequest]
  /\ UNCHANGED <<tableVars, lock, runVars, historyVars>>

\* A request that finds the campaign archived or gone by now rolls back.
Writes(o, op) ==
  /\ request[o].op = op
  /\ op = "purge" \/ Alive
  /\ request' = [request EXCEPT ![o] = NoRequest]

MarkOverlap(o) == overlapped' = (overlapped \/ campaign # request[o].saw)

\* send_now and schedule: replace_recipients, then the new status.
Launch(o, op) ==
  /\ Writes(o, op)
  /\ snapshot < MaxSnapshots
  /\ snapshot' = snapshot + 1
  /\ row' = [c \in Chats |-> "pending"]
  /\ SetCampaign(IF op = "send" THEN "processing" ELSE "scheduled")
  /\ replied' = FALSE
  /\ MarkOverlap(o)
  /\ UNCHANGED <<lock, runVars, delivered, lockLost, crashes>>

\* update_broadcast writes back the status it read, next to the new content,
\* where stop_on_reply may be switched off.
EditBroadcast(o) ==
  /\ Writes(o, "edit")
  /\ SetCampaign(request[o].saw)
  /\ replied' \in {replied, FALSE}
  /\ MarkOverlap(o)
  /\ UNCHANGED <<snapshot, row, lock, runVars, delivered,
                 lockLost, crashes>>

CancelBroadcast(o) ==
  /\ Writes(o, "cancel")
  /\ SetCampaign("cancelled")
  /\ SkipPending
  /\ UNCHANGED <<snapshot, replied, lock, runVars, delivered,
                 overlapped, lockLost, crashes>>

PauseBroadcast(o) ==
  /\ Writes(o, "pause")
  /\ SetCampaign("paused")
  /\ UNCHANGED <<snapshot, row, replied, lock, runVars, delivered,
                 overlapped, lockLost, crashes>>

\* started_at stays what it was, so that an earlier answer still counts.
ResumeBroadcast(o) ==
  /\ Writes(o, "resume")
  /\ SetCampaign("processing")
  /\ UNCHANGED <<snapshot, row, replied, lock, runVars, delivered,
                 overlapped, lockLost, crashes>>

\* soft_delete_in_project decides in the UPDATE itself.
ArchiveBroadcast ==
  /\ Alive
  /\ SetCampaign("deleted")
  /\ SkipPending
  /\ UNCHANGED <<snapshot, replied, lock, runVars, request, delivered,
                 overlapped, lockLost, crashes>>

\* permanently_delete_broadcast.
PurgeBroadcast(o) ==
  /\ Writes(o, "purge")
  /\ SetCampaign("gone")
  /\ row' = [c \in Chats |-> "absent"]
  /\ UNCHANGED <<snapshot, replied, lock, runVars, delivered,
                 overlapped, lockLost, crashes>>

\* A recipient writes to the bot while the campaign has stop_on_reply; a campaign
\* without it is one where this never happens. Only a running campaign looks at
\* answers: one that comes while it is stopped is taken when it runs again.
ClientReplies ==
  /\ campaign = "processing" /\ ~replied
  /\ \E c \in Chats : row[c] # "absent"
  /\ replied' = TRUE
  /\ UNCHANGED <<campaign, snapshot, row, lock, runVars, request, historyVars>>

-----------------------------------------------------------------------------
(* The coordinator of a run: process_broadcast and _process_owned.         *)

\* Mutant: the unlock in the finally block is dropped.
LeavesMutant(w) ==
  /\ pc' = [pc EXCEPT ![w] = "idle"]
  /\ task' = [task EXCEPT ![w] = NoTasks]
  /\ batchOf' = [batchOf EXCEPT ![w] = 0]
  /\ broken' = [broken EXCEPT ![w] = FALSE]
  /\ UNCHANGED lock

\* The run ends; pg_advisory_unlock releases only a lock it still has.
Leaves(w) ==
  /\ pc' = [pc EXCEPT ![w] = "idle"]
  /\ task' = [task EXCEPT ![w] = NoTasks]
  /\ batchOf' = [batchOf EXCEPT ![w] = 0]
  /\ broken' = [broken EXCEPT ![w] = FALSE]
  /\ lock' = IF lock = w THEN None ELSE lock

GoTo(w, s) ==
  /\ pc' = [pc EXCEPT ![w] = s]
  /\ UNCHANGED <<task, batchOf, broken, lock>>

\* The runs are interchangeable: one that is not at work stands for all such.
FirstIdle == CHOOSE w \in Runs : pc[w] = "idle" \/ \A v \in Runs : pc[v] # "idle"

\* list_due_broadcasts or an ARQ job, pg_try_advisory_lock, and the campaign as
\* the owner loads it; one that is stopped by then is left at once.
TakeLock(w) ==
  /\ w = FirstIdle /\ pc[w] = "idle" /\ lock = None
  /\ \/ campaign = "scheduled"  /\ pc' = [pc EXCEPT ![w] = "starting"]
     \/ campaign = "processing" /\ pc' = [pc EXCEPT ![w] = "sweep"]
  /\ lock' = w
  /\ UNCHANGED <<tableVars, task, batchOf, broken, request, historyVars>>

\* The campaign is written "processing" without a look at its status; an
\* answer counts from this started_at on.
StartScheduled(w) ==
  /\ pc[w] = "starting"
  /\ UpdateInProject("processing")
  /\ IF Alive THEN GoTo(w, "sweep") /\ replied' = FALSE
              ELSE Leaves(w) /\ UNCHANGED replied
  /\ UNCHANGED <<snapshot, row, request, delivered, overlapped, lockLost,
                 crashes>>

\* Mutants: interrupted rows get a status the table does not allow, are made
\* pending again, or are left alone.
SweepRowMutant1(s) == IF s = "sending" THEN "interrupted" ELSE s
SweepRowMutant2(s) == IF s = "sending" THEN "pending" ELSE s
SweepRowMutant3(s) == s

\* A row left "sending" may have been delivered: it is failed, never resent.
SweepRow(s) == IF s = "sending" THEN "failed" ELSE s

FailInterrupted(w) ==
  /\ pc[w] = "sweep"
  /\ row' = [c \in Chats |-> SweepRow(row[c])]
  /\ GoTo(w, "check")
  /\ UNCHANGED <<campaign, snapshot, replied, request, historyVars>>

\* _active_or_stopped; the pause after an answer is a later, blind write.
CheckCampaign(w) ==
  /\ pc[w] = "check"
  /\ \/ campaign # "processing" /\ Leaves(w)
     \/ campaign = "processing" /\ replied /\ GoTo(w, "pausing")
     \/ campaign = "processing" /\ ~replied /\ GoTo(w, "list")
  /\ UNCHANGED <<tableVars, request, historyVars>>

PauseAfterReply(w) ==
  /\ pc[w] = "pausing"
  /\ UpdateInProject("paused")
  /\ Leaves(w)
  /\ UNCHANGED <<snapshot, row, replied, request, delivered, overlapped,
                 lockLost, crashes>>

Pending == {c \in Chats : row[c] = "pending"}

\* list_pending_recipients: any micro batch of the pending rows.
ListRecipients(w) ==
  /\ pc[w] = "list"
  /\ \/ Pending = {} /\ GoTo(w, "complete")
     \/ \E batch \in SUBSET Pending \ {{}} :
          /\ pc' = [pc EXCEPT ![w] = "batch"]
          /\ task' = [task EXCEPT ![w] = [c \in Chats |-> IF c \in batch THEN "queued"
                                                          ELSE "none"]]
          /\ batchOf' = [batchOf EXCEPT ![w] = snapshot]
          /\ UNCHANGED <<broken, lock>>
  /\ UNCHANGED <<tableVars, request, historyVars>>

\* asyncio.gather waits for every task, then the first exception is raised.
EndBatch(w) ==
  /\ pc[w] = "batch" /\ task[w] = NoTasks
  /\ IF broken[w] THEN Leaves(w) ELSE GoTo(w, "check")
  /\ UNCHANGED <<tableVars, request, historyVars>>

MayComplete == campaign = "processing"

CompleteBroadcast(w) ==
  /\ pc[w] = "complete"
  /\ IF MayComplete THEN SetCampaign("completed")
                    ELSE UNCHANGED <<campaign, startedStopped>>
  /\ Leaves(w)
  /\ UNCHANGED <<snapshot, row, replied, request, delivered, overlapped,
                 lockLost, crashes>>

-----------------------------------------------------------------------------
(* The delivery tasks of a batch, each with a session of its own.          *)

TaskGoes(w, c, s) ==
  /\ pc[w] = "batch"
  /\ task' = [task EXCEPT ![w][c] = s]
  /\ UNCHANGED <<pc, batchOf, lock>>

TaskEnds(w, c)   == TaskGoes(w, c, "none") /\ UNCHANGED broken
TaskRaises(w, c) == TaskGoes(w, c, "none") /\ broken' = [broken EXCEPT ![w] = TRUE]

SetRow(w, c, s) == row' = IF RowStands(w) THEN [row EXCEPT ![c] = s] ELSE row

\* Mutant: the task only asks whether the campaign still exists.
MayStartMutant == Alive

MayStart == campaign = "processing"

\* Inside the semaphore the status is read again.
CheckTask(w, c) ==
  /\ task[w][c] = "queued"
  /\ Cardinality(InGate(w)) < Concurrency
  /\ \/ ~MayStart /\ TaskEnds(w, c)
     \/ MayStart /\ replied /\ TaskGoes(w, c, "pausing") /\ UNCHANGED broken
     \/ MayStart /\ ~replied /\ TaskGoes(w, c, "checked") /\ UNCHANGED broken
  /\ UNCHANGED <<tableVars, request, historyVars>>

PauseTask(w, c) ==
  /\ task[w][c] = "pausing"
  /\ UpdateInProject("paused")
  /\ TaskEnds(w, c)
  /\ UNCHANGED <<snapshot, row, replied, request, delivered, overlapped,
                 lockLost, crashes>>

Claimable(w, c) == RowStands(w) /\ row[c] = "pending"

CountStart ==
  startedStopped' = IF campaign = "processing" \/ startedStopped > Limit
                    THEN startedStopped ELSE startedStopped + 1

\* The claim is committed before anything is sent; when the acknowledgement of
\* the commit is lost the row stays "sending" and the task raises.
ClaimTask(w, c) ==
  /\ task[w][c] = "checked" /\ Claimable(w, c)
  /\ SetRow(w, c, "sending")
  /\ CountStart
  /\ TaskRaises(w, c) \/ (TaskGoes(w, c, "claimed") /\ UNCHANGED broken)
  /\ UNCHANGED <<campaign, snapshot, replied, request, delivered,
                 overlapped, lockLost, crashes>>

ClaimMissed(w, c) ==
  /\ task[w][c] = "checked" /\ ~Claimable(w, c)
  /\ TaskEnds(w, c)
  /\ UNCHANGED <<tableVars, request, historyVars>>

\* The claimed row was deleted before it is loaded: recipient is None.
RowDeleted(w, c) ==
  /\ task[w][c] = "claimed" /\ ~RowStands(w)
  /\ TaskRaises(w, c)
  /\ UNCHANGED <<tableVars, request, historyVars>>

\* The chat left the advertising audience.
SkipTask(w, c) ==
  /\ task[w][c] = "claimed"
  /\ SetRow(w, c, "skipped")
  /\ TaskEnds(w, c)
  /\ UNCHANGED <<campaign, snapshot, replied, request, historyVars>>

\* _send_to_recipient: Telegram delivers.
SendTask(w, c) ==
  /\ task[w][c] = "claimed"
  /\ delivered' = [delivered EXCEPT ![c] = UpTo2(@)]
  /\ TaskGoes(w, c, "sent")
  /\ UNCHANGED <<tableVars, broken, request, startedStopped, overlapped, lockLost, crashes>>

\* mark_recipient_sent, by the id of the row alone.
RecordSent(w, c) ==
  /\ task[w][c] = "sent"
  /\ SetRow(w, c, "sent")
  /\ TaskEnds(w, c)
  /\ UNCHANGED <<campaign, snapshot, replied, request, historyVars>>

\* mark_recipient_failed: sending failed, its answer was lost, or marking the
\* row sent failed.
RecordFailed(w, c) ==
  /\ task[w][c] \in {"claimed", "sent"}
  /\ SetRow(w, c, "failed")
  /\ TaskEnds(w, c)
  /\ UNCHANGED <<campaign, snapshot, replied, request, historyVars>>

\* A statement fails that nothing catches; the row stays as it is.
TaskFails(w, c) ==
  /\ task[w][c] # "none"
  /\ crashes < MaxCrashes /\ crashes' = crashes + 1
  /\ TaskRaises(w, c)
  /\ UNCHANGED <<tableVars, request, delivered, startedStopped, overlapped,
                 lockLost>>

\* The process is killed, or ARQ cancels the job at its timeout.
RunDies(w) ==
  /\ pc[w] # "idle"
  /\ crashes < MaxCrashes /\ crashes' = crashes + 1
  /\ Leaves(w)
  /\ UNCHANGED <<tableVars, request, delivered, startedStopped, overlapped,
                 lockLost>>

\* PostgreSQL drops the session that holds the lock; the run goes on.
LockConnectionLost(w) ==
  /\ lock = w
  /\ crashes < MaxCrashes /\ crashes' = crashes + 1
  /\ lock' = None /\ lockLost' = TRUE
  /\ UNCHANGED <<tableVars, runVars, request, delivered, startedStopped,
                 overlapped>>

-----------------------------------------------------------------------------
Request(o) ==
  \/ \E op \in Operations : ReadCampaign(o, op)
  \/ \E op \in Launches : Launch(o, op)
  \/ EditBroadcast(o) \/ CancelBroadcast(o) \/ PauseBroadcast(o)
  \/ ResumeBroadcast(o) \/ PurgeBroadcast(o) \/ FailRequest(o)

RunStep(w) ==
  \/ StartScheduled(w) \/ FailInterrupted(w) \/ CheckCampaign(w)
  \/ PauseAfterReply(w) \/ ListRecipients(w) \/ EndBatch(w) \/ CompleteBroadcast(w)

TaskStep(w, c) ==
  \/ CheckTask(w, c) \/ PauseTask(w, c) \/ ClaimTask(w, c) \/ ClaimMissed(w, c)
  \/ RowDeleted(w, c) \/ SkipTask(w, c) \/ SendTask(w, c)
  \/ RecordSent(w, c) \/ RecordFailed(w, c)

Next ==
  \/ \E o \in Operators : Request(o)
  \/ ArchiveBroadcast \/ ClientReplies
  \/ \E w \in Runs : TakeLock(w) \/ RunStep(w) \/ RunDies(w) \/ LockConnectionLost(w)
  \/ \E w \in Runs, c \in Chats : TaskStep(w, c) \/ TaskFails(w, c)

\* The loop polls every second, so that some run takes a free lock; a run and
\* its tasks go on until they end: HTTP calls and statements have timeouts.  That
\* the runs together do not stand still while there is work is all it takes.
Fairness ==
  WF_vars(\E w \in Runs : TakeLock(w) \/ RunStep(w) \/ \E c \in Chats : TaskStep(w, c))

Spec == Init /\ [][Next]_vars
FairSpec == Spec /\ Fairness

-----------------------------------------------------------------------------
(* Properties.                                                             *)

\* The committed claim, the sweep and the checked launch together: a chat gets a
\* campaign at most once, whichever runs are killed, and even when the advisory
\* lock is lost and two runs own the campaign, unless a launch or an edit was
\* decided on an old status.
OnceUnlessOverlapped == ~overlapped => \A c \in Chats : delivered[c] <= 1

\* "Pause/cancel prevents new recipients starting; up to the configured
\* concurrency may already be in flight": of each run that believes it owns
\* the campaign.
StopLimitsNewRecipients == startedStopped <= Limit

\* A campaign is completed only when no recipient is pending or in flight,
\* as long as the lock held and no launch or edit was decided on an old status.
CompletedMeansSettled ==
  campaign = "completed" /\ ~lockLost /\ ~overlapped =>
    \A c \in Chats : row[c] \notin {"pending", "sending"}

\* A running campaign is delivered, or stopped: no crash, lost claim, deleted
\* row or failed statement leaves it "processing" for ever.
CampaignEnds == campaign = "processing" ~> campaign # "processing"

\* "Broadcast cannot be sent in current status": a campaign that has started is
\* not launched again, so that a chat gets it at most once.
OncePerCampaign == \A c \in Chats : delivered[c] <= 1
=============================================================================
