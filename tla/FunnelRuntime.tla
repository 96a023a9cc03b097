---------------------------- MODULE FunnelRuntime ----------------------------
(***************************************************************************)
(* The funnel of one chat: its state row, its scheduled jobs, and the      *)
(* sessions that execute it: scheduled workers, handlers of what the user  *)
(* sent, and a manager's resume.                                           *)
(*                                                                         *)
(* Every read of the state locks the chat row until the transaction ends,  *)
(* and every send commits first, so an action is one transaction: from the *)
(* answer of Telegram (or the start of the handler) to the commit before   *)
(* the next send, or to the end of the handler.  A resume from the API     *)
(* keeps its transaction, and the lock, over its sends.                    *)
(*                                                                         *)
(* Times are left out: a pending job can run at any moment.  Conditions,   *)
(* answers and A/B tests are a choice among the steps that can follow.     *)
(***************************************************************************)
EXTENDS Naturals, Sequences, FiniteSets

CONSTANTS
  Steps,         \* the steps of the published version
  Kind,          \* Kind[n] \in {"message", "input", "delay", "finish", "operator"}
  Script,        \* Script[n]: the items of a message step: "plain", "delayed", "waits"
  Follow,        \* Follow[n]: the steps an edge or a target of n leads to
  First,         \* the step behind the start trigger
  MaxJobs,       \* bound: rows of funnel_scheduled_jobs that are not yet terminal
  Workers,       \* executors of scheduled jobs (ARQ slots and the polling loop)
  Inbounds,      \* handlers of messages, buttons and commands of this chat
  Callbacks,     \* those of them that handle buttons
  Managers,      \* API requests that resume the funnel
  MaxAttempts,   \* FUNNEL_SCHEDULED_JOB_MAX_ATTEMPTS
  MaxActs,       \* bound: what users, managers and Telegram start
  MaxFaults,     \* bound: failed sends, crashes and lost answers
  None           \* "no row", "no job", "no position"

JobIds   == 1..MaxJobs
Sessions == Workers \cup Inbounds \cup Managers
Kinds    == {"message", "input", "delay", "finish", "operator"}

ASSUME StepAssumption ==
  /\ First \in Steps
  /\ Kind \in [Steps -> Kinds]
  /\ Script \in [Steps -> Seq({"plain", "delayed", "waits"})]
  /\ Follow \in [Steps -> SUBSET Steps]
  /\ \A n \in Steps : Kind[n] = "message" => Len(Script[n]) > 0
ASSUME SessionAssumption ==
  /\ Workers \cap Inbounds = {} /\ Workers \cap Managers = {} /\ Inbounds \cap Managers = {}
  /\ Callbacks \subseteq Inbounds
ASSUME BoundAssumption ==
  MaxJobs \in Nat /\ MaxAttempts \in Nat \ {0} /\ MaxActs \in Nat /\ MaxFaults \in Nat

VARIABLES
  \* chat_funnel_states: None or the row; the marker is runtime_json's
  \* message_sequence.  History fields, about the time since the chat moved to
  \* its step: sent, the positions delivered; reported, a failure went to the
  \* operational alert or is put before a human (review); untold, a failure
  \* went to nobody.
  row,
  blocked,     \* chats.is_blocked_by_user
  jobs,        \* funnel_scheduled_jobs
  pc, task,    \* sessions: where they are, and the job of a worker
  at,          \* the position a session is sending
  attached,    \* the session holds a copy of this row, read when it was not paused
  error,       \* the exception a worker is about to resolve
  saved,       \* what a rollback of the open API transaction restores
  acts, faults,
  \* history
  disturbed,   \* something NoRepeatUnlessDisturbed names has happened
  repeated     \* a position was delivered twice without a move in between

sessionVars == <<pc, task, at, attached, error>>
vars == <<row, blocked, jobs, sessionVars, saved, acts, faults, disturbed, repeated>>

Positions == [step : Steps, index : Nat]
Rows == [step : Steps, waiting : BOOLEAN, paused : BOOLEAN, completed : BOOLEAN,
         marker : Positions \cup {None}, sent : SUBSET Positions, reported : BOOLEAN,
         untold : BOOLEAN]
JobTypes == {"sequence", "delay", "timeout", "resume"}
Open     == {"pending", "running"}
Closed   == {"done", "failed", "cancelled"}
Jobs == [status : Open \cup Closed, type : JobTypes, step : Steps, index : Nat,
         attempts : 0..MaxAttempts]
Snapshots == [row : Rows \cup {None}, jobs : [JobIds -> Jobs]]

ASSUME NoneAssumption ==
  /\ None \notin JobIds /\ None \notin Sessions
  /\ None \notin Positions /\ None \notin Rows /\ None \notin Snapshots

TypeOK ==
  /\ row \in Rows \cup {None}
  /\ blocked \in BOOLEAN
  /\ jobs \in [JobIds -> Jobs]
  /\ pc \in [Sessions -> {"idle", "claimed", "sending", "failing"}]
  /\ task \in [Sessions -> JobIds \cup {None}]
  /\ at \in [Sessions -> Positions \cup {None}]
  /\ attached \in [Sessions -> BOOLEAN]
  /\ error \in [Sessions -> {"none", "transient", "permanent", "blocked", "other"}]
  /\ saved \in Snapshots \cup {None}
  /\ acts \in 0..MaxActs /\ faults \in 0..MaxFaults
  /\ disturbed \in BOOLEAN /\ repeated \in BOOLEAN
  /\ \A w \in Workers : pc[w] # "idle" <=> task[w] \in JobIds
  \* a job that still has an attempt left was not claimed too often
  /\ \A j \in JobIds : jobs[j].status = "pending" => jobs[j].attempts < MaxAttempts

NewJob(type, n, i) ==
  [status |-> "pending", type |-> type, step |-> n, index |-> i, attempts |-> 0]

Init ==
  /\ row = None
  /\ blocked = FALSE
  /\ jobs = [j \in JobIds |-> [NewJob("resume", First, 0) EXCEPT !.status = "done"]]
  /\ pc = [s \in Sessions |-> "idle"]
  /\ task = [s \in Sessions |-> None]
  /\ at = [s \in Sessions |-> None]
  /\ attached = [s \in Sessions |-> FALSE]
  /\ error = [s \in Sessions |-> "none"]
  /\ saved = None
  /\ acts = 0 /\ faults = 0
  /\ disturbed = FALSE /\ repeated = FALSE

-----------------------------------------------------------------------------
(* The state row and the jobs.  Operators on values r and js: what a       *)
(* transaction has made of the row and the jobs so far.                    *)

\* upsert_chat_funnel_state: every column but is_paused.
Upsert(r, n, waits, completes) ==
  [r EXCEPT !.step = n, !.waiting = waits, !.completed = completes]

\* The chat moves: a new visit of a step begins.
MoveTo(r, n, completes) ==
  [Upsert(r, n, FALSE, completes) EXCEPT !.sent = {}, !.reported = FALSE, !.untold = FALSE]

FreshRow(n) ==
  [step |-> n, waiting |-> FALSE, paused |-> FALSE, completed |-> FALSE,
   marker |-> None, sent |-> {}, reported |-> FALSE, untold |-> FALSE]

\* cancel_scheduled_jobs_for_chat
CancelPending(js) ==
  [j \in JobIds |-> IF js[j].status = "pending"
                      THEN [js[j] EXCEPT !.status = "cancelled"] ELSE js[j]]

\* delete_chat_funnel_state takes the running jobs along.
CancelOpen(js) ==
  [j \in JobIds |-> IF js[j].status \in Open
                      THEN [js[j] EXCEPT !.status = "cancelled"] ELSE js[j]]

CancelSame(js, type, n) ==
  [j \in JobIds |-> IF js[j].status = "pending" /\ js[j].type = type /\ js[j].step = n
                      THEN [js[j] EXCEPT !.status = "cancelled"] ELSE js[j]]

Unused(js) == {j \in JobIds : js[j].status \in Closed /\ \A w \in Workers : task[w] # j}

\* _schedule_job; without a state there is no job.
Schedule(r, js, type, n, i) ==
  IF r = None THEN js
  ELSE LET kept == CancelSame(js, type, n)
           slot == CHOOSE j \in Unused(kept) : TRUE
       IN [kept EXCEPT ![slot] = NewJob(type, n, i)]

Reported(r) == IF r = None THEN None ELSE [r EXCEPT !.reported = TRUE]
Untold(r)   == IF r = None THEN None ELSE [r EXCEPT !.untold = TRUE]

-----------------------------------------------------------------------------
(* How a transaction of session s ends.  copies: the sessions that hold a  *)
(* copy of the row afterwards.                                             *)

\* The open transaction of an API request shuts the others out.
MayTransact(s) == \A m \in Managers : pc[m] # "idle" => m = s

\* It commits and sends position i of step n; an API request only sends.
Sends(s, r, js, n, i, copies) ==
  /\ row' = r
  /\ jobs' = js
  /\ pc' = [pc EXCEPT ![s] = "sending"]
  /\ at' = [at EXCEPT ![s] = [step |-> n, index |-> i]]
  /\ attached' = [x \in Sessions |-> x \in copies]
  /\ saved' = IF s \in Managers /\ saved = None THEN [row |-> row, jobs |-> jobs] ELSE saved
  /\ UNCHANGED <<task, error>>

Leaves(s, copies) ==
  /\ pc' = [pc EXCEPT ![s] = "idle"]
  /\ task' = [task EXCEPT ![s] = None]
  /\ at' = [at EXCEPT ![s] = None]
  /\ attached' = [x \in Sessions |-> x \in copies \ {s}]
  /\ error' = [error EXCEPT ![s] = "none"]
  /\ saved' = IF s \in Managers THEN None ELSE saved

\* It is the handler's last one; a worker marks its job done, whatever its status.
Finishes(s, r, js, copies) ==
  /\ row' = r
  /\ jobs' = IF s \in Workers THEN [js EXCEPT ![task[s]].status = "done"] ELSE js
  /\ Leaves(s, copies)

Copies == {s \in Sessions : attached[s]}

\* _execute_message_sequence from item i: a delay is a job, not a wait.
Play(s, r, js, n, i, copies) ==
  IF Script[n][i] = "delayed"
    THEN /\ Unused(CancelSame(js, "sequence", n)) # {}
         /\ Finishes(s, r, Schedule(r, js, "sequence", n, i), copies)
    ELSE Sends(s, r, js, n, i, copies)

\* _execute_from_step at step n.  The pause it looks at is the one of the
\* session's own copy: the session factory does not expire objects on commit,
\* and an object that is already loaded is not refreshed by a query.
Enter(s, r, js, n, copies) ==
  LET reached == Upsert(r, n, Kind[n] = "input", FALSE)
  IN IF r.paused /\ s \notin copies
       THEN Finishes(s, r, js, copies)
     ELSE IF blocked
       THEN Finishes(s, IF r.completed THEN r ELSE [r EXCEPT !.paused = TRUE],
                     IF r.completed THEN js ELSE CancelPending(js), copies)
     ELSE CASE Kind[n] = "message" -> Play(s, reached, js, n, 1, copies \cup {s})
            [] Kind[n] = "delay"   ->
                 /\ Unused(CancelSame(js, "delay", n)) # {}
                 /\ Finishes(s, reached, Schedule(r, js, "delay", n, 0), copies)
            [] OTHER               -> Sends(s, reached, js, n, 0, copies \cup {s})

\* _move_from_step: over an edge, or the funnel is completed.
MoveOn(s, r, js, n, copies) ==
  \/ /\ Follow[n] = {}
     /\ Finishes(s, Upsert(r, n, FALSE, TRUE), js, copies)
  \/ \E m \in Follow[n] :
       Enter(s, MoveTo(r, m, Kind[m] = "finish"), js, m, copies)

\* _move_to_step_id, or _move_from_step where the block names no target.
Branch(s, r, js, n, copies) ==
  \/ MoveOn(s, r, js, n, copies)
  \/ \E m \in Follow[n] : Enter(s, MoveTo(r, m, FALSE), js, m, copies)

\* The item after i, or the step after the last item.
PlayAfter(s, r, js, n, i, copies) ==
  IF i < Len(Script[n]) THEN Play(s, r, js, n, i + 1, copies)
                        ELSE MoveOn(s, r, js, n, copies)

-----------------------------------------------------------------------------
(* What follows a send that Telegram accepted.                             *)

\* Position 1 of an input step: the text that asks for another answer.
AsksAgain(p) == Kind[p.step] = "input" /\ p.index = 1

\* The bookkeeping of a delivery: the message row, and the history.
Delivered(p) ==
  IF row = None \/ AsksAgain(p) THEN row ELSE [row EXCEPT !.sent = @ \cup {p}]

SendOk(s) ==
  LET p == at[s]
      n == p.step
      r == Delivered(p)
  IN /\ pc[s] = "sending" /\ MayTransact(s)
     /\ CASE Kind[n] = "message" ->
               IF Script[n][p.index] = "waits"
                 THEN Finishes(s, IF r = None THEN None
                                  ELSE [Upsert(r, n, TRUE, FALSE) EXCEPT !.marker = p],
                               jobs, Copies)
               ELSE IF r = None /\ p.index = Len(Script[n])
                 THEN Finishes(s, None, jobs, Copies)
               ELSE PlayAfter(s, r, jobs, n, p.index, Copies)
          [] Kind[n] = "input" ->
               \/ Finishes(s, r, jobs, Copies)
               \/ /\ ~AsksAgain(p) /\ Unused(CancelSame(jobs, "timeout", n)) # {}
                  /\ Finishes(s, r, Schedule(r, jobs, "timeout", n, 0), Copies)
          [] Kind[n] = "finish" ->
               Finishes(s, IF r = None THEN None ELSE Upsert(r, n, FALSE, TRUE), jobs, Copies)
          [] OTHER ->
               Finishes(s, None, CancelOpen(jobs), {})
     /\ repeated' = (repeated \/ (row # None /\ p \in row.sent))
     /\ UNCHANGED <<blocked, acts, faults, disturbed>>

-----------------------------------------------------------------------------
(* Scheduled jobs: claim, execution, failure, recovery.                    *)

Others(s) == \E x \in Sessions \ {s} : pc[x] # "idle"

\* claim_scheduled_job
Claim(w, j) ==
  /\ pc[w] = "idle" /\ MayTransact(w)
  /\ jobs[j].status = "pending"
  /\ jobs' = [jobs EXCEPT ![j].status = "running", ![j].attempts = @ + 1]
  /\ pc' = [pc EXCEPT ![w] = "claimed"]
  /\ task' = [task EXCEPT ![w] = j]
  /\ disturbed' = (disturbed \/ Others(w))
  /\ UNCHANGED <<row, blocked, at, attached, error, saved, acts, faults, repeated>>

\* The claim was applied, its answer was lost: the job runs without an executor.
ClaimUnanswered(j) ==
  /\ MayTransact(None) /\ faults < MaxFaults
  /\ jobs[j].status = "pending"
  /\ jobs' = [jobs EXCEPT ![j].status = "running", ![j].attempts = @ + 1]
  /\ faults' = faults + 1
  /\ UNCHANGED <<row, blocked, sessionVars, saved, acts, disturbed, repeated>>

Accepts == row # None /\ ~row.paused /\ ~row.completed

\* Its step is executed although another job is due to try that step again: the
\* timeout of an input outlives the answer, and fires on a later visit.
Overtakes(j) ==
  /\ Accepts /\ row.step = jobs[j].step
  /\ \E k \in JobIds \ {j} : jobs[k].status \in Open /\ jobs[k].attempts > 0

\* Mutant: a job that finds the funnel paused is put back for later.
IgnoresMutant(w) ==
  /\ jobs' = [jobs EXCEPT ![task[w]].status = "pending", ![task[w]].attempts = 0]
  /\ Leaves(w, Copies)
  /\ UNCHANGED row

\* The job is out of date, and done.
Ignores(w) == Finishes(w, row, jobs, Copies)

\* process_scheduled_job in a new session.
Start(w) ==
  LET jb == jobs[task[w]]
      n  == jb.step
      copies == Copies \cup {w}
  IN /\ w \in Workers /\ pc[w] = "claimed" /\ MayTransact(w)
     /\ disturbed' = (disturbed \/ Others(w) \/ Overtakes(task[w]))
     /\ UNCHANGED <<blocked, acts, faults, repeated>>
     /\ IF jb.status # "running"
          THEN /\ Leaves(w, Copies)
               /\ UNCHANGED <<row, jobs>>
        ELSE IF ~Accepts \/ row.step # n
          THEN Ignores(w)
        ELSE CASE jb.type = "sequence" -> Sends(w, row, jobs, n, jb.index, copies)
               [] jb.type = "resume"   -> Enter(w, row, jobs, n, copies)
               [] jb.type = "delay"    -> Branch(w, row, jobs, n, copies)
               [] OTHER -> Branch(w, Upsert(row, n, FALSE, FALSE), jobs, n, copies)

\* Telegram refuses the send, cannot be reached, reports the bot blocked, or
\* accepts and its answer is lost: a read timeout is transient as well.
SendFails(w) ==
  /\ w \in Workers /\ pc[w] = "sending" /\ MayTransact(w) /\ faults < MaxFaults
  /\ \E why \in {"transient", "permanent", "blocked", "unanswered"} :
       /\ error' = [error EXCEPT ![w] = IF why = "unanswered" THEN "transient" ELSE why]
       /\ blocked' = (blocked \/ why = "blocked")
       /\ row' = IF why = "unanswered" THEN Delivered(at[w]) ELSE row
       /\ disturbed' = (disturbed \/ why = "unanswered")
  /\ pc' = [pc EXCEPT ![w] = "failing"]
  /\ faults' = faults + 1
  /\ UNCHANGED <<jobs, task, at, attached, saved, acts, repeated>>

\* The row when a session breaks off: Telegram may have accepted what it was
\* sending, and nobody has recorded it.
BrokenOff(s) == {row} \cup (IF pc[s] = "sending" THEN {Delivered(at[s])} ELSE {})

\* Any other exception, the 300 s of the execution included.
JobFails(w) ==
  /\ w \in Workers /\ pc[w] \in {"claimed", "sending"} /\ MayTransact(w)
  /\ faults < MaxFaults
  /\ row' \in BrokenOff(w)
  /\ error' = [error EXCEPT ![w] = "other"]
  /\ pc' = [pc EXCEPT ![w] = "failing"]
  /\ faults' = faults + 1
  /\ UNCHANGED <<blocked, jobs, task, at, attached, saved, acts, disturbed, repeated>>

\* Mutants: the failed item is forgotten; the transition since is forgotten.
RetryAtMutant1(w) ==
  LET jb == jobs[task[w]]
  IN IF row.step = jb.step THEN jb
     ELSE [jb EXCEPT !.type = "resume", !.step = row.step, !.index = 0]
RetryAtMutant2(w) ==
  LET jb == jobs[task[w]]
      p  == at[w]
  IN IF Kind[p.step] = "message" /\ row.step = p.step
       THEN [jb EXCEPT !.type = "sequence", !.step = p.step, !.index = p.index]
     ELSE jb

\* Where a requeued job goes on: at the item that failed, at its own step, or
\* at the step the chat has committed to since.
RetryAt(w) ==
  LET jb == jobs[task[w]]
      p  == at[w]
  IN IF Kind[p.step] = "message" /\ row.step = p.step
       THEN [jb EXCEPT !.type = "sequence", !.step = p.step, !.index = p.index]
     ELSE IF row.step = jb.step THEN jb
     ELSE [jb EXCEPT !.type = "resume", !.step = row.step, !.index = 0]

\* Mutant: the attempt that has just been made is not counted.
AttemptsLeftMutant(j) == jobs[j].attempts <= MaxAttempts

AttemptsLeft(j) == jobs[j].attempts < MaxAttempts

MayRetry(w) == error[w] = "transient" /\ AttemptsLeft(task[w]) /\ Accepts

\* The row is resolved only if nobody has closed or cancelled it meanwhile.
StillRuns(j) == jobs[j].status = "running"

\* _resolve_delivery_failure, in a session of its own.  A user who has blocked
\* the bot is no failure: the job is cancelled, and there is no alert.
ResolveDelivery(w) ==
  LET j == task[w]
  IN /\ w \in Workers /\ pc[w] = "failing" /\ error[w] # "other" /\ MayTransact(w)
     /\ IF ~StillRuns(j)
          THEN row' = Reported(row) /\ UNCHANGED jobs
        ELSE IF MayRetry(w)
          THEN /\ jobs' = [jobs EXCEPT ![j] = [RetryAt(w) EXCEPT !.status = "pending"]]
               /\ UNCHANGED row
        ELSE IF error[w] = "blocked"
          THEN jobs' = [jobs EXCEPT ![j].status = "cancelled"] /\ row' = Untold(row)
        ELSE jobs' = [jobs EXCEPT ![j].status = "failed"] /\ row' = Reported(row)
     /\ Leaves(w, Copies)
     /\ UNCHANGED <<blocked, acts, faults, disturbed, repeated>>

\* _mark_job_failed: unconditional.
ResolveOther(w) ==
  /\ w \in Workers /\ pc[w] = "failing" /\ error[w] = "other" /\ MayTransact(w)
  /\ jobs' = [jobs EXCEPT ![task[w]].status = "failed"]
  /\ row' = Reported(row)
  /\ Leaves(w, Copies)
  /\ UNCHANGED <<blocked, acts, faults, disturbed, repeated>>

\* What a job that is executed from its beginning sends first.
FirstItem(jb) ==
  [step |-> jb.step, index |-> IF jb.type = "sequence" THEN jb.index
                               ELSE IF Kind[jb.step] = "message" THEN 1 ELSE 0]

\* Its executor is lost, the job will be executed once more, and begins with an
\* item that Telegram has accepted on this visit (r: the row by then).
Replays(w, r) ==
  LET jb == jobs[task[w]]
  IN /\ StillRuns(task[w]) /\ AttemptsLeft(task[w])
     /\ jb.type \in {"sequence", "resume"}
     /\ r # None /\ FirstItem(jb) \in r.sent

\* The process dies: the job stays running, unless it was deleted meanwhile.
WorkerDies(w) ==
  /\ w \in Workers /\ pc[w] # "idle" /\ MayTransact(w) /\ faults < MaxFaults
  /\ faults' = faults + 1
  /\ \E r \in BrokenOff(w) :
       /\ row' = IF StillRuns(task[w]) THEN r ELSE Untold(r)
       /\ disturbed' = (disturbed \/ Replays(w, r))
  /\ Leaves(w, Copies)
  /\ UNCHANGED <<blocked, jobs, acts, repeated>>

\* "failure_status_persisted": False.  There is an alert; the job stays running.
OutcomeLost(w) ==
  /\ w \in Workers /\ pc[w] = "failing" /\ MayTransact(w) /\ faults < MaxFaults
  /\ faults' = faults + 1
  /\ row' = Reported(row)
  /\ disturbed' = (disturbed \/ Replays(w, row))
  /\ Leaves(w, Copies)
  /\ UNCHANGED <<blocked, jobs, acts, repeated>>

\* recover_stale_running_jobs, 900 s after the claim, which is more than an
\* execution can last.  The job keeps its type, step and index, whatever has been
\* sent of it; run_once alerts that there were such jobs.
Recover(j) ==
  /\ jobs[j].status = "running" /\ MayTransact(None)
  /\ \A w \in Workers : task[w] # j
  /\ jobs' = [jobs EXCEPT ![j].status = IF AttemptsLeft(j) THEN "pending" ELSE "failed"]
  /\ row' = Reported(row)
  /\ UNCHANGED <<blocked, sessionVars, saved, acts, faults, disturbed, repeated>>

-----------------------------------------------------------------------------
(* What the user sends: messages, buttons, commands.                       *)

\* An idle handler takes the next update or queued input of the chat.
Begins(s) ==
  /\ pc[s] = "idle" /\ MayTransact(s) /\ acts < MaxActs
  /\ acts' = acts + 1
  /\ UNCHANGED <<blocked, faults, repeated>>

\* Somebody else is at work on the chat, or due to try again.
Interrupts(s) ==
  \/ Others(s)
  \/ \E j \in JobIds : jobs[j].status \in Open /\ jobs[j].attempts > 0

Marked(n) == row.marker # None /\ row.marker.step = n

\* process_incoming_message while an item of a message step waits.
AnswerItem(s) ==
  LET n == row.step
      r == Upsert(row, n, FALSE, FALSE)
      copies == Copies \cup {s}
  IN /\ s \in Inbounds \ Callbacks /\ Begins(s)
     /\ Accepts /\ row.waiting /\ Kind[n] = "message" /\ Marked(n)
     /\ \/ PlayAfter(s, r, jobs, n, row.marker.index, copies)
        \/ \E m \in Follow[n] : Enter(s, MoveTo(r, m, FALSE), jobs, m, copies)
     /\ disturbed' = (disturbed \/ Interrupts(s))

\* process_incoming_message or process_incoming_button at an input step: an
\* answer that is not valid, a valid one, or the last retry is used up.
AnswerInput(s) ==
  LET n == row.step
  IN /\ s \in Inbounds /\ Begins(s)
     /\ Accepts /\ Kind[n] = "input"
     /\ \/ Sends(s, row, jobs, n, 1, Copies \cup {s})
        \/ Branch(s, Upsert(row, n, FALSE, FALSE), jobs, n, Copies \cup {s})
     /\ disturbed' = (disturbed \/ Interrupts(s))

\* The user can press a button as soon as Telegram has its message.
Shown(p) == p \in row.sent \/ \E s \in Sessions : pc[s] = "sending" /\ at[s] = p

\* process_incoming_button at a message step: it does not ask whether the
\* step waits, only whether it waits at another item.
PressButton(s) ==
  LET n == row.step
      r == Upsert(row, n, FALSE, FALSE)
      copies == Copies \cup {s}
  IN /\ s \in Callbacks /\ Begins(s)
     /\ Accepts /\ Kind[n] = "message"
     /\ \E i \in DOMAIN Script[n] :
          /\ Script[n][i] = "waits" /\ Shown([step |-> n, index |-> i])
          /\ Marked(n) => row.marker.index = i
          /\ \/ IF Marked(n) THEN PlayAfter(s, r, jobs, n, i, copies)
                             ELSE MoveOn(s, r, jobs, n, copies)
             \/ \E m \in Follow[n] : Enter(s, MoveTo(r, m, FALSE), jobs, m, copies)
     /\ disturbed' = (disturbed \/ Interrupts(s) \/ ~row.waiting)

\* start_funnel_for_chat: not while a funnel is active; it cancels no job.
StartFunnel(s) ==
  /\ s \in Inbounds \ Callbacks /\ Begins(s)
  /\ row # None => row.completed
  /\ Enter(s, FreshRow(First), jobs, First, Copies \cup {s})
  /\ disturbed' = (disturbed \/ Interrupts(s))

\* execute_custom_command_for_chat: whatever the funnel is doing.
Command(s) ==
  /\ s \in Inbounds \ Callbacks /\ Begins(s)
  /\ Enter(s, FreshRow(First), CancelPending(jobs), First, Copies \cup {s})
  /\ disturbed' = (disturbed \/ Interrupts(s))

\* /start after 30 days: the state is deleted and the funnel starts anew.
Restart(s) ==
  /\ s \in Inbounds \ Callbacks /\ Begins(s)
  /\ row # None
  /\ Enter(s, FreshRow(First), CancelOpen(jobs), First, {s})
  /\ disturbed' = (disturbed \/ Interrupts(s))

\* The handler's send fails, or its process dies: the update or the dispatch is
\* put before a human.  What the handler of a button raises is only logged.
HandlerDies(s) ==
  /\ s \in Inbounds /\ pc[s] # "idle" /\ MayTransact(s) /\ faults < MaxFaults
  /\ faults' = faults + 1
  /\ \E r \in BrokenOff(s) :
       row' \in {Reported(r)} \cup (IF s \in Callbacks THEN {Untold(r)} ELSE {})
  /\ Leaves(s, Copies)
  /\ UNCHANGED <<blocked, jobs, acts, disturbed, repeated>>

-----------------------------------------------------------------------------
(* Managers and Telegram.                                                  *)

PausedRow == [row EXCEPT !.paused = TRUE]

\* pause_for_manager_takeover, .._reply, pause_for_external_account_message:
\* one transaction that does not touch the step or what it waits for.
Pause ==
  /\ MayTransact(None) /\ acts < MaxActs /\ Accepts
  /\ acts' = acts + 1
  /\ row' = PausedRow
  /\ jobs' = CancelPending(jobs)
  /\ UNCHANGED <<blocked, sessionVars, saved, faults, disturbed, repeated>>

\* set_blocked_by_user: the user blocks the bot (and pauses an active funnel),
\* or lets it in again (which resumes nothing).
Block ==
  /\ MayTransact(None) /\ acts < MaxActs /\ ~blocked
  /\ acts' = acts + 1
  /\ blocked' = TRUE
  /\ row' = IF Accepts THEN PausedRow ELSE row
  /\ jobs' = IF Accepts THEN CancelPending(jobs) ELSE jobs
  /\ UNCHANGED <<sessionVars, saved, faults, disturbed, repeated>>

Unblock ==
  /\ MayTransact(None) /\ acts < MaxActs /\ blocked
  /\ acts' = acts + 1
  /\ blocked' = FALSE
  /\ UNCHANGED <<row, jobs, sessionVars, saved, faults, disturbed, repeated>>

ResumedRow(n) == [MoveTo(row, n, FALSE) EXCEPT !.paused = FALSE, !.marker = None]

\* resume_funnel_from_manager: approves the current step, or names another.
Resume(m) ==
  /\ m \in Managers /\ Begins(m)
  /\ row # None /\ ~row.completed
  /\ \/ /\ row.paused
        /\ MoveOn(m, ResumedRow(row.step), CancelPending(jobs), row.step, Copies \cup {m})
     \/ \E n \in Steps : Enter(m, ResumedRow(n), CancelPending(jobs), n, Copies \cup {m})
  /\ disturbed' = (disturbed \/ Interrupts(m))

\* A send of the request fails: the whole transaction is rolled back.
ResumeFails(m) ==
  /\ m \in Managers /\ pc[m] # "idle" /\ faults < MaxFaults
  /\ faults' = faults + 1
  /\ row' = saved.row
  /\ jobs' = saved.jobs
  /\ Leaves(m, Copies)
  /\ UNCHANGED <<blocked, acts, disturbed, repeated>>

-----------------------------------------------------------------------------
Next ==
  \/ \E s \in Sessions : SendOk(s)
  \/ \E w \in Workers :
       \/ Start(w) \/ SendFails(w) \/ JobFails(w)
       \/ ResolveDelivery(w) \/ ResolveOther(w) \/ WorkerDies(w) \/ OutcomeLost(w)
       \/ \E j \in JobIds : Claim(w, j)
  \/ \E j \in JobIds : ClaimUnanswered(j) \/ Recover(j)
  \/ \E s \in Inbounds :
       \/ AnswerItem(s) \/ AnswerInput(s) \/ PressButton(s)
       \/ StartFunnel(s) \/ Command(s) \/ Restart(s) \/ HandlerDies(s)
  \/ Pause \/ Block \/ Unblock
  \/ \E m \in Managers : Resume(m) \/ ResumeFails(m)

Fairness ==
  /\ \A s \in Sessions : WF_vars(SendOk(s))
  /\ \A w \in Workers :
       WF_vars(Start(w)) /\ WF_vars(ResolveDelivery(w)) /\ WF_vars(ResolveOther(w))
  /\ \A j \in JobIds : WF_vars(\E w \in Workers : Claim(w, j)) /\ WF_vars(Recover(j))

Spec == Init /\ [][Next]_vars
FairSpec == Spec /\ Fairness

-----------------------------------------------------------------------------
(* Properties.                                                             *)

\* No item of a step is sent twice on one visit of the chat to that step, however
\* often jobs are retried, requeued elsewhere, recovered and cancelled, unless
\*  - two sessions were at work at once, or somebody acted or an old timeout fired
\*    while a job was due to be tried again;
\*  - a button of an item nobody waited at was pressed;
\*  - Telegram accepted a send and its answer was lost: the send is tried again;
\*  - an executor was lost, with its process or with the outcome it could not
\*    persist, when Telegram had accepted the first item of its job: the job is
\*    recovered as it was, and sends that item and what follows it again, also
\*    what is recorded as sent.
\* Every other failure, death, retry and recovery goes on where it stopped.
NoRepeatUnlessDisturbed == repeated => disturbed

\* While the funnel of a chat is active, it waits for the user, or somebody is at
\* work, or a job of the chat's present step is pending, or a job is running and
\* will be recovered if its executor is gone.  Otherwise a failure on this visit
\* was handed to the alert or to review, or one of the three the code tells
\* nobody of has happened: the handler of a button raised, which is only logged;
\* Telegram called the bot blocked and the job was cancelled; an executor died
\* whose job had been deleted under it.  A failure of any other kind, a death, a
\* stale job and a transition in the middle of a job never stop a chat unnoticed.
StallIsAccountedFor ==
  Accepts /\ ~blocked =>
    \/ row.waiting \/ Kind[row.step] = "input"
    \/ \E s \in Sessions : pc[s] # "idle"
    \/ \E j \in JobIds : \/ jobs[j].status = "pending" /\ jobs[j].step = row.step
                         \/ jobs[j].status = "running"
    \/ row.reported \/ row.untold

Quiet == /\ \A s \in Workers \cup Inbounds : pc[s] = "idle"
         /\ \A j \in JobIds : jobs[j].status \in Closed

\* A manager's takeover, a block and every other pause end in silence: what is
\* under way runs out, the jobs it leaves behind and those that crashed
\* executors left running are spent, unless somebody resumes the funnel.
PausedGoesQuiet ==
  (row # None /\ row.paused) ~> (Quiet \/ row = None \/ ~row.paused)
=============================================================================
