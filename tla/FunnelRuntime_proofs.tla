------------------------ MODULE FunnelRuntime_proofs -------------------------
(***************************************************************************)
(* Proofs about FunnelRuntime, for any funnel, executors, jobs and limits. *)
(*                                                                         *)
(* The inductive invariant says of the row and the jobs, and of the ones a *)
(* rollback would restore, that somebody answers for the present step      *)
(* (GoesInv), that nothing of this visit has been sent that is still to be *)
(* sent (VisitInv), and that the job of a worker, when it is recovered,    *)
(* sends nothing again either or begins with what has been sent (HeldInv), *)
(* the last two unless the chat was disturbed.                             *)
(*                                                                         *)
(* A transaction is a composition of operators, so the lemmas go the same  *)
(* way: how it ends (LeaveStep, FinishStep, SendStep), what executes the   *)
(* funnel up to there (PlayStep, EnterStep, MoveOnStep, BranchStep), then  *)
(* one lemma for each action.                                              *)
(***************************************************************************)
EXTENDS FunnelRuntime, TLAPS

Item(n, i) == Kind[n] = "message" /\ i \in Nat /\ 1 <= i /\ i <= Len(Script[n])

\* What a session that sends, or has failed to, may have tried to send.
CouldSend(s, n, i) ==
  /\ n \in Steps /\ Kind[n] # "delay"
  /\ Kind[n] = "message" => Item(n, i)
  /\ Kind[n] # "message" => i = 0 \/ (i = 1 /\ Kind[n] = "input" /\ s \notin Workers)

Sent(s) == pc[s] = "sending" \/ (pc[s] = "failing" /\ error[s] # "other")

SessInv ==
  /\ \A s \in Sessions : Sent(s) =>
       at[s] \in Positions /\ CouldSend(s, at[s].step, at[s].index)
  /\ \A v, w \in Workers : task[v] # None /\ task[v] = task[w] => v = w
  /\ \A s \in Sessions \ Workers : task[s] = None /\ pc[s] \in {"idle", "sending"}
  /\ \A m1, m2 \in Managers : pc[m1] # "idle" /\ pc[m2] # "idle" => m1 = m2
  /\ (saved = None) <=> (\A m \in Managers : pc[m] = "idle")

\* A job by itself.
JobOK(job) ==
  /\ job.status = "pending" => job.attempts < MaxAttempts
  /\ job.status = "running" => job.attempts > 0
  /\ job.type = "resume" /\ job.status \in Open => job.attempts > 0
  /\ job.type = "sequence" => Item(job.step, job.index)
  /\ job.type = "delay" => Kind[job.step] = "delay"
  /\ job.type = "timeout" => Kind[job.step] = "input"

RowOK(r) == r # None => (r.marker # None => Item(r.marker.step, r.marker.index))

\* A row and jobs that a transaction may leave, or a rollback restore.
Stored(r, js) ==
  /\ r \in Rows \cup {None} /\ js \in [JobIds -> Jobs]
  /\ RowOK(r) /\ \A j \in JobIds : JobOK(js[j])
  /\ \A w \in Workers : task[w] # None => js[task[w]].status # "pending"

StoreInv == Stored(row, jobs) /\ (saved # None => Stored(saved.row, saved.jobs))

\* The step is left only by somebody at work on it, or by a job: one that is
\* pending, or one that is running without an executor and will be recovered.
Needs(r) ==
  /\ r # None
  /\ ~r.paused /\ ~r.completed /\ ~r.reported /\ ~r.untold /\ ~r.waiting /\ Kind[r.step] # "input"
Works(s, r, js) ==
  \/ pc[s] = "sending" /\ at[s].step = r.step
  \/ pc[s] = "failing"
  \/ pc[s] = "claimed" /\ js[task[s]].status = "running" /\ js[task[s]].step = r.step
Due(r, js) ==
  \E j \in JobIds : \/ js[j].status = "pending" /\ js[j].step = r.step
                    \/ js[j].status = "running" /\ \A w \in Workers : task[w] # j
Goes(r, js, S) == Needs(r) => (\E s \in S : Works(s, r, js)) \/ Due(r, js)

GoesInv ==
  /\ Goes(row, jobs, Sessions)
  /\ saved # None => Goes(saved.row, saved.jobs, Sessions \ Managers)

\* The jobs that can still send, but for the timeouts: they start a new visit.
Sending(js) == {j \in JobIds : js[j].status \in Open /\ js[j].type # "timeout"}
Left(js, s) == {j \in Sending(js) : task[s] # j}
Ready(js)   == {j \in Sending(js) : \A w \in Workers : task[w] = j => pc[w] = "claimed"}

\* Position i of step n has not been sent on this visit, nor what follows it.
Fits(r, n, i) ==
  /\ r # None /\ r.step = n /\ ~r.completed
  /\ Kind[n] = "message" => ~r.waiting /\ \A p \in r.sent : p.index < i
  /\ Kind[n] # "message" /\ i = 0 => r.sent = {}

Suits(r, job) ==
  /\ r # None /\ r.step = job.step /\ ~r.completed
  /\ Kind[r.step] = "message" => ~r.waiting
  /\ job.type = "sequence" => \A p \in r.sent : p.index < job.index
  /\ job.type = "resume" => r.sent = {}

\* A job that has been tried, of a step that the chat has left: it is ignored.
Stale(r, job) == job.attempts > 0 /\ (r = None \/ r.completed \/ r.step # job.step)
May(r, job)   == Suits(r, job) \/ Stale(r, job)

\* It is not tried again.
Spent(job) == job.status = "running" /\ ~(job.attempts < MaxAttempts)

\* What it begins with has been sent.
Begun(r, job) ==
  r # None /\ job.type \in {"sequence", "resume"} /\ FirstItem(job) \in r.sent

VisitRow(r) ==
  r # None =>
    /\ \A p \in r.sent : p.step = r.step /\ (Kind[r.step] # "message" => p.index = 0)
    /\ r.waiting /\ Kind[r.step] = "message" =>
         r.marker # None /\ r.marker.step = r.step /\ \A p \in r.sent : p.index <= r.marker.index

Visit(r, js, J) ==
  /\ VisitRow(r)
  /\ \A j, k \in J : j = k
  /\ \A j \in J : May(r, js[j]) \/ Spent(js[j])

VisitInv ==
  ~disturbed =>
    /\ ~repeated
    /\ \A s, u \in Sessions : pc[s] # "idle" /\ pc[u] # "idle" => s = u
    /\ Visit(row, jobs, Ready(jobs))
    /\ saved # None => Visit(saved.row, saved.jobs, Ready(saved.jobs))
    /\ \A s \in Sessions : Sent(s) => Fits(row, at[s].step, at[s].index) /\ Ready(jobs) = {}

\* Between the first item of its job and the one a worker sends, nothing is left out.
Reached(r, n, i, job) ==
  /\ May(r, job) \/ Begun(r, job)
  /\ n = job.step /\ job.type \in {"sequence", "resume"} /\ FirstItem(job).index < i
       => FirstItem(job) \in r.sent

HeldInv ==
  ~disturbed => \A w \in Workers : task[w] \in Sending(jobs) =>
    /\ pc[w] = "claimed" => May(row, jobs[task[w]])
    /\ pc[w] = "sending" => Reached(row, at[w].step, at[w].index, jobs[task[w]])
    /\ pc[w] = "failing" => /\ May(row, jobs[task[w]]) \/ Begun(row, jobs[task[w]])
                            /\ Ready(jobs) = {}

IInv == TypeOK /\ SessInv /\ StoreInv /\ GoesInv /\ VisitInv /\ HeldInv

-----------------------------------------------------------------------------
(* How a transaction ends.                                                 *)

\* Session s acts; what its action says beside the row, the jobs and itself.
Acting(s) ==
  /\ MayTransact(s)
  /\ s \in Workers => pc[s] # "idle"
  /\ blocked' \in BOOLEAN /\ acts' \in 0..MaxActs /\ faults' \in 0..MaxFaults
  /\ disturbed' \in BOOLEAN /\ repeated' \in BOOLEAN
  /\ ~disturbed' => ~disturbed /\ ~Others(s) /\ ~repeated'

LEMMA ManagersRest ==
  ASSUME IInv, NEW s \in Sessions, MayTransact(s)
  PROVE  /\ \A m \in Managers : m # s => pc[m] = "idle"
         /\ s \notin Managers => saved = None
  BY DEF MayTransact, IInv, SessInv

LEMMA OthersRest ==
  ASSUME IInv, NEW s \in Sessions, ~Others(s)
  PROVE  \A w \in Workers : w # s => pc[w] = "idle" /\ task[w] = None
  BY NoneAssumption DEF Others, IInv, TypeOK, Sessions

\* The session goes idle; it leaves a row and jobs that are in order.
LEMMA LeaveStep ==
  ASSUME IInv, NEW s \in Sessions, NEW c, Acting(s), Leaves(s, c),
         row' \in Rows \cup {None}, jobs' \in [JobIds -> Jobs], RowOK(row'),
         \A j \in JobIds : JobOK(jobs'[j]),
         \A w \in Workers : w # s /\ task[w] # None => jobs'[task[w]].status # "pending",
         \/ Goes(row', jobs', Sessions \ {s})
         \/ s \in Workers /\ jobs'[task[s]].status = "running",
         ~disturbed' => Visit(row', jobs', Sending(jobs'))
  PROVE  IInv'
<1>1. \A x \in Sessions : x # s =>
        /\ pc'[x] = pc[x] /\ task'[x] = task[x] /\ at'[x] = at[x] /\ error'[x] = error[x]
  BY DEF Leaves, IInv, TypeOK
<1>2. pc'[s] = "idle" /\ task'[s] = None /\ error'[s] = "none"
  BY DEF Leaves, IInv, TypeOK
<1>3. saved' = None
  BY ManagersRest DEF Leaves, Acting
<1>4. TypeOK'
  <2>1. /\ pc' \in [Sessions -> {"idle", "claimed", "sending", "failing"}]
        /\ task' \in [Sessions -> JobIds \cup {None}]
        /\ at' \in [Sessions -> Positions \cup {None}]
    BY DEF Leaves, IInv, TypeOK
  <2>2. /\ attached' \in [Sessions -> BOOLEAN]
        /\ error' \in [Sessions -> {"none", "transient", "permanent", "blocked", "other"}]
    BY DEF Leaves, IInv, TypeOK
  <2>3. \A w \in Workers : pc'[w] # "idle" <=> task'[w] \in JobIds
    BY <1>1, <1>2, NoneAssumption DEF IInv, TypeOK, Sessions
  <2>4. \A j \in JobIds : jobs'[j].status = "pending" => jobs'[j].attempts < MaxAttempts
    BY DEF JobOK
  <2>5. QED
    BY <2>1, <2>2, <2>3, <2>4, <1>3 DEF TypeOK, Acting
<1>5. SessInv'
  <2>1. \A x \in Sessions : Sent(x)' => x # s /\ Sent(x)
    BY <1>1, <1>2 DEF Sent
  <2>2. \A x \in Sessions : Sent(x)' =>
          at'[x] \in Positions /\ CouldSend(x, at'[x].step, at'[x].index)
    BY <2>1, <1>1 DEF IInv, SessInv
  <2>3. \A v, w \in Workers : task'[v] # None /\ task'[v] = task'[w] => v = w
    BY <1>1, <1>2 DEF IInv, SessInv, Sessions
  <2>4. \A x \in Sessions \ Workers : task'[x] = None /\ pc'[x] \in {"idle", "sending"}
    BY <1>1, <1>2 DEF IInv, SessInv
  <2>5. \A m \in Managers : pc'[m] = "idle"
    BY <1>1, <1>2, ManagersRest DEF Acting, Sessions
  <2>6. QED
    BY <2>2, <2>3, <2>4, <2>5, <1>3 DEF SessInv, CouldSend, Item
<1>6. StoreInv'
  <2>1. \A w \in Workers : task'[w] # None => jobs'[task'[w]].status # "pending"
    BY <1>1, <1>2 DEF Sessions
  <2>2. QED
    BY <2>1, <1>3 DEF StoreInv, Stored, RowOK, JobOK, Item
<1>7. GoesInv'
  <2>1. \A x \in Sessions \ {s} : Works(x, row', jobs') => Works(x, row, jobs)'
    BY <1>1 DEF Works
  <2>2. \A w \in Workers : \A j \in JobIds : task[w] # j => task'[w] # j
    BY <1>1, <1>2, NoneAssumption DEF Sessions
  <2>3. Due(row', jobs') => Due(row, jobs)'
    BY <2>2 DEF Due
  <2>4. CASE Goes(row', jobs', Sessions \ {s})
    BY <2>1, <2>3, <2>4, <1>3 DEF GoesInv, Goes, Needs
  <2>5. CASE s \in Workers /\ jobs'[task[s]].status = "running"
    <3>1. task[s] \in JobIds
      BY <2>5 DEF Acting, IInv, TypeOK
    <3>2. \A w \in Workers : task'[w] # task[s]
      BY <1>1, <1>2, <2>5, <3>1, NoneAssumption DEF IInv, SessInv, Sessions
    <3>3. Due(row, jobs)'
      BY <2>5, <3>1, <3>2 DEF Due
    <3>4. QED
      BY <1>3, <3>3 DEF GoesInv, Goes
  <2>6. QED
    BY <2>4, <2>5
<1>8. VisitInv'
  <2> SUFFICES ASSUME ~disturbed' PROVE VisitInv'
    BY DEF VisitInv
  <2>1. \A x \in Sessions : pc'[x] = "idle"
    BY <1>1, <1>2 DEF Acting, Others
  <2>2. Ready(jobs)' \subseteq Sending(jobs')
    BY DEF Ready, Sending
  <2>3. Visit(row', jobs', Ready(jobs)')
    BY <2>2 DEF Visit
  <2>4. QED
    BY <2>1, <2>3, <1>3 DEF VisitInv, Sent, Visit, VisitRow, Suits, May, Stale, Spent, Acting
<1>9. HeldInv'
  <2> SUFFICES ASSUME ~disturbed', NEW w \in Workers PROVE task'[w] \notin JobIds
    BY DEF HeldInv, Sending
  <2>1. pc'[w] = "idle"
    BY <1>1, <1>2 DEF Acting, Others, Sessions
  <2>2. QED
    BY <1>4, <2>1 DEF TypeOK
<1>10. QED
  BY <1>4, <1>5, <1>6, <1>7, <1>8, <1>9 DEF IInv

\* Its last transaction, with row r and jobs js.
LEMMA FinishStep ==
  ASSUME IInv, NEW s \in Sessions, NEW r, NEW js, NEW c, Acting(s), Finishes(s, r, js, c),
         Stored(r, js), Goes(r, js, Sessions \ {s}),
         ~disturbed' => Visit(r, js, Left(js, s))
  PROVE  IInv'
<1>1. CASE s \notin Workers
  <2>1. row' = r /\ jobs' = js /\ Leaves(s, c) /\ task[s] = None
    BY <1>1 DEF Finishes, IInv, SessInv
  <2>2. Left(js, s) = Sending(js)
    BY <2>1, NoneAssumption DEF Left, Sending
  <2>3. QED
    BY <2>1, <2>2, LeaveStep DEF Stored
<1>2. CASE s \in Workers
  <2> DEFINE k == task[s]
             ks == [js EXCEPT ![k].status = "done"]
  <2>1. row' = r /\ jobs' = ks /\ Leaves(s, c)
    BY <1>2 DEF Finishes
  <2>2. k \in JobIds /\ js \in [JobIds -> Jobs]
    BY <1>2 DEF Acting, IInv, TypeOK, Stored
  <2>3. ks[k] = [js[k] EXCEPT !.status = "done"] /\ \A j \in JobIds : j # k => ks[j] = js[j]
    BY <2>2
  <2>4. /\ ks[k] \in Jobs /\ ks[k].status = "done" /\ ks[k].step = js[k].step
        /\ ks[k].type = js[k].type /\ ks[k].index = js[k].index
    BY <2>2, <2>3 DEF Jobs, Closed
  <2>5. ks \in [JobIds -> Jobs]
    BY <2>2, <2>4
  <2>6. \A j \in JobIds : JobOK(ks[j])
    BY <2>3, <2>4 DEF Stored, JobOK, Open
  <2>7. \A w \in Workers : w # s /\ task[w] # None => task[w] \in JobIds /\ task[w] # k
    BY <1>2, <2>2, NoneAssumption DEF IInv, TypeOK, SessInv, Sessions
  <2>8. \A w \in Workers : w # s /\ task[w] # None => ks[task[w]].status # "pending"
    BY <2>3, <2>7 DEF Stored
  <2>9. js[k].status # "pending"
    BY <1>2, <2>2, NoneAssumption DEF Stored
  <2>10. \A x \in Sessions \ {s} : Works(x, r, js) => Works(x, r, ks)
    <3> SUFFICES ASSUME NEW x \in Sessions \ {s}, pc[x] = "claimed"
                 PROVE  ks[task[x]] = js[task[x]]
      BY DEF Works
    <3>1. x \in Workers
      BY DEF IInv, SessInv
    <3>2. task[x] \in JobIds /\ task[x] # None
      BY <3>1, NoneAssumption DEF IInv, TypeOK
    <3>3. QED
      BY <3>1, <3>2, <2>3, <2>7
  <2>11. Due(r, js) => Due(r, ks)
    BY <1>2, <2>3, <2>9 DEF Due
  <2>12. Goes(r, ks, Sessions \ {s})
    BY <2>10, <2>11 DEF Goes
  <2>13. /\ Sending(ks) \subseteq Left(js, s)
         /\ \A j \in Sending(ks) : ks[j] = js[j]
    BY <2>3, <2>4 DEF Sending, Left, Open
  <2>14. Visit(r, js, Left(js, s)) => Visit(r, ks, Sending(ks))
    BY <2>13 DEF Visit
  <2>15. QED
    BY <2>1, <2>5, <2>6, <2>8, <2>12, <2>14, LeaveStep DEF Stored
<1>3. QED
  BY <1>1, <1>2

\* It commits row r and jobs js and sends position i of step n.
LEMMA SendStep ==
  ASSUME IInv, NEW s \in Sessions, NEW r, NEW js, NEW n, NEW i \in Nat, NEW c,
         Acting(s), Sends(s, r, js, n, i, c), Stored(r, js), CouldSend(s, n, i),
         (r # None /\ r.step = n) \/ Goes(r, js, Sessions \ {s}),
         ~disturbed' => /\ Visit(r, js, {}) /\ Fits(r, n, i) /\ Left(js, s) = {}
                        /\ task[s] \in Sending(js) => Reached(r, n, i, js[task[s]])
  PROVE  IInv'
<1> DEFINE p == [step |-> n, index |-> i]
<1>1. p \in Positions /\ p.step = n /\ p.index = i
  BY DEF Positions, CouldSend
<1>2. /\ row' = r /\ jobs' = js
      /\ \A x \in Sessions : task'[x] = task[x] /\ error'[x] = error[x]
      /\ \A x \in Sessions : x # s => pc'[x] = pc[x] /\ at'[x] = at[x]
      /\ pc'[s] = "sending" /\ at'[s] = p
  BY DEF Sends, IInv, TypeOK
<1>3. \/ s \notin Managers /\ saved' = None
      \/ s \in Managers /\ saved = None /\ saved' = [row |-> row, jobs |-> jobs]
      \/ s \in Managers /\ saved # None /\ saved' = saved
  BY ManagersRest DEF Sends, Acting
<1>4. saved' \in Snapshots \cup {None} /\ (s \in Managers => saved' # None)
  BY <1>3, NoneAssumption DEF IInv, TypeOK, Snapshots
<1>5. saved' # None =>
        /\ s \in Managers /\ Stored(saved'.row, saved'.jobs)
        /\ Goes(saved'.row, saved'.jobs, Sessions \ Managers)
        /\ ~disturbed => Visit(saved'.row, saved'.jobs, Ready(saved'.jobs))
  <2>1. CASE s \in Managers /\ saved = None
    <3>1. saved' = [row |-> row, jobs |-> jobs] /\ saved'.row = row /\ saved'.jobs = jobs
      BY <1>3, <2>1
    <3>2. \A m \in Managers : ~Works(m, row, jobs)
      BY <2>1 DEF Works, IInv, SessInv
    <3>3. Goes(row, jobs, Sessions \ Managers)
      BY <3>2 DEF IInv, GoesInv, Goes
    <3>4. QED
      BY <2>1, <3>1, <3>3 DEF IInv, StoreInv, VisitInv
  <2>2. CASE s \in Managers /\ saved # None
    BY <1>3, <2>2 DEF IInv, StoreInv, GoesInv, VisitInv
  <2>3. QED
    BY <1>3, <2>1, <2>2
<1>6. TypeOK'
  <2>1. /\ pc' \in [Sessions -> {"idle", "claimed", "sending", "failing"}]
        /\ at' \in [Sessions -> Positions \cup {None}]
    BY <1>1 DEF Sends, IInv, TypeOK
  <2>2. attached' \in [Sessions -> BOOLEAN]
    BY DEF Sends
  <2>3. \A w \in Workers : pc'[w] # "idle" <=> task'[w] \in JobIds
    BY <1>2 DEF IInv, TypeOK, Sessions, Acting
  <2>4. \A j \in JobIds : jobs'[j].status = "pending" => jobs'[j].attempts < MaxAttempts
    BY <1>2 DEF Stored, JobOK
  <2>5. QED
    BY <1>2, <1>4, <2>1, <2>2, <2>3, <2>4 DEF Sends, IInv, TypeOK, Acting, Stored
<1>7. SessInv'
  <2>1. \A x \in Sessions : x # s => (Sent(x)' <=> Sent(x))
    BY <1>2 DEF Sent
  <2>2. \A x \in Sessions : Sent(x)' =>
          at'[x] \in Positions /\ CouldSend(x, at'[x].step, at'[x].index)
    BY <1>1, <1>2, <2>1 DEF IInv, SessInv
  <2>3. \A v, w \in Workers : task'[v] # None /\ task'[v] = task'[w] => v = w
    BY <1>2 DEF IInv, SessInv, Sessions
  <2>4. \A x \in Sessions \ Workers : task'[x] = None /\ pc'[x] \in {"idle", "sending"}
    BY <1>2 DEF IInv, SessInv
  <2>5. \A m1, m2 \in Managers : pc'[m1] # "idle" /\ pc'[m2] # "idle" => m1 = m2
    BY <1>2, ManagersRest DEF Acting, Sessions
  <2>6. (saved' = None) <=> (\A m \in Managers : pc'[m] = "idle")
    BY <1>2, <1>4, <1>5, ManagersRest DEF Acting, Sessions
  <2>7. QED
    BY <2>2, <2>3, <2>4, <2>5, <2>6 DEF SessInv, CouldSend, Item
<1>8. StoreInv'
  BY <1>2, <1>5 DEF StoreInv, Stored, RowOK, JobOK, Item, Sessions
<1>9. GoesInv'
  <2>1. \A x \in Sessions \ {s} : Works(x, r, js) => Works(x, row, jobs)'
    BY <1>2 DEF Works
  <2>2. r # None /\ r.step = n => Works(s, row, jobs)'
    BY <1>1, <1>2 DEF Works
  <2>3. Goes(row, jobs, Sessions)'
    <3>1. \A w \in Workers : task'[w] = task[w]
      BY <1>2 DEF Sessions
    <3>2. Due(r, js) => Due(row, jobs)'
      BY <1>2, <3>1 DEF Due
    <3>3. QED
      BY <1>2, <2>1, <2>2, <3>2 DEF Goes, Needs
  <2>4. ASSUME saved' # None
        PROVE  Goes(saved.row, saved.jobs, Sessions \ Managers)'
    <3>1. \A x \in Sessions \ Managers :
            Works(x, saved'.row, saved'.jobs) => Works(x, saved.row, saved.jobs)'
      BY <1>2, <1>5, <2>4 DEF Works
    <3>2. \A w \in Workers : task'[w] = task[w]
      BY <1>2 DEF Sessions
    <3>3. Due(saved'.row, saved'.jobs) => Due(saved.row, saved.jobs)'
      BY <3>2 DEF Due
    <3>4. QED
      BY <1>5, <2>4, <3>1, <3>3 DEF Goes, Needs
  <2>5. QED
    BY <2>3, <2>4 DEF GoesInv
<1>10. VisitInv'
  <2> SUFFICES ASSUME ~disturbed' PROVE VisitInv'
    BY DEF VisitInv
  <2>1. \A x \in Sessions : x # s => pc'[x] = "idle"
    BY <1>2 DEF Acting, Others
  <2>2. \A w \in Workers : w # s => task[w] = None
    BY OthersRest DEF Acting
  <2>3. Ready(jobs)' = {}
    <3>1. \A j \in JobIds : j \in Ready(jobs)' => j \in Left(js, s)
      <4> SUFFICES ASSUME NEW j \in JobIds, j \in Ready(jobs)', task[s] = j PROVE FALSE
        BY <1>2 DEF Ready, Sending, Left
      <4>1. s \in Workers
        BY NoneAssumption DEF IInv, SessInv
      <4>2. task'[s] = j /\ pc'[s] = "sending"
        BY <1>2
      <4>3. QED
        BY <4>1, <4>2 DEF Ready
    <3>2. QED
      BY <3>1 DEF Ready, Sending
  <2>4. Visit(row, jobs, Ready(jobs))'
    BY <1>2, <2>3 DEF Visit, VisitRow, Suits, May, Stale, Spent
  <2>5. saved' # None => Visit(saved.row, saved.jobs, Ready(saved.jobs))'
    <3> SUFFICES ASSUME saved' # None PROVE Visit(saved.row, saved.jobs, Ready(saved.jobs))'
      OBVIOUS
    <3>1. s \notin Workers
      BY <1>5, SessionAssumption
    <3>2. \A w \in Workers : pc'[w] = pc[w] /\ task'[w] = task[w]
      BY <1>2, <3>1 DEF Sessions
    <3>3. Ready(saved.jobs)' = Ready(saved'.jobs)
      BY <3>2 DEF Ready, Sending
    <3>4. Visit(saved'.row, saved'.jobs, Ready(saved'.jobs))
      BY <1>5 DEF Acting
    <3>5. QED
      BY <3>3, <3>4 DEF Visit, VisitRow, Suits, May, Stale, Spent
  <2>6. \A x \in Sessions : Sent(x)' => x = s
    BY <2>1 DEF Sent
  <2>7. Fits(row, at[s].step, at[s].index)'
    BY <1>1, <1>2 DEF Fits
  <2>8. QED
    BY <2>1, <2>3, <2>4, <2>5, <2>6, <2>7 DEF VisitInv, Acting
<1>11. HeldInv'
  <2> SUFFICES ASSUME ~disturbed', NEW w \in Workers, task'[w] \in Sending(jobs)'
               PROVE  /\ pc'[w] = "sending"
                      /\ Reached(row, at[w].step, at[w].index, jobs[task[w]])'
    BY DEF HeldInv
  <2>1. pc'[w] # "idle"
    BY <1>6 DEF TypeOK, Sending
  <2>2. w = s
    BY <1>2, <2>1 DEF Acting, Others, Sessions
  <2>3. task[s] \in Sending(js)
    BY <1>2, <2>2 DEF Sending
  <2>4. Reached(r, n, i, js[task[s]])
    BY <2>3
  <2>5. QED
    BY <1>1, <1>2, <2>2, <2>4 DEF Reached, May, Suits, Stale, Begun, FirstItem
<1>12. QED
  BY <1>6, <1>7, <1>8, <1>9, <1>10, <1>11 DEF IInv

-----------------------------------------------------------------------------
(* Values of the row and of the jobs.                                      *)

LEMMA UpsertRow ==
  ASSUME NEW r \in Rows, NEW n \in Steps, NEW waits \in BOOLEAN, NEW completes \in BOOLEAN
  PROVE  LET u == Upsert(r, n, waits, completes) IN
         /\ u \in Rows /\ u.step = n /\ u.waiting = waits /\ u.completed = completes
         /\ u.paused = r.paused /\ u.marker = r.marker /\ u.sent = r.sent
         /\ u.reported = r.reported /\ u.untold = r.untold
  BY DEF Upsert, Rows

LEMMA MoveToRow ==
  ASSUME NEW r \in Rows, NEW n \in Steps, NEW completes \in BOOLEAN
  PROVE  LET u == MoveTo(r, n, completes) IN
         /\ u \in Rows /\ u.step = n /\ ~u.waiting /\ u.sent = {} /\ u.marker = r.marker
<1> DEFINE u == Upsert(r, n, FALSE, completes)
<1>1. /\ u \in Rows /\ u.step = n /\ u.waiting = FALSE /\ u.completed = completes
      /\ u.marker = r.marker
  BY DEF Upsert, Rows
<1>2. MoveTo(r, n, completes) = [u EXCEPT !.sent = {}, !.reported = FALSE, !.untold = FALSE]
  BY DEF MoveTo
<1> HIDE DEF u
<1>3. QED
  BY <1>1, <1>2 DEF Rows

\* What the invariant says of row r, and of jobs beside it, it says of u as well.
Keeps(r, u) ==
  /\ RowOK(r) => RowOK(u)
  /\ VisitRow(r) => VisitRow(u)
  /\ \A job : May(r, job) => May(u, job)
  /\ \A job : Begun(r, job) => Begun(u, job)
  /\ \A n, i : Fits(r, n, i) => Fits(u, n, i)
  /\ \A n, i, job : Reached(r, n, i, job) => Reached(u, n, i, job)

LEMMA KeepsItself == \A r : Keeps(r, r)
  BY DEF Keeps

LEMMA SameVisit ==
  ASSUME NEW r \in Rows, NEW u \in Rows, u.step = r.step, u.marker = r.marker,
         u.sent = r.sent, u.waiting = r.waiting, u.completed = r.completed
  PROVE  Keeps(r, u)
<1>1. r # None /\ u # None
  BY NoneAssumption
<1>2. /\ RowOK(r) => RowOK(u)
      /\ VisitRow(r) => VisitRow(u)
      /\ \A n, i : Fits(r, n, i) => Fits(u, n, i)
  BY <1>1 DEF RowOK, VisitRow, Fits
<1>3. \A job : May(r, job) => May(u, job)
  BY <1>1 DEF May, Suits, Stale
<1>4. \A job : Begun(r, job) => Begun(u, job)
  BY <1>1 DEF Begun
<1>5. \A n, i, job : Reached(r, n, i, job) => Reached(u, n, i, job)
  BY <1>3, <1>4 DEF Reached
<1>6. QED
  BY <1>2, <1>3, <1>4, <1>5 DEF Keeps

\* A failure on this visit becomes known, or goes to nobody.
LEMMA BrokenRow ==
  ASSUME NEW r \in Rows \cup {None}, NEW u \in {Reported(r), Untold(r)}
  PROVE  u \in Rows \cup {None} /\ ~Needs(u) /\ Keeps(r, u)
<1>1. CASE r = None
  BY <1>1, KeepsItself DEF Reported, Untold, Needs
<1>2. CASE r # None
  <2>1. r \in Rows
    BY <1>2
  <2>2. /\ u \in Rows /\ (u.reported \/ u.untold) /\ u.step = r.step /\ u.marker = r.marker
        /\ u.sent = r.sent /\ u.waiting = r.waiting /\ u.completed = r.completed
    <3>1. CASE u = Reported(r)
      BY <1>2, <2>1, <3>1 DEF Rows, Reported
    <3>2. CASE u = Untold(r)
      BY <1>2, <2>1, <3>2 DEF Rows, Untold
    <3>3. QED
      BY <3>1, <3>2
  <2>3. QED
    BY <2>1, <2>2, SameVisit DEF Needs
<1>3. QED
  BY <1>1, <1>2

PausedOf(r) == [r EXCEPT !.paused = TRUE]

LEMMA PausedOfRow ==
  ASSUME NEW r \in Rows
  PROVE  LET u == PausedOf(r) IN
         /\ u \in Rows /\ u # None /\ ~Needs(u) /\ u.step = r.step /\ u.marker = r.marker
         /\ u.sent = r.sent /\ u.waiting = r.waiting /\ u.completed = r.completed
  BY NoneAssumption DEF PausedOf, Rows, Needs

\* Jobs ks are jobs js, some of them cancelled.
Pruned(js, ks) ==
  /\ ks = [j \in JobIds |-> ks[j]]
  /\ \A j \in JobIds : ks[j] = js[j] \/ ks[j] = [js[j] EXCEPT !.status = "cancelled"]

LEMMA PrunedJobs ==
  ASSUME NEW js \in [JobIds -> Jobs], NEW ks, Pruned(js, ks),
         \A j \in JobIds : JobOK(js[j])
  PROVE  /\ ks \in [JobIds -> Jobs]
         /\ \A j \in JobIds : JobOK(ks[j])
         /\ \A j \in JobIds : js[j].status # "pending" => ks[j].status # "pending"
         /\ \A j \in Sending(ks) : j \in Sending(js) /\ ks[j] = js[j]
<1>1. \A j \in JobIds :
        /\ ks[j] \in Jobs /\ JobOK(ks[j])
        /\ js[j].status # "pending" => ks[j].status # "pending"
        /\ ks[j].status \in Open => ks[j] = js[j]
  <2> TAKE j \in JobIds
  <2>1. js[j] \in Jobs /\ JobOK(js[j])
    OBVIOUS
  <2> DEFINE k == [js[j] EXCEPT !.status = "cancelled"]
  <2>2. /\ k \in Jobs /\ k.status = "cancelled" /\ k.step = js[j].step /\ k.type = js[j].type
        /\ k.index = js[j].index /\ k.attempts = js[j].attempts
    BY <2>1 DEF Jobs, Closed
  <2>3. JobOK(k) /\ k.status \notin Open
    BY <2>1, <2>2 DEF JobOK, Open
  <2>4. QED
    BY <2>1, <2>2, <2>3 DEF Pruned
<1>2. ks \in [JobIds -> Jobs]
  <2>1. ks = [j \in JobIds |-> ks[j]]
    BY DEF Pruned
  <2>2. QED
    BY <1>1, <2>1
<1>3. QED
  BY <1>1, <1>2 DEF Sending

LEMMA CancelsPrune ==
  ASSUME NEW js \in [JobIds -> Jobs], NEW type, NEW n
  PROVE  /\ Pruned(js, CancelPending(js)) /\ Pruned(js, CancelOpen(js))
         /\ Pruned(js, CancelSame(js, type, n))
         /\ \A j \in JobIds : CancelPending(js)[j].status # "pending"
         /\ \A j \in JobIds : CancelOpen(js)[j].status \notin Open
         /\ \A j \in JobIds : js[j].step # n \/ js[j].status # "pending" =>
              CancelSame(js, type, n)[j] = js[j]
<1>1. \A j \in JobIds : [js[j] EXCEPT !.status = "cancelled"].status = "cancelled"
  BY DEF Jobs
<1>2. /\ CancelPending(js) = [j \in JobIds |-> CancelPending(js)[j]]
      /\ CancelOpen(js) = [j \in JobIds |-> CancelOpen(js)[j]]
      /\ CancelSame(js, type, n) = [j \in JobIds |-> CancelSame(js, type, n)[j]]
  <2>1. CancelPending(js) = [j \in JobIds |-> CancelPending(js)[j]]
    BY DEF CancelPending
  <2>2. CancelOpen(js) = [j \in JobIds |-> CancelOpen(js)[j]]
    BY DEF CancelOpen
  <2>3. CancelSame(js, type, n) = [j \in JobIds |-> CancelSame(js, type, n)[j]]
    BY DEF CancelSame
  <2>4. QED
    BY <2>1, <2>2, <2>3
<1>3. \A j \in JobIds :
        /\ CancelPending(js)[j].status # "pending"
        /\ \/ CancelPending(js)[j] = js[j]
           \/ CancelPending(js)[j] = [js[j] EXCEPT !.status = "cancelled"]
  BY <1>1 DEF CancelPending
<1>4. \A j \in JobIds :
        /\ CancelOpen(js)[j].status \notin Open
        /\ \/ CancelOpen(js)[j] = js[j]
           \/ CancelOpen(js)[j] = [js[j] EXCEPT !.status = "cancelled"]
  BY <1>1 DEF CancelOpen, Open
<1>5. \A j \in JobIds :
        /\ js[j].step # n \/ js[j].status # "pending" => CancelSame(js, type, n)[j] = js[j]
        /\ \/ CancelSame(js, type, n)[j] = js[j]
           \/ CancelSame(js, type, n)[j] = [js[j] EXCEPT !.status = "cancelled"]
  BY DEF CancelSame
<1>6. QED
  BY <1>2, <1>3, <1>4, <1>5 DEF Pruned

LEMMA ScheduleJobs ==
  ASSUME NEW r, r # None, NEW js, NEW type, NEW n, NEW i, Unused(CancelSame(js, type, n)) # {}
  PROVE  \E k \in JobIds :
           /\ \A w \in Workers : task[w] # k
           /\ CancelSame(js, type, n)[k].status \in Closed
           /\ Schedule(r, js, type, n, i) =
                [CancelSame(js, type, n) EXCEPT ![k] = NewJob(type, n, i)]
<1> DEFINE kept == CancelSame(js, type, n)
           k == CHOOSE j \in Unused(kept) : TRUE
<1>1. k \in Unused(kept)
  OBVIOUS
<1>2. k \in JobIds /\ kept[k].status \in Closed /\ \A w \in Workers : task[w] # k
  BY <1>1 DEF Unused
<1>3. Schedule(r, js, type, n, i) = [kept EXCEPT ![k] = NewJob(type, n, i)]
  BY DEF Schedule
<1>4. QED
  BY <1>2, <1>3

\* The session leaves a job of its step behind.
LEMMA ScheduleStep ==
  ASSUME IInv, NEW s \in Sessions, NEW q, NEW r \in Rows, NEW js, NEW n \in Steps,
         NEW i \in Nat, NEW type \in {"sequence", "delay", "timeout"}, NEW c,
         q # None, Acting(s), Finishes(s, r, Schedule(q, js, type, n, i), c),
         Unused(CancelSame(js, type, n)) # {}, Stored(r, js),
         type = "sequence" => Item(n, i),
         type = "delay" => Kind[n] = "delay",
         type = "timeout" => Kind[n] = "input",
         r.step = n \/ Goes(r, js, Sessions \ {s}),
         ~disturbed' => /\ VisitRow(r) /\ Left(js, s) = {}
                        /\ type = "timeout" \/ Suits(r, NewJob(type, n, i))
  PROVE  IInv'
<1> DEFINE kept == CancelSame(js, type, n)
<1>1. PICK k \in JobIds :
        /\ \A w \in Workers : task[w] # k
        /\ kept[k].status \in Closed
        /\ Schedule(q, js, type, n, i) = [kept EXCEPT ![k] = NewJob(type, n, i)]
  BY ScheduleJobs
<1> DEFINE ks == [kept EXCEPT ![k] = NewJob(type, n, i)]
           new == NewJob(type, n, i)
<1>2. js \in [JobIds -> Jobs] /\ \A j \in JobIds : JobOK(js[j])
  BY DEF Stored
<1>3. Pruned(js, kept)
  BY <1>2, CancelsPrune
<1>4. /\ kept \in [JobIds -> Jobs]
      /\ \A j \in JobIds : JobOK(kept[j])
      /\ \A j \in JobIds : js[j].status # "pending" => kept[j].status # "pending"
      /\ \A j \in Sending(kept) : j \in Sending(js) /\ kept[j] = js[j]
  BY <1>2, <1>3, PrunedJobs
<1>5. /\ new.status = "pending" /\ new.type = type /\ new.step = n /\ new.index = i
      /\ new.attempts = 0
  BY DEF NewJob
<1>6. new \in Jobs /\ JobOK(new)
  <2>1. new \in Jobs
    BY BoundAssumption DEF NewJob, Jobs, JobTypes, Open
  <2>2. JobOK(new)
    BY <1>5, BoundAssumption DEF JobOK
  <2>3. QED
    BY <2>1, <2>2
<1>7. ks \in [JobIds -> Jobs] /\ ks[k] = new /\ \A j \in JobIds : j # k => ks[j] = kept[j]
  BY <1>4, <1>6
<1> HIDE DEF ks, new
<1>8. \A w \in Workers : task[w] # None => task[w] \in JobIds /\ task[w] # k
  BY <1>1 DEF IInv, TypeOK, Sessions
<1>9. Stored(r, ks)
  BY <1>4, <1>6, <1>7, <1>8 DEF Stored
<1>10. Goes(r, ks, Sessions \ {s})
  <2>1. CASE r.step = n
    BY <2>1, <1>5, <1>7 DEF Goes, Due
  <2>2. CASE r.step # n
    <3>1. \A j \in JobIds : js[j].step # n \/ js[j].status # "pending" => kept[j] = js[j]
      BY <1>2, CancelsPrune
    <3>2. \A j \in JobIds : /\ js[j].step = r.step \/ js[j].status = "running"
                            /\ js[j].status \notin Closed
                            => ks[j] = js[j]
      BY <2>2, <3>1, <1>1, <1>7
    <3>3. Due(r, js) => Due(r, ks)
      BY <3>2 DEF Due, Closed
    <3>4. ASSUME NEW x \in Sessions \ {s}, Works(x, r, js) PROVE Works(x, r, ks)
      <4>1. CASE pc[x] = "claimed"
        <5>1. x \in Workers
          BY <4>1 DEF IInv, SessInv
        <5>2. task[x] \in JobIds
          BY <4>1, <5>1 DEF IInv, TypeOK
        <5>3. js[task[x]].status = "running" /\ js[task[x]].step = r.step
          BY <4>1, <3>4 DEF Works
        <5>4. QED
          BY <4>1, <5>2, <5>3, <3>2 DEF Works, Closed
      <4>2. QED
        BY <4>1, <3>4 DEF Works
    <3>5. QED
      BY <2>2, <3>3, <3>4 DEF Goes
  <2>3. QED
    BY <2>1, <2>2
<1>11. ASSUME ~disturbed' PROVE Visit(r, ks, Left(ks, s))
  <2>1. \A j \in Left(ks, s) : j = k
    BY <1>11, <1>4, <1>7 DEF Left, Sending
  <2>2. k \in Left(ks, s) => Suits(r, ks[k])
    <3>1. k \in Left(ks, s) => type # "timeout"
      BY <1>5, <1>7 DEF Left, Sending
    <3>2. ks[k] = NewJob(type, n, i)
      BY <1>7 DEF new
    <3>3. QED
      BY <1>11, <3>1, <3>2
  <2>3. QED
    BY <1>11, <2>1, <2>2 DEF Visit, May
<1>12. QED
  BY <1>1, <1>9, <1>10, <1>11, FinishStep DEF ks

\* _execute_message_sequence from item i of the step.
LEMMA PlayStep ==
  ASSUME IInv, NEW s \in Sessions, NEW r, NEW js, NEW n \in Steps, NEW i, NEW c,
         Acting(s), Play(s, r, js, n, i, c), Stored(r, js), Item(n, i),
         (r # None /\ r.step = n) \/ Goes(r, js, Sessions \ {s}),
         ~disturbed' => /\ VisitRow(r) /\ Fits(r, n, i) /\ Left(js, s) = {}
                        /\ task[s] \in Sending(js) => Reached(r, n, i, js[task[s]])
  PROVE  IInv'
<1>1. i \in Nat /\ Kind[n] = "message"
  BY DEF Item
<1>2. CASE Script[n][i] # "delayed"
  <2>1. Sends(s, r, js, n, i, c)
    BY <1>2 DEF Play
  <2>2. CouldSend(s, n, i)
    BY <1>1 DEF CouldSend
  <2>3. QED
    BY <1>1, <2>1, <2>2, SendStep DEF Visit
<1>3. CASE Script[n][i] = "delayed" /\ r = None
  <2>1. Finishes(s, r, js, c)
    BY <1>3 DEF Play, Schedule
  <2>2. Goes(r, js, Sessions \ {s}) /\ (~disturbed' => FALSE)
    BY <1>3 DEF Goes, Needs, Fits
  <2>3. QED
    BY <2>1, <2>2, FinishStep
<1>4. CASE Script[n][i] = "delayed" /\ r # None
  <2>1. /\ Finishes(s, r, Schedule(r, js, "sequence", n, i), c)
        /\ Unused(CancelSame(js, "sequence", n)) # {}
    BY <1>4 DEF Play
  <2>2. r \in Rows
    BY <1>4 DEF Stored
  <2>3. ~disturbed' => Suits(r, NewJob("sequence", n, i))
    BY <1>1 DEF Fits, Suits, NewJob
  <2>4. QED
    BY <1>1, <1>4, <2>1, <2>2, <2>3, ScheduleStep
<1>5. QED
  BY <1>2, <1>3, <1>4

\* At the beginning of a visit.
LEMMA NothingReached ==
  ASSUME IInv, NEW s \in Sessions, NEW r, NEW js, NEW n \in Steps, NEW i, Stored(r, js),
         r # None, r.step = n, r.sent = {}, ~r.completed,
         Kind[n] = "message" => ~r.waiting /\ i = 1, Kind[n] # "message" => i = 0,
         task[s] \in Sending(js)
  PROVE  Reached(r, n, i, js[task[s]])
<1> DEFINE job == js[task[s]]
<1>1. /\ task[s] \in JobIds /\ job \in Jobs /\ JobOK(job)
      /\ job.status \in Open /\ job.type # "timeout"
  BY DEF Sending, Stored
<1>2. s \in Workers /\ task[s] # None
  BY <1>1, NoneAssumption DEF IInv, SessInv
<1>3. job.attempts > 0 /\ job.index \in Nat
  BY <1>1, <1>2 DEF Stored, JobOK, Open, Jobs
<1> HIDE DEF job
<1>4. May(r, job)
  BY <1>3 DEF May, Stale, Suits
<1>5. ASSUME n = job.step, job.type \in {"sequence", "resume"} PROVE ~(FirstItem(job).index < i)
  BY <1>1, <1>3, <1>5 DEF FirstItem, JobOK, Item
<1>6. QED
  BY <1>4, <1>5 DEF Reached, job

\* _execute_from_step at a step to which the chat has moved, or which failed to
\* send anything.
LEMMA EnterStep ==
  ASSUME IInv, NEW s \in Sessions, NEW r \in Rows, NEW js, NEW n \in Steps, NEW c,
         Acting(s), Enter(s, r, js, n, c), Stored(r, js), r.step = n,
         ~disturbed' => VisitRow(r) /\ r.sent = {} /\ Left(js, s) = {}
  PROVE  IInv'
<1> DEFINE reached == Upsert(r, n, Kind[n] = "input", FALSE)
<1>1. /\ reached \in Rows /\ reached.step = n /\ reached.waiting = (Kind[n] = "input")
      /\ reached.completed = FALSE /\ reached.marker = r.marker /\ reached.sent = r.sent
  BY DEF Upsert, Rows
<1>2. r # None /\ reached # None
  BY <1>1, NoneAssumption
<1> HIDE DEF reached
<1>3. js \in [JobIds -> Jobs] /\ \A j \in JobIds : JobOK(js[j])
  BY DEF Stored
<1>4. Stored(reached, js) /\ (~disturbed' => VisitRow(reached))
  BY <1>1, <1>2 DEF Stored, RowOK, VisitRow
<1>5. CASE r.paused /\ s \notin c
  <2>1. Finishes(s, r, js, c)
    BY <1>5 DEF Enter
  <2>2. Goes(r, js, Sessions \ {s})
    BY <1>5 DEF Goes, Needs
  <2>3. QED
    BY <2>1, <2>2, FinishStep DEF Visit
<1>6. CASE ~(r.paused /\ s \notin c) /\ blocked /\ r.completed
  <2>1. Finishes(s, r, js, c)
    BY <1>6 DEF Enter
  <2>2. Goes(r, js, Sessions \ {s})
    BY <1>6 DEF Goes, Needs
  <2>3. QED
    BY <2>1, <2>2, FinishStep DEF Visit
<1>7. CASE ~(r.paused /\ s \notin c) /\ blocked /\ ~r.completed
  <2> DEFINE u == PausedOf(r)
             ks == CancelPending(js)
  <2>1. Finishes(s, u, ks, c)
    BY <1>7 DEF Enter, PausedOf
  <2>2. /\ u \in Rows /\ u # None /\ ~Needs(u) /\ u.step = r.step /\ u.marker = r.marker
        /\ u.sent = r.sent /\ u.waiting = r.waiting
    BY PausedOfRow
  <2>3. /\ ks \in [JobIds -> Jobs]
        /\ \A j \in JobIds : JobOK(ks[j])
        /\ \A j \in JobIds : js[j].status # "pending" => ks[j].status # "pending"
        /\ \A j \in Sending(ks) : j \in Sending(js) /\ ks[j] = js[j]
    BY <1>3, PrunedJobs, CancelsPrune
  <2> HIDE DEF u, ks
  <2>4. \A w \in Workers : task[w] # None => task[w] \in JobIds
    BY DEF IInv, TypeOK, Sessions
  <2>5. Stored(u, ks)
    BY <1>2, <2>2, <2>3, <2>4 DEF Stored, RowOK
  <2>6. Goes(u, ks, Sessions \ {s})
    BY <2>2 DEF Goes
  <2>7. ~disturbed' => Visit(u, ks, Left(ks, s))
    BY <1>2, <2>2, <2>3 DEF Visit, VisitRow, Left
  <2>8. QED
    BY <2>1, <2>5, <2>6, <2>7, FinishStep
<1>8. CASE ~(r.paused /\ s \notin c) /\ ~blocked /\ Kind[n] = "message"
  <2>1. Play(s, reached, js, n, 1, c \cup {s})
    BY <1>8 DEF Enter, reached
  <2>2. Item(n, 1)
    BY <1>8, StepAssumption DEF Item
  <2>3. ~disturbed' => Fits(reached, n, 1)
    BY <1>1, <1>2, <1>8 DEF Fits
  <2>4. ~disturbed' /\ task[s] \in Sending(js) => Reached(reached, n, 1, js[task[s]])
    BY <1>1, <1>2, <1>4, <1>8, NothingReached
  <2>5. QED
    BY <1>1, <1>2, <1>4, <2>1, <2>2, <2>3, <2>4, PlayStep
<1>9. CASE ~(r.paused /\ s \notin c) /\ ~blocked /\ Kind[n] = "delay"
  <2>1. /\ Unused(CancelSame(js, "delay", n)) # {}
        /\ Finishes(s, reached, Schedule(r, js, "delay", n, 0), c)
    BY <1>9 DEF Enter, reached
  <2>2. ~disturbed' => Suits(reached, NewJob("delay", n, 0))
    BY <1>1, <1>2, <1>9 DEF Suits, NewJob
  <2>3. QED
    BY <1>1, <1>2, <1>4, <1>9, <2>1, <2>2, ScheduleStep
<1>10. CASE ~(r.paused /\ s \notin c) /\ ~blocked /\ Kind[n] \notin {"message", "delay"}
  <2>1. Sends(s, reached, js, n, 0, c \cup {s})
    BY <1>10 DEF Enter, reached
  <2>2. CouldSend(s, n, 0)
    BY <1>10 DEF CouldSend
  <2>3. ~disturbed' => Visit(reached, js, {}) /\ Fits(reached, n, 0)
    BY <1>1, <1>2, <1>4, <1>10 DEF Visit, Fits
  <2>4. ~disturbed' /\ task[s] \in Sending(js) => Reached(reached, n, 0, js[task[s]])
    BY <1>1, <1>2, <1>4, <1>10, NothingReached
  <2>5. QED
    BY <1>1, <1>2, <1>4, <2>1, <2>2, <2>3, <2>4, SendStep
<1>11. QED
  BY <1>5, <1>6, <1>7, <1>8, <1>9, <1>10

\* _move_from_step: the chat is done with step n.
LEMMA MoveOnStep ==
  ASSUME IInv, NEW s \in Sessions, NEW r \in Rows, NEW js, NEW n \in Steps, NEW c,
         Acting(s), MoveOn(s, r, js, n, c), Stored(r, js),
         ~disturbed' => VisitRow(r) /\ r.step = n /\ Left(js, s) = {}
  PROVE  IInv'
<1>1. r # None
  BY NoneAssumption
<1>2. CASE Follow[n] = {} /\ Finishes(s, Upsert(r, n, FALSE, TRUE), js, c)
  <2> DEFINE u == Upsert(r, n, FALSE, TRUE)
  <2>1. /\ u \in Rows /\ u.step = n /\ u.waiting = FALSE /\ u.completed = TRUE
        /\ u.marker = r.marker /\ u.sent = r.sent
    BY UpsertRow
  <2> HIDE DEF u
  <2>2. Stored(u, js) /\ Goes(u, js, Sessions \ {s})
    BY <1>1, <2>1 DEF Stored, RowOK, Goes, Needs
  <2>3. ~disturbed' => Visit(u, js, Left(js, s))
    BY <1>1, <2>1 DEF Visit, VisitRow
  <2>4. QED
    BY <1>2, <2>2, <2>3, FinishStep DEF u
<1>3. ASSUME NEW m \in Follow[n], Enter(s, MoveTo(r, m, Kind[m] = "finish"), js, m, c)
      PROVE  IInv'
  <2> DEFINE ends == Kind[m] = "finish"
             u == MoveTo(r, m, ends)
  <2>1. m \in Steps /\ ends \in BOOLEAN
    BY StepAssumption
  <2> HIDE DEF ends
  <2>2. u \in Rows /\ u.step = m /\ ~u.waiting /\ u.sent = {} /\ u.marker = r.marker
    BY <2>1, MoveToRow
  <2> HIDE DEF u
  <2>3. Stored(u, js) /\ VisitRow(u)
    BY <1>1, <2>2 DEF Stored, RowOK, VisitRow
  <2>4. QED
    BY <1>3, <2>1, <2>2, <2>3, EnterStep DEF u, ends
<1>4. QED
  BY <1>2, <1>3 DEF MoveOn

\* The branch of a button, an answer, a timeout or a delay.
LEMMA TargetStep ==
  ASSUME IInv, NEW s \in Sessions, NEW r \in Rows, NEW js, NEW m \in Steps, NEW c,
         Acting(s), Enter(s, MoveTo(r, m, FALSE), js, m, c), Stored(r, js),
         ~disturbed' => Left(js, s) = {}
  PROVE  IInv'
<1> DEFINE u == MoveTo(r, m, FALSE)
<1>1. u \in Rows /\ u.step = m /\ ~u.waiting /\ u.sent = {} /\ u.marker = r.marker
  BY MoveToRow
<1> HIDE DEF u
<1>2. Stored(u, js) /\ VisitRow(u)
  BY <1>1, NoneAssumption DEF Stored, RowOK, VisitRow
<1>3. QED
  BY <1>1, <1>2, EnterStep DEF u

LEMMA BranchStep ==
  ASSUME IInv, NEW s \in Sessions, NEW r \in Rows, NEW js, NEW n \in Steps, NEW c,
         Acting(s), Branch(s, r, js, n, c), Stored(r, js),
         ~disturbed' => VisitRow(r) /\ r.step = n /\ Left(js, s) = {}
  PROVE  IInv'
<1>1. CASE MoveOn(s, r, js, n, c)
  BY <1>1, MoveOnStep
<1>2. ASSUME NEW m \in Follow[n], Enter(s, MoveTo(r, m, FALSE), js, m, c) PROVE IInv'
  BY <1>2, TargetStep, StepAssumption
<1>3. QED
  BY <1>1, <1>2 DEF Branch

\* The items up to i have been sent, or answered.
LEMMA PlayAfterStep ==
  ASSUME IInv, NEW s \in Sessions, NEW r, NEW js, NEW n \in Steps, NEW i, NEW c,
         Acting(s), PlayAfter(s, r, js, n, i, c), Stored(r, js), Item(n, i),
         r = None => i < Len(Script[n]),
         (r # None /\ r.step = n) \/ Goes(r, js, Sessions \ {s}),
         ~disturbed' => /\ VisitRow(r) /\ r # None /\ r.step = n /\ ~r.completed /\ ~r.waiting
                        /\ (\A p \in r.sent : p.index <= i) /\ Left(js, s) = {}
                        /\ task[s] \in Sending(js) => Reached(r, n, i + 1, js[task[s]])
  PROVE  IInv'
<1>1. i \in Nat /\ Kind[n] = "message" /\ Len(Script[n]) \in Nat
  BY StepAssumption DEF Item
<1>2. CASE i < Len(Script[n])
  <2>1. Play(s, r, js, n, i + 1, c)
    BY <1>2 DEF PlayAfter
  <2>2. Item(n, i + 1)
    BY <1>1, <1>2 DEF Item
  <2>3. ASSUME ~disturbed' PROVE Fits(r, n, i + 1)
    <3>1. r \in Rows
      BY <2>3 DEF Stored
    <3>2. \A p \in r.sent : p.index \in Nat
      BY <3>1 DEF Rows, Positions
    <3>3. \A p \in r.sent : p.index < i + 1
      BY <1>1, <2>3, <3>2
    <3>4. QED
      BY <1>1, <2>3, <3>3 DEF Fits
  <2>4. QED
    BY <2>1, <2>2, <2>3, PlayStep
<1>3. CASE ~(i < Len(Script[n]))
  <2>1. MoveOn(s, r, js, n, c)
    BY <1>3 DEF PlayAfter
  <2>2. r \in Rows
    BY <1>3 DEF Stored
  <2>3. QED
    BY <2>1, <2>2, MoveOnStep
<1>4. QED
  BY <1>2, <1>3

-----------------------------------------------------------------------------
(* Every action of the specification preserves the invariant.              *)

LEMMA InitIInv == Init => IInv
<1> SUFFICES ASSUME Init PROVE IInv
  OBVIOUS
<1> DEFINE old == [NewJob("resume", First, 0) EXCEPT !.status = "done"]
<1>1. old \in Jobs /\ old.status = "done" /\ old.type = "resume"
  <2> DEFINE new == NewJob("resume", First, 0)
  <2>1. new \in Jobs /\ new.type = "resume"
    BY StepAssumption, BoundAssumption DEF NewJob, Jobs, JobTypes, Open
  <2> HIDE DEF new
  <2>2. QED
    BY <2>1 DEF Jobs, Closed, new
<1>2. jobs = [j \in JobIds |-> old]
  BY DEF Init
<1> HIDE DEF old
<1>3. jobs \in [JobIds -> Jobs] /\ \A j \in JobIds : jobs[j] = old
  BY <1>1, <1>2
<1>4. TypeOK
  <2>1. /\ pc \in [Sessions -> {"idle", "claimed", "sending", "failing"}]
        /\ task \in [Sessions -> JobIds \cup {None}]
        /\ at \in [Sessions -> Positions \cup {None}]
    BY DEF Init
  <2>2. /\ attached \in [Sessions -> BOOLEAN]
        /\ error \in [Sessions -> {"none", "transient", "permanent", "blocked", "other"}]
    BY DEF Init
  <2>3. \A w \in Workers : pc[w] # "idle" <=> task[w] \in JobIds
    BY NoneAssumption DEF Init, Sessions
  <2>4. \A j \in JobIds : jobs[j].status = "pending" => jobs[j].attempts < MaxAttempts
    BY <1>1, <1>3
  <2>5. acts \in 0..MaxActs /\ faults \in 0..MaxFaults
    BY BoundAssumption DEF Init
  <2>6. QED
    BY <1>3, <2>1, <2>2, <2>3, <2>4, <2>5 DEF Init, TypeOK
<1>5. SessInv
  BY DEF Init, SessInv, Sent, Sessions
<1>6. StoreInv
  BY <1>1, <1>3 DEF Init, StoreInv, Stored, RowOK, JobOK, Open, Sessions
<1>7. GoesInv
  BY DEF Init, GoesInv, Goes, Needs
<1>8. VisitInv
  <2>1. Ready(jobs) = {}
    BY <1>1, <1>3 DEF Ready, Sending, Open
  <2>2. QED
    BY <2>1 DEF Init, VisitInv, Visit, VisitRow, Sent
<1>9. HeldInv
  BY NoneAssumption DEF Init, HeldInv, Sending, Sessions
<1>10. QED
  BY <1>4, <1>5, <1>6, <1>7, <1>8, <1>9 DEF IInv

LEMMA Alone ==
  ASSUME IInv, ~disturbed, NEW s \in Sessions, pc[s] # "idle"
  PROVE  ~Others(s)
  BY DEF IInv, VisitInv, Others

LEMMA LeftReady ==
  ASSUME IInv, NEW s \in Sessions, ~Others(s)
  PROVE  Left(jobs, s) \subseteq Ready(jobs)
  BY OthersRest, NoneAssumption DEF Left, Ready, Sending

\* The token of a session that works elsewhere is not the one the row needs.
LEMMA GoesElsewhere ==
  ASSUME IInv, NEW s \in Sessions, ~Works(s, row, jobs) \/ ~Needs(row)
  PROVE  Goes(row, jobs, Sessions \ {s})
  BY DEF IInv, GoesInv, Goes

LEMMA DeliveredRow ==
  ASSUME IInv, NEW p \in Positions
  PROVE  LET r == Delivered(p) IN
         /\ r \in Rows \cup {None} /\ (r = None <=> row = None)
         /\ row # None =>
              /\ r.step = row.step /\ r.waiting = row.waiting /\ r.completed = row.completed
              /\ r.paused = row.paused /\ r.marker = row.marker
              /\ r.reported = row.reported /\ r.untold = row.untold
              /\ r.sent = IF AsksAgain(p) THEN row.sent ELSE row.sent \cup {p}
<1>1. CASE row = None \/ AsksAgain(p)
  BY <1>1 DEF Delivered, IInv, TypeOK
<1>2. CASE row # None /\ ~AsksAgain(p)
  <2> DEFINE u == [row EXCEPT !.sent = @ \cup {p}]
  <2>1. row \in Rows /\ Delivered(p) = u
    BY <1>2 DEF IInv, TypeOK, Delivered
  <2>2. /\ u \in Rows /\ u.sent = row.sent \cup {p}
        /\ u.step = row.step /\ u.waiting = row.waiting /\ u.completed = row.completed
        /\ u.paused = row.paused /\ u.marker = row.marker
        /\ u.reported = row.reported /\ u.untold = row.untold
    BY <2>1 DEF Rows
  <2>3. QED
    BY <1>2, <2>1, <2>2, NoneAssumption
<1>3. QED
  BY <1>1, <1>2

\* The visit goes on with the delivery.
LEMMA DeliveredVisit ==
  ASSUME IInv, ~disturbed, NEW s \in Sessions, pc[s] = "sending"
  PROVE  LET p == at[s]
             r == Delivered(p)
         IN /\ r # None /\ r.step = p.step /\ ~r.completed /\ VisitRow(r)
            /\ Kind[p.step] = "message" => ~r.waiting /\ \A q \in r.sent : q.index <= p.index
<1> DEFINE p == at[s]
           n == p.step
           i == p.index
           r == Delivered(p)
<1>1. Sent(s)
  BY DEF Sent
<1>2. p \in Positions /\ n \in Steps /\ i \in Nat /\ CouldSend(s, n, i)
  BY <1>1 DEF IInv, SessInv, Positions
<1>3. /\ r \in Rows \cup {None} /\ (r = None <=> row = None)
      /\ row # None =>
           /\ r.step = row.step /\ r.waiting = row.waiting /\ r.completed = row.completed
           /\ r.paused = row.paused /\ r.marker = row.marker
           /\ r.sent = IF AsksAgain(p) THEN row.sent ELSE row.sent \cup {p}
  BY <1>2, DeliveredRow
<1>4. VisitRow(row) /\ Fits(row, n, i)
  BY <1>1 DEF IInv, VisitInv, Visit
<1> HIDE DEF r
<1>5. row # None /\ row \in Rows /\ row.step = n /\ ~row.completed
  BY <1>4 DEF Fits, IInv, TypeOK
<1>6. \A q \in row.sent : q \in Positions /\ q.index \in Nat
  BY <1>5 DEF Rows, Positions
<1>7. ASSUME Kind[n] = "message"
      PROVE  ~r.waiting /\ \A q \in r.sent : q.step = n /\ q.index <= i
  <2>1. \A q \in row.sent : q.index < i /\ q.step = n
    BY <1>4, <1>5, <1>7 DEF Fits, VisitRow
  <2>2. QED
    BY <1>2, <1>3, <1>4, <1>5, <1>6, <1>7, <2>1 DEF Fits
<1>8. ASSUME Kind[n] # "message"
      PROVE  \A q \in r.sent : q.step = n /\ q.index = 0
  <2>1. \A q \in row.sent : q.index = 0 /\ q.step = n
    BY <1>4, <1>5, <1>8 DEF VisitRow
  <2>2. i = 0 \/ AsksAgain(p)
    BY <1>2, <1>8 DEF CouldSend, AsksAgain
  <2>3. QED
    BY <1>3, <1>5, <2>1, <2>2
<1>9. VisitRow(r)
  BY <1>3, <1>5, <1>7, <1>8 DEF VisitRow
<1>10. QED
  BY <1>3, <1>5, <1>7, <1>9 DEF r

LEMMA HeldJob ==
  ASSUME IInv, NEW w \in Workers, pc[w] # "idle"
  PROVE  /\ task[w] \in JobIds /\ jobs[task[w]] \in Jobs /\ JobOK(jobs[task[w]])
         /\ jobs[task[w]].status # "pending"
  BY NoneAssumption DEF IInv, TypeOK, StoreInv, Stored

\* With the delivery of the item a worker sends, what comes before the next one
\* has been sent, as far as its job goes.
LEMMA DeliveredReached ==
  ASSUME IInv, ~disturbed, NEW w \in Workers, pc[w] = "sending", task[w] \in Sending(jobs)
  PROVE  Reached(Delivered(at[w]), at[w].step, at[w].index + 1, jobs[task[w]])
<1> DEFINE p == at[w]
           r == Delivered(p)
           job == jobs[task[w]]
           f == FirstItem(job)
<1>1. /\ job \in Jobs /\ JobOK(job) /\ job.status = "running" /\ job.type # "timeout"
      /\ job.attempts > 0 /\ job.index \in Nat /\ job.type \in JobTypes /\ job.step \in Steps
  BY HeldJob DEF Sending, JobOK, Open, Jobs
<1>2. w \in Sessions /\ Sent(w)
  BY DEF Sessions, Sent
<1>3. p \in Positions /\ p.step \in Steps /\ p.index \in Nat /\ CouldSend(w, p.step, p.index)
  BY <1>2 DEF IInv, SessInv, Positions
<1>4. Fits(row, p.step, p.index) /\ Reached(row, p.step, p.index, job)
  BY <1>2 DEF IInv, VisitInv, HeldInv
<1>5. row # None /\ row.step = p.step /\ ~row.completed
  BY <1>4 DEF Fits
<1>6. ~AsksAgain(p)
  BY <1>3 DEF CouldSend, AsksAgain
<1>7. /\ r # None /\ r.step = p.step /\ ~r.completed /\ r.waiting = row.waiting
      /\ r.sent = row.sent \cup {p}
  BY <1>3, <1>5, <1>6, DeliveredRow
<1>8. /\ f.step = job.step /\ f.index \in Nat
      /\ job.type = "sequence" => f.index = job.index
      /\ job.type = "resume" => f.index <= 1 /\ (Kind[job.step] # "message" => f.index = 0)
      /\ f = [step |-> f.step, index |-> f.index] /\ p = [step |-> p.step, index |-> p.index]
  BY <1>1, <1>3 DEF FirstItem, Positions
<1> HIDE DEF p, r, job, f
<1>9. CASE p.step # job.step
  BY <1>1, <1>7, <1>9 DEF Reached, May, Stale, p, r, job
<1>10. CASE p.step = job.step
  <2>1. job.type \in {"sequence", "resume"}
    BY <1>1, <1>3, <1>10 DEF JobTypes, JobOK, CouldSend
  <2>2. CASE f \in r.sent
    BY <1>7, <2>1, <2>2 DEF Reached, Begun, p, r, job, f
  <2>3. CASE f \notin r.sent
    <3>1. p.index < f.index
      <4>1. p.index # f.index
        BY <1>7, <1>8, <1>10, <2>3
      <4>2. ~(f.index < p.index)
        BY <1>4, <1>7, <1>10, <2>1, <2>3 DEF Reached, f
      <4>3. QED
        BY <1>3, <1>8, <4>1, <4>2
    <3>2. Suits(row, job)
      BY <1>4, <1>5, <1>7, <1>10, <2>3 DEF Reached, May, Stale, Begun, f
    <3>3. job.type = "sequence"
      BY <1>3, <1>8, <1>10, <2>1, <3>1 DEF CouldSend, Item
    <3>4. Suits(r, job)
      BY <1>5, <1>7, <1>8, <3>1, <3>2, <3>3 DEF Suits
    <3>5. ~(f.index < p.index + 1)
      BY <1>3, <1>8, <3>1
    <3>6. QED
      BY <3>4, <3>5 DEF Reached, May, p, r, job, f
  <2>4. QED
    BY <2>2, <2>3
<1>11. QED
  BY <1>9, <1>10

LEMMA SendOkStep ==
  ASSUME IInv, NEW s \in Sessions, SendOk(s)
  PROVE  IInv'
<1> DEFINE p == at[s]
           n == p.step
           i == p.index
           r == Delivered(p)
<1>1. pc[s] = "sending" /\ MayTransact(s) /\ Sent(s)
  BY DEF SendOk, Sent
<1>2. p \in Positions /\ n \in Steps /\ i \in Nat /\ CouldSend(s, n, i)
  BY <1>1 DEF IInv, SessInv, Positions
<1>3. /\ r \in Rows \cup {None} /\ (r = None <=> row = None)
      /\ row # None =>
           /\ r.step = row.step /\ r.waiting = row.waiting /\ r.completed = row.completed
           /\ r.paused = row.paused /\ r.marker = row.marker
           /\ r.reported = row.reported /\ r.untold = row.untold
           /\ r.sent = IF AsksAgain(p) THEN row.sent ELSE row.sent \cup {p}
  BY <1>2, DeliveredRow
<1>4. ~disturbed =>
        /\ ~Others(s) /\ VisitRow(row) /\ Fits(row, n, i) /\ Ready(jobs) = {}
  BY <1>1, Alone DEF IInv, VisitInv, Visit
<1>5. ~disturbed => p \notin row.sent
  BY <1>2, <1>4 DEF Fits, VisitRow, CouldSend
<1>6. disturbed' = disturbed /\ repeated' = (repeated \/ (row # None /\ p \in row.sent))
  BY DEF SendOk
<1>7. Acting(s)
  <2>1. ~disturbed' => ~disturbed /\ ~Others(s) /\ ~repeated'
    BY <1>4, <1>5, <1>6 DEF IInv, VisitInv
  <2>2. QED
    BY <1>1, <2>1 DEF SendOk, Acting, IInv, TypeOK
<1>8. ~disturbed' => Left(jobs, s) = {}
  BY <1>4, <1>6, LeftReady
<1>9. Stored(r, jobs)
  BY <1>3 DEF IInv, StoreInv, Stored, RowOK
<1>10. (r # None /\ r.step = n) \/ Goes(r, jobs, Sessions \ {s})
  <2> SUFFICES ASSUME ~(r # None /\ r.step = n) PROVE Goes(r, jobs, Sessions \ {s})
    OBVIOUS
  <2>1. CASE row = None
    BY <1>3, <2>1 DEF Goes, Needs
  <2>2. CASE row # None
    <3>1. ~Works(s, row, jobs)
      BY <1>1, <1>3, <2>2 DEF Works
    <3>2. Goes(row, jobs, Sessions \ {s})
      BY <3>1, GoesElsewhere
    <3>3. QED
      BY <1>3, <2>2, <3>2 DEF Goes, Needs, Works, Due
  <2>3. QED
    BY <2>1, <2>2
<1>11. ~disturbed' =>
         /\ r # None /\ r.step = n /\ ~r.completed /\ VisitRow(r)
         /\ Kind[n] = "message" => ~r.waiting /\ \A q \in r.sent : q.index <= i
  BY <1>1, <1>6, DeliveredVisit
<1> HIDE DEF r
<1>12. CASE Kind[n] = "message" /\ Script[n][i] = "waits" /\ r = None
  <2>1. Finishes(s, None, jobs, Copies)
    BY <1>12 DEF SendOk, r
  <2>2. Goes(None, jobs, Sessions \ {s})
    BY DEF Goes, Needs
  <2>3. QED
    BY <1>7, <1>9, <1>11, <1>12, <2>1, <2>2, FinishStep
<1>13. CASE Kind[n] = "message" /\ Script[n][i] = "waits" /\ r # None
  <2> DEFINE v == Upsert(r, n, TRUE, FALSE)
             u == [v EXCEPT !.marker = p]
  <2>1. Finishes(s, u, jobs, Copies)
    BY <1>13 DEF SendOk, r
  <2>2. /\ v \in Rows /\ v.step = n /\ v.waiting = TRUE /\ v.sent = r.sent
    BY <1>2, <1>3, <1>13, UpsertRow DEF r
  <2> HIDE DEF v
  <2>3. /\ u \in Rows /\ u.step = n /\ u.waiting = TRUE /\ u.sent = r.sent /\ u.marker = p
    BY <1>2, <2>2 DEF Rows
  <2>4. p # None /\ u # None
    BY <1>2, <2>3, NoneAssumption
  <2> HIDE DEF u
  <2>5. Item(n, i)
    BY <1>2, <1>13 DEF CouldSend
  <2>6. Stored(u, jobs) /\ Goes(u, jobs, Sessions \ {s})
    BY <1>9, <2>3, <2>5 DEF Stored, RowOK, Goes, Needs
  <2>7. ~disturbed' => Visit(u, jobs, Left(jobs, s))
    BY <1>8, <1>11, <1>13, <2>3, <2>4 DEF Visit, VisitRow
  <2>8. QED
    BY <1>7, <2>1, <2>6, <2>7, FinishStep DEF u, v
<1>14. CASE Kind[n] = "message" /\ Script[n][i] # "waits" /\ r = None /\ i = Len(Script[n])
  <2>1. Finishes(s, None, jobs, Copies)
    BY <1>14 DEF SendOk, r
  <2>2. Goes(None, jobs, Sessions \ {s})
    BY DEF Goes, Needs
  <2>3. QED
    BY <1>7, <1>9, <1>11, <1>14, <2>1, <2>2, FinishStep
<1>15. CASE Kind[n] = "message" /\ Script[n][i] # "waits" /\ ~(r = None /\ i = Len(Script[n]))
  <2>1. PlayAfter(s, r, jobs, n, i, Copies)
    BY <1>15 DEF SendOk, r
  <2>2. Item(n, i)
    BY <1>2, <1>15 DEF CouldSend
  <2>3. r = None => i < Len(Script[n])
    BY <1>2, <1>15, <2>2, StepAssumption DEF Item
  <2>4. ~disturbed' /\ task[s] \in Sending(jobs) => Reached(r, n, i + 1, jobs[task[s]])
    <3> SUFFICES ASSUME ~disturbed', task[s] \in Sending(jobs)
                 PROVE  Reached(r, n, i + 1, jobs[task[s]])
      OBVIOUS
    <3>1. s \in Workers
      BY NoneAssumption DEF Sending, IInv, SessInv
    <3>2. QED
      BY <1>1, <1>6, <3>1, DeliveredReached DEF r
  <2>5. QED
    BY <1>2, <1>7, <1>8, <1>9, <1>10, <1>11, <1>15, <2>1, <2>2, <2>3, <2>4, PlayAfterStep
<1>16. CASE Kind[n] = "input" /\ Finishes(s, r, jobs, Copies)
  <2>1. Goes(r, jobs, Sessions \ {s})
    BY <1>10, <1>16 DEF Goes, Needs
  <2>2. QED
    BY <1>7, <1>8, <1>9, <1>11, <1>16, <2>1, FinishStep DEF Visit
<1>17. CASE /\ Kind[n] = "input" /\ Unused(CancelSame(jobs, "timeout", n)) # {}
            /\ Finishes(s, r, Schedule(r, jobs, "timeout", n, 0), Copies)
  <2>1. CASE r = None
    <3>1. Finishes(s, r, jobs, Copies)
      BY <1>17, <2>1 DEF Schedule
    <3>2. QED
      BY <1>16, <1>17, <3>1
  <2>2. CASE r # None
    BY <1>2, <1>3, <1>7, <1>8, <1>9, <1>10, <1>11, <1>17, <2>2, ScheduleStep DEF r
  <2>3. QED
    BY <2>1, <2>2
<1>18. CASE Kind[n] = "finish"
  <2> DEFINE u == IF r = None THEN None ELSE Upsert(r, n, FALSE, TRUE)
  <2>1. Finishes(s, u, jobs, Copies)
    BY <1>18 DEF SendOk, r
  <2>2. /\ u \in Rows \cup {None} /\ (u = None <=> r = None)
        /\ u # None => /\ u.step = n /\ u.waiting = FALSE /\ u.completed = TRUE
                       /\ u.sent = r.sent /\ u.marker = r.marker
    <3>1. CASE r = None
      BY <3>1
    <3>2. CASE r # None
      <4> DEFINE v == Upsert(r, n, FALSE, TRUE)
      <4>1. r \in Rows
        BY <1>3, <3>2 DEF r
      <4>2. /\ v \in Rows /\ v.step = n /\ v.waiting = FALSE /\ v.completed = TRUE
            /\ v.sent = r.sent /\ v.marker = r.marker
        BY <1>2, <4>1 DEF Upsert, Rows
      <4>3. u = v
        BY <3>2
      <4>4. QED
        BY <3>2, <4>2, <4>3, NoneAssumption
    <3>3. QED
      BY <3>1, <3>2
  <2> HIDE DEF u
  <2>3. Stored(u, jobs) /\ Goes(u, jobs, Sessions \ {s})
    BY <1>9, <2>2 DEF Stored, RowOK, Goes, Needs
  <2>4. ~disturbed' => Visit(u, jobs, Left(jobs, s))
    BY <1>8, <1>11, <2>2 DEF Visit, VisitRow
  <2>5. QED
    BY <1>7, <2>1, <2>3, <2>4, FinishStep
<1>19. CASE Kind[n] \notin {"message", "input", "finish"}
  <2> DEFINE ks == CancelOpen(jobs)
  <2>1. Finishes(s, None, ks, {})
    BY <1>19 DEF SendOk
  <2>2. /\ ks \in [JobIds -> Jobs]
        /\ \A j \in JobIds : JobOK(ks[j]) /\ ks[j].status \notin Open
    BY <1>9, CancelsPrune, PrunedJobs DEF Stored
  <2> HIDE DEF ks
  <2>3. \A w \in Workers : task[w] # None => task[w] \in JobIds
    BY DEF IInv, TypeOK, Sessions
  <2>4. Stored(None, ks) /\ Goes(None, ks, Sessions \ {s})
    BY <2>2, <2>3 DEF Stored, RowOK, Goes, Needs, Open
  <2>5. Visit(None, ks, Left(ks, s))
    BY <2>2 DEF Visit, VisitRow, Left, Sending
  <2>6. QED
    BY <1>7, <2>1, <2>4, <2>5, FinishStep
<1>20. QED
  <2>1. Kind[n] = "input" =>
          \/ Finishes(s, r, jobs, Copies)
          \/ /\ Unused(CancelSame(jobs, "timeout", n)) # {}
             /\ Finishes(s, r, Schedule(r, jobs, "timeout", n, 0), Copies)
    BY DEF SendOk, r
  <2>2. QED
    BY <1>12, <1>13, <1>14, <1>15, <1>16, <1>17, <1>18, <1>19, <2>1

\* Nobody outside the request sees or changes the database while it is open.
LEMMA NoRequestOpen ==
  ASSUME IInv, MayTransact(None)
  PROVE  saved = None
  BY NoneAssumption DEF MayTransact, IInv, SessInv, Sessions

LEMMA ClaimedJob ==
  ASSUME IInv, NEW j \in JobIds, jobs[j].status = "pending",
         jobs' = [jobs EXCEPT ![j].status = "running", ![j].attempts = @ + 1]
  PROVE  /\ jobs' \in [JobIds -> Jobs]
         /\ jobs'[j].status = "running" /\ JobOK(jobs'[j])
         /\ jobs'[j].type = jobs[j].type /\ jobs'[j].step = jobs[j].step
         /\ jobs'[j].index = jobs[j].index
         /\ \A k \in JobIds : k # j => jobs'[k] = jobs[k]
<1>1. /\ jobs \in [JobIds -> Jobs] /\ jobs[j] \in Jobs /\ JobOK(jobs[j])
      /\ jobs[j].attempts < MaxAttempts
  BY DEF IInv, TypeOK, StoreInv, Stored
<1> DEFINE new == [jobs[j] EXCEPT !.status = "running", !.attempts = @ + 1]
<1>2. jobs' = [jobs EXCEPT ![j] = new]
  BY <1>1 DEF Jobs
<1>3. /\ new.status = "running" /\ new.attempts = jobs[j].attempts + 1
      /\ new.type = jobs[j].type /\ new.step = jobs[j].step /\ new.index = jobs[j].index
  BY <1>1 DEF Jobs
<1>4. new \in Jobs /\ new.attempts > 0
  BY <1>1, BoundAssumption DEF Jobs, Open
<1> HIDE DEF new
<1>5. JobOK(new)
  BY <1>1, <1>3, <1>4 DEF JobOK
<1>6. QED
  BY <1>1, <1>2, <1>3, <1>4, <1>5

\* What the row's own part of the invariant says under a change of its flags.
LEMMA RowFacts ==
  ASSUME IInv
  PROVE  /\ row \in Rows \cup {None} /\ RowOK(row) /\ jobs \in [JobIds -> Jobs]
         /\ \A j \in JobIds : JobOK(jobs[j])
         /\ \A w \in Workers : task[w] # None => task[w] \in JobIds /\ jobs[task[w]].status # "pending"
         /\ ~disturbed => VisitRow(row) /\ Visit(row, jobs, Ready(jobs))
  BY DEF IInv, TypeOK, StoreInv, Stored, VisitInv, Visit, Sessions

LEMMA ClaimStep ==
  ASSUME IInv, NEW w \in Workers, NEW j \in JobIds, Claim(w, j)
  PROVE  IInv'
<1>1. /\ pc[w] = "idle" /\ MayTransact(w) /\ jobs[j].status = "pending" /\ w \in Sessions
      /\ row' = row /\ saved' = saved /\ at' = at /\ error' = error
  BY DEF Claim, Sessions
<1>2. /\ pc'[w] = "claimed" /\ task'[w] = j
      /\ \A x \in Sessions : x # w => pc'[x] = pc[x] /\ task'[x] = task[x]
  BY <1>1 DEF Claim, IInv, TypeOK
<1>3. /\ jobs' \in [JobIds -> Jobs]
      /\ jobs'[j].status = "running" /\ JobOK(jobs'[j])
      /\ jobs'[j].type = jobs[j].type /\ jobs'[j].step = jobs[j].step
      /\ jobs'[j].index = jobs[j].index
      /\ \A k \in JobIds : k # j => jobs'[k] = jobs[k]
  BY <1>1, ClaimedJob DEF Claim
<1>4. saved = None /\ w \notin Managers
  BY <1>1, ManagersRest, SessionAssumption
<1>5. \A x \in Workers : task[x] # j
  BY <1>1, NoneAssumption DEF IInv, StoreInv, Stored
<1>6. TypeOK'
  <2>1. /\ pc' \in [Sessions -> {"idle", "claimed", "sending", "failing"}]
        /\ task' \in [Sessions -> JobIds \cup {None}]
    BY DEF Claim, IInv, TypeOK
  <2>2. \A x \in Workers : pc'[x] # "idle" <=> task'[x] \in JobIds
    BY <1>2 DEF IInv, TypeOK, Sessions
  <2>3. \A k \in JobIds : jobs'[k].status = "pending" => jobs'[k].attempts < MaxAttempts
    BY <1>3 DEF IInv, TypeOK
  <2>4. disturbed' \in BOOLEAN
    BY DEF Claim, IInv, TypeOK
  <2>5. QED
    BY <1>3, <2>1, <2>2, <2>3, <2>4 DEF Claim, IInv, TypeOK
<1>7. SessInv'
  <2>1. \A x \in Sessions : Sent(x)' => Sent(x)
    BY <1>1, <1>2 DEF Sent
  <2>2. \A v, x \in Workers : task'[v] # None /\ task'[v] = task'[x] => v = x
    BY <1>2, <1>5 DEF IInv, SessInv, Sessions
  <2>3. \A x \in Sessions \ Workers : task'[x] = None /\ pc'[x] \in {"idle", "sending"}
    BY <1>2 DEF IInv, SessInv
  <2>4. \A m \in Managers : pc'[m] = pc[m]
    BY <1>2, <1>4 DEF Sessions
  <2>5. QED
    BY <1>1, <2>1, <2>2, <2>3, <2>4 DEF IInv, SessInv, CouldSend, Item
<1>8. StoreInv'
  <2>1. \A x \in Workers : task'[x] # None => jobs'[task'[x]].status # "pending"
    BY <1>2, <1>3, <1>5 DEF IInv, TypeOK, StoreInv, Stored, Sessions
  <2>2. QED
    BY <1>1, <1>3, <1>4, <2>1 DEF IInv, StoreInv, Stored, RowOK, JobOK, Item
<1>9. GoesInv'
  <2>1. \A x \in Sessions : Works(x, row, jobs) => Works(x, row, jobs)'
    <3> SUFFICES ASSUME NEW x \in Sessions, Works(x, row, jobs) PROVE Works(x, row, jobs)'
      OBVIOUS
    <3>1. x # w
      BY <1>1 DEF Works
    <3>2. pc[x] = "claimed" => x \in Workers /\ task[x] \in JobIds
      BY DEF IInv, TypeOK, SessInv
    <3>3. QED
      BY <1>1, <1>2, <1>3, <1>5, <3>1, <3>2 DEF Works
  <2>2. Due(row, jobs) => Works(w, row, jobs)' \/ Due(row, jobs)'
    <3>1. \A k \in JobIds : k # j /\ (\A x \in Workers : task[x] # k) =>
            \A x \in Workers : task'[x] # k
      BY <1>2 DEF Sessions
    <3>2. QED
      BY <1>1, <1>2, <1>3, <3>1 DEF Due, Works
  <2>3. QED
    BY <1>1, <1>4, <2>1, <2>2 DEF IInv, GoesInv, Goes, Needs
<1>10. VisitInv'
  <2> SUFFICES ASSUME ~disturbed' PROVE VisitInv'
    BY DEF VisitInv
  <2>1. ~disturbed /\ ~Others(w) /\ repeated' = repeated
    BY DEF Claim
  <2>2. \A x \in Sessions : x # w => pc'[x] = "idle"
    BY <1>2, <2>1 DEF Others
  <2>3. \A k \in Ready(jobs)' : k \in Ready(jobs)
    <3> SUFFICES ASSUME NEW k \in JobIds, k \in Ready(jobs)' PROVE k \in Ready(jobs)
      BY DEF Ready, Sending
    <3>1. \A x \in Workers : task[x] = None
      BY <1>1, <2>1, OthersRest, NoneAssumption DEF IInv, TypeOK
    <3>2. k \in Sending(jobs)
      BY <1>1, <1>3 DEF Ready, Sending, Open
    <3>3. QED
      BY <3>1, <3>2, NoneAssumption DEF Ready
  <2>4. \A k \in JobIds : /\ May(row, jobs[k]) => May(row', jobs'[k])
                          /\ Spent(jobs[k]) => Spent(jobs'[k])
    <3> SUFFICES ASSUME NEW k \in JobIds
                 PROVE  /\ May(row, jobs[k]) => May(row', jobs'[k])
                        /\ Spent(jobs[k]) => Spent(jobs'[k])
      OBVIOUS
    <3>1. CASE k = j
      BY <1>1, <1>3, <3>1 DEF May, Stale, Suits, Spent, JobOK
    <3>2. CASE k # j
      BY <1>1, <1>3, <3>2 DEF May, Stale, Suits, Spent
    <3>3. QED
      BY <3>1, <3>2
  <2>5. Visit(row, jobs, Ready(jobs))'
    <3>1. Visit(row, jobs, Ready(jobs))
      BY <2>1 DEF IInv, VisitInv
    <3>2. Ready(jobs) \subseteq JobIds
      BY DEF Ready, Sending
    <3>3. \A k \in Ready(jobs) : k \in JobIds /\ (May(row, jobs[k]) \/ Spent(jobs[k]))
      BY <3>1, <3>2 DEF Visit
    <3>4. \A k \in Ready(jobs)' : May(row', jobs'[k]) \/ Spent(jobs'[k])
      <4> SUFFICES ASSUME NEW k \in Ready(jobs)'
                   PROVE  May(row', jobs'[k]) \/ Spent(jobs'[k])
        OBVIOUS
      <4>1. k \in JobIds /\ (May(row, jobs[k]) \/ Spent(jobs[k]))
        BY <2>3, <3>3
      <4>2. /\ May(row, jobs[k]) => May(row', jobs'[k])
            /\ Spent(jobs[k]) => Spent(jobs'[k])
        BY <2>4, <4>1
      <4>3. QED
        BY <4>1, <4>2
    <3>5. \A k, l \in Ready(jobs)' : k = l
      BY <2>3, <3>1 DEF Visit
    <3>6. VisitRow(row)'
      BY <1>1, <3>1 DEF Visit, VisitRow
    <3>7. QED
      BY <3>4, <3>5, <3>6 DEF Visit
  <2>6. \A x \in Sessions : ~Sent(x)'
    BY <1>2, <2>2 DEF Sent
  <2>7. QED
    BY <1>1, <1>4, <2>1, <2>2, <2>5, <2>6 DEF IInv, VisitInv
<1>11. HeldInv'
  <2> SUFFICES ASSUME ~disturbed', NEW x \in Workers, task'[x] \in Sending(jobs)'
               PROVE  pc'[x] = "claimed" /\ May(row, jobs[task[x]])'
    BY DEF HeldInv
  <2>1. ~disturbed /\ ~Others(w)
    BY DEF Claim
  <2>2. x = w
    BY <1>2, <1>6, <2>1 DEF TypeOK, Others, Sending, Sessions
  <2>3. j \in Ready(jobs)
    BY <1>1, <1>2, <1>3, <1>5, <2>2 DEF Ready, Sending, Open
  <2>4. May(row, jobs[j])
    BY <1>1, <2>1, <2>3, RowFacts DEF Visit, Spent
  <2>5. QED
    BY <1>1, <1>2, <1>3, <2>2, <2>4 DEF May, Stale, Suits, JobOK
<1>12. QED
  BY <1>6, <1>7, <1>8, <1>9, <1>10, <1>11 DEF IInv

\* A change of the row and the jobs by nobody that the model calls a session.
LEMMA OutsideStep ==
  ASSUME IInv, MayTransact(None), UNCHANGED <<sessionVars, saved, disturbed, repeated>>,
         blocked' \in BOOLEAN, acts' \in 0..MaxActs, faults' \in 0..MaxFaults,
         Stored(row', jobs'), Goes(row', jobs', Sessions), Keeps(row, row'),
         \A w \in Workers : task[w] \in Sending(jobs') => jobs'[task[w]] = jobs[task[w]],
         ~disturbed => Visit(row', jobs', Ready(jobs')) /\ Ready(jobs') \subseteq Ready(jobs)
  PROVE  IInv'
<1>1. saved' = None
  BY NoRequestOpen
<1>2. pc' = pc /\ task' = task /\ at' = at /\ attached' = attached /\ error' = error
  BY DEF sessionVars
<1>3. TypeOK'
  BY <1>2 DEF IInv, TypeOK, Stored, JobOK
<1>4. SessInv'
  BY <1>2 DEF IInv, SessInv, Sent, CouldSend, Item
<1>5. StoreInv'
  BY <1>1, <1>2 DEF StoreInv, Stored, RowOK, JobOK, Item
<1>6. GoesInv'
  BY <1>1, <1>2 DEF GoesInv, Goes, Needs, Works, Due
<1>7. VisitInv'
  <2> SUFFICES ASSUME ~disturbed PROVE VisitInv'
    BY DEF VisitInv
  <2>1. Ready(jobs)' = Ready(jobs')
    BY <1>2 DEF Ready, Sending
  <2>2. Visit(row, jobs, Ready(jobs))'
    BY <2>1 DEF Visit, VisitRow, Suits, May, Stale, Spent
  <2>3. \A s \in Sessions : Sent(s)' =>
          Fits(row, at[s].step, at[s].index)' /\ Ready(jobs)' = {}
    <3> SUFFICES ASSUME NEW s \in Sessions, Sent(s)
                 PROVE  Fits(row, at[s].step, at[s].index)' /\ Ready(jobs)' = {}
      BY <1>2 DEF Sent
    <3>1. Fits(row, at[s].step, at[s].index) /\ Ready(jobs) = {}
      BY DEF IInv, VisitInv
    <3>2. Fits(row', at[s].step, at[s].index)
      BY <3>1 DEF Keeps
    <3>3. QED
      BY <1>2, <2>1, <3>1, <3>2 DEF Fits
  <2>4. QED
    BY <1>1, <1>2, <2>2, <2>3 DEF IInv, VisitInv
<1>8. HeldInv'
  <2> SUFFICES ASSUME ~disturbed, NEW w \in Workers, task[w] \in Sending(jobs')
               PROVE  /\ pc[w] = "claimed" => May(row, jobs[task[w]])'
                      /\ pc[w] = "sending" =>
                           Reached(row, at[w].step, at[w].index, jobs[task[w]])'
                      /\ pc[w] = "failing" =>
                           /\ May(row, jobs[task[w]])' \/ Begun(row, jobs[task[w]])'
                           /\ Ready(jobs)' = {}
    BY <1>2 DEF HeldInv, Sending
  <2> DEFINE job == jobs[task[w]]
  <2>1. jobs'[task'[w]] = job /\ task[w] \in Sending(jobs)
    BY <1>2 DEF Sending
  <2>2. /\ pc[w] = "claimed" => May(row, job)
        /\ pc[w] = "sending" => Reached(row, at[w].step, at[w].index, job)
        /\ pc[w] = "failing" => (May(row, job) \/ Begun(row, job)) /\ Ready(jobs) = {}
    BY <2>1 DEF IInv, HeldInv
  <2>3. /\ pc[w] = "claimed" => May(row', job)
        /\ pc[w] = "sending" => Reached(row', at[w].step, at[w].index, job)
        /\ pc[w] = "failing" => May(row', job) \/ Begun(row', job)
    BY <2>2 DEF Keeps
  <2>4. Ready(jobs)' = Ready(jobs')
    BY <1>2 DEF Ready, Sending
  <2> HIDE DEF job
  <2>5. QED
    BY <1>2, <2>1, <2>2, <2>3, <2>4 DEF May, Suits, Stale, Reached, Begun, FirstItem
<1>9. QED
  BY <1>3, <1>4, <1>5, <1>6, <1>7, <1>8 DEF IInv

LEMMA ClaimUnansweredStep ==
  ASSUME IInv, NEW j \in JobIds, ClaimUnanswered(j)
  PROVE  IInv'
<1>1. /\ MayTransact(None) /\ jobs[j].status = "pending" /\ row' = row
      /\ jobs' = [jobs EXCEPT ![j].status = "running", ![j].attempts = @ + 1]
      /\ UNCHANGED <<sessionVars, saved, disturbed, repeated>>
  BY DEF ClaimUnanswered
<1>2. /\ jobs' \in [JobIds -> Jobs]
      /\ jobs'[j].status = "running" /\ JobOK(jobs'[j])
      /\ jobs'[j].type = jobs[j].type /\ jobs'[j].step = jobs[j].step
      /\ jobs'[j].index = jobs[j].index
      /\ \A k \in JobIds : k # j => jobs'[k] = jobs[k]
  BY <1>1, ClaimedJob
<1>3. \A w \in Workers : task[w] # j /\ (task[w] # None => task[w] \in JobIds)
  BY <1>1, RowFacts, NoneAssumption
<1>4. Stored(row', jobs')
  BY <1>1, <1>2, RowFacts DEF Stored
<1>5. Ready(jobs') \subseteq Ready(jobs)
  BY <1>1, <1>2 DEF Ready, Sending, Open
<1>6. \A k \in JobIds : May(row, jobs[k]) \/ Spent(jobs[k]) => May(row', jobs'[k]) \/ Spent(jobs'[k])
  BY <1>1, <1>2 DEF May, Suits, Stale, Spent, JobOK
<1>7. ~disturbed => Visit(row', jobs', Ready(jobs'))
  <2>1. Ready(jobs) \subseteq JobIds
    BY DEF Ready, Sending
  <2>2. QED
    BY <1>1, <1>5, <1>6, <2>1, RowFacts DEF Visit
<1>8. Goes(row', jobs', Sessions)
  <2>1. \A x \in Sessions : Works(x, row, jobs) => Works(x, row', jobs')
    <3> SUFFICES ASSUME NEW x \in Sessions, Works(x, row, jobs) PROVE Works(x, row', jobs')
      OBVIOUS
    <3>1. pc[x] = "claimed" => x \in Workers /\ task[x] \in JobIds
      BY DEF IInv, TypeOK, SessInv
    <3>2. QED
      BY <1>1, <1>2, <1>3, <3>1 DEF Works
  <2>2. Due(row, jobs) => Due(row', jobs')
    BY <1>1, <1>2, <1>3 DEF Due
  <2>3. QED
    BY <1>1, <2>1, <2>2 DEF IInv, GoesInv, Goes
<1>9. blocked' \in BOOLEAN /\ acts' \in 0..MaxActs /\ faults' \in 0..MaxFaults
  BY BoundAssumption DEF ClaimUnanswered, IInv, TypeOK
<1>10. \A w \in Workers : task[w] \in Sending(jobs') => jobs'[task[w]] = jobs[task[w]]
  BY <1>2, <1>3 DEF Sending
<1>11. Keeps(row, row')
  BY <1>1, KeepsItself
<1>12. QED
  BY <1>1, <1>4, <1>5, <1>7, <1>8, <1>9, <1>10, <1>11, OutsideStep

LEMMA RecoverStep ==
  ASSUME IInv, NEW j \in JobIds, Recover(j)
  PROVE  IInv'
<1> DEFINE status == IF AttemptsLeft(j) THEN "pending" ELSE "failed"
           new == [jobs[j] EXCEPT !.status = status]
<1>1. /\ MayTransact(None) /\ jobs[j].status = "running" /\ row' = Reported(row)
      /\ jobs' = [jobs EXCEPT ![j].status = status] /\ \A w \in Workers : task[w] # j
      /\ UNCHANGED <<sessionVars, saved, disturbed, repeated>>
  BY DEF Recover
<1>2. /\ jobs \in [JobIds -> Jobs] /\ jobs[j] \in Jobs /\ JobOK(jobs[j])
  BY RowFacts
<1>3. /\ new.status = status /\ new.attempts = jobs[j].attempts
      /\ new.type = jobs[j].type /\ new.step = jobs[j].step /\ new.index = jobs[j].index
      /\ new \in Jobs
  BY <1>2 DEF Jobs, Open, Closed
<1>4. JobOK(new)
  BY <1>1, <1>2, <1>3 DEF JobOK, AttemptsLeft, Open
<1>5. jobs' = [jobs EXCEPT ![j] = new]
  BY <1>1, <1>2
<1> HIDE DEF new
<1>6. /\ jobs' \in [JobIds -> Jobs] /\ jobs'[j] = new
      /\ \A k \in JobIds : k # j => jobs'[k] = jobs[k]
  BY <1>2, <1>3, <1>5
<1>7. row' \in Rows \cup {None} /\ ~Needs(row') /\ Keeps(row, row')
  BY <1>1, RowFacts, BrokenRow
<1>8. Stored(row', jobs')
  BY <1>1, <1>4, <1>6, <1>7, RowFacts DEF Stored, Keeps
<1>9. Ready(jobs') \subseteq Ready(jobs)
  BY <1>1, <1>3, <1>6 DEF Ready, Sending, Open
<1>10. \A k \in Ready(jobs') :
         May(row, jobs[k]) \/ Spent(jobs[k]) => May(row', jobs'[k]) \/ Spent(jobs'[k])
  <2> SUFFICES ASSUME NEW k \in Ready(jobs'), May(row, jobs[k]) \/ Spent(jobs[k])
               PROVE  May(row', jobs'[k]) \/ Spent(jobs'[k])
    OBVIOUS
  <2>1. k \in JobIds /\ jobs'[k].status \in Open
    BY DEF Ready, Sending
  <2>2. CASE k # j
    BY <1>6, <1>7, <2>1, <2>2 DEF Keeps
  <2>3. CASE k = j
    <3>1. AttemptsLeft(j)
      BY <1>3, <1>6, <2>1, <2>3 DEF Open
    <3>2. May(row, jobs[j])
      BY <2>3, <3>1 DEF Spent, AttemptsLeft
    <3>3. May(row, new)
      BY <1>3, <3>2 DEF May, Suits, Stale
    <3>4. QED
      BY <1>6, <1>7, <2>3, <3>3 DEF Keeps
  <2>4. QED
    BY <2>2, <2>3
<1>11. ~disturbed => Visit(row', jobs', Ready(jobs'))
  BY <1>7, <1>9, <1>10, RowFacts DEF Visit, Keeps
<1>12. Goes(row', jobs', Sessions)
  BY <1>7 DEF Goes
<1>13. blocked' \in BOOLEAN /\ acts' \in 0..MaxActs /\ faults' \in 0..MaxFaults
  BY DEF Recover, IInv, TypeOK
<1>14. \A w \in Workers : task[w] \in Sending(jobs') => jobs'[task[w]] = jobs[task[w]]
  BY <1>1, <1>6 DEF Sending
<1>15. QED
  BY <1>1, <1>7, <1>8, <1>9, <1>11, <1>12, <1>13, <1>14, OutsideStep

\* Every pause: the row is paused, pending jobs are cancelled.
LEMMA PausingStep ==
  ASSUME IInv, MayTransact(None), row \in Rows, row' = PausedOf(row),
         jobs' = CancelPending(jobs), UNCHANGED <<sessionVars, saved, disturbed, repeated>>,
         blocked' \in BOOLEAN, acts' \in 0..MaxActs, faults' \in 0..MaxFaults
  PROVE  IInv'
<1>1. /\ row' \in Rows /\ row' # None /\ ~Needs(row') /\ row'.step = row.step
      /\ row'.marker = row.marker /\ row'.sent = row.sent /\ row'.waiting = row.waiting
      /\ row'.completed = row.completed
  BY PausedOfRow
<1>2. row # None
  BY NoneAssumption
<1>3. /\ jobs' \in [JobIds -> Jobs]
      /\ \A j \in JobIds : JobOK(jobs'[j])
      /\ \A j \in JobIds : jobs[j].status # "pending" => jobs'[j].status # "pending"
      /\ \A j \in Sending(jobs') : j \in Sending(jobs) /\ jobs'[j] = jobs[j]
  BY RowFacts, PrunedJobs, CancelsPrune
<1>4. Stored(row', jobs')
  BY <1>1, <1>2, <1>3, RowFacts DEF Stored, RowOK
<1>5. Goes(row', jobs', Sessions)
  BY <1>1 DEF Goes
<1>6. Ready(jobs') \subseteq Ready(jobs) /\ \A j \in Ready(jobs') : jobs'[j] = jobs[j]
  BY <1>3 DEF Ready
<1>7. Keeps(row, row')
  BY <1>1, SameVisit
<1>8. \A w \in Workers : task[w] \in Sending(jobs') => jobs'[task[w]] = jobs[task[w]]
  BY <1>3
<1>9. ~disturbed => Visit(row', jobs', Ready(jobs'))
  BY <1>6, <1>7, RowFacts DEF Visit, Keeps
<1>10. QED
  BY <1>4, <1>5, <1>6, <1>7, <1>8, <1>9, OutsideStep

LEMMA UnpausedRow == IInv /\ Accepts => row \in Rows
  BY DEF IInv, TypeOK, Accepts

LEMMA PauseStep == IInv /\ Pause => IInv'
<1> SUFFICES ASSUME IInv, Pause PROVE IInv'
  OBVIOUS
<1>1. row \in Rows /\ row' = PausedOf(row)
  BY UnpausedRow DEF Pause, PausedRow, PausedOf
<1>2. blocked' \in BOOLEAN /\ acts' \in 0..MaxActs /\ faults' \in 0..MaxFaults
  BY BoundAssumption DEF Pause, IInv, TypeOK
<1>3. QED
  BY <1>1, <1>2, PausingStep DEF Pause

\* The block of an inactive funnel, the return of the user.
LEMMA QuietStep ==
  ASSUME IInv, MayTransact(None), UNCHANGED <<row, jobs, sessionVars, saved, disturbed, repeated>>,
         blocked' \in BOOLEAN, acts' \in 0..MaxActs, faults' \in 0..MaxFaults
  PROVE  IInv'
<1>1. row' = row /\ jobs' = jobs
  OBVIOUS
<1>2. Stored(row', jobs') /\ Goes(row', jobs', Sessions)
  BY <1>1 DEF IInv, StoreInv, GoesInv
<1>3. ~disturbed => Visit(row', jobs', Ready(jobs'))
  BY <1>1, RowFacts
<1>4. Keeps(row, row')
  BY <1>1, KeepsItself
<1>5. QED
  BY <1>1, <1>2, <1>3, <1>4, OutsideStep

LEMMA BlockStep == IInv /\ (Block \/ Unblock) => IInv'
<1> SUFFICES ASSUME IInv, Block \/ Unblock PROVE IInv'
  OBVIOUS
<1>1. blocked' \in BOOLEAN /\ acts' \in 0..MaxActs /\ faults' \in 0..MaxFaults
  <2>1. acts' = acts + 1 /\ acts < MaxActs /\ faults' = faults
    BY DEF Block, Unblock
  <2>2. blocked' \in BOOLEAN
    <3>1. CASE Block
      BY <3>1 DEF Block
    <3>2. CASE Unblock
      BY <3>2 DEF Unblock
    <3>3. QED
      BY <3>1, <3>2
  <2>3. QED
    BY <2>1, <2>2, BoundAssumption DEF IInv, TypeOK
<1>2. CASE Block /\ Accepts
  <2>1. row \in Rows /\ row' = PausedOf(row)
    BY <1>2, UnpausedRow DEF Block, PausedRow, PausedOf
  <2>2. QED
    BY <1>1, <1>2, <2>1, PausingStep DEF Block
<1>3. CASE Unblock \/ ~Accepts
  BY <1>1, <1>3, QuietStep DEF Block, Unblock
<1>4. QED
  BY <1>2, <1>3

-----------------------------------------------------------------------------
(* Workers.                                                                *)

\* The job that a claimed worker executes is the only one, or a timeout.
LEMMA ClaimedLeft ==
  ASSUME IInv, NEW w \in Workers, pc[w] = "claimed", ~disturbed, ~Others(w),
         Accepts, row.step = jobs[task[w]].step, jobs[task[w]].status = "running",
         ~Overtakes(task[w])
  PROVE  Left(jobs, w) = {}
<1>1. task[w] \in JobIds /\ JobOK(jobs[task[w]])
  BY HeldJob
<1>2. Left(jobs, w) \subseteq Ready(jobs)
  BY LeftReady DEF Sessions
<1>3. Visit(row, jobs, Ready(jobs))
  BY RowFacts
<1>4. CASE jobs[task[w]].type # "timeout"
  <2>1. task[w] \in Ready(jobs)
    <3>1. \A v \in Workers : task[v] = task[w] => pc[v] = "claimed"
      BY <1>1, NoneAssumption DEF IInv, SessInv
    <3>2. QED
      BY <1>1, <1>4, <3>1 DEF Ready, Sending, Open
  <2>2. QED
    BY <1>2, <1>3, <2>1 DEF Visit, Left
<1>5. CASE jobs[task[w]].type = "timeout"
  <2> SUFFICES ASSUME NEW k \in Left(jobs, w) PROVE FALSE
    OBVIOUS
  <2>1. /\ k \in JobIds /\ k # task[w] /\ jobs[k].status \in Open /\ jobs[k].type # "timeout"
        /\ May(row, jobs[k]) \/ Spent(jobs[k])
        /\ JobOK(jobs[k]) /\ jobs[k].type \in JobTypes
    BY <1>2, <1>3, RowFacts DEF Left, Sending, Visit, Jobs
  <2>2. ~(jobs[k].attempts > 0)
    BY <2>1 DEF Overtakes
  <2>3. Suits(row, jobs[k])
    BY <2>1, <2>2 DEF May, Stale, Spent, JobOK
  <2>4. Kind[row.step] = "input" /\ row.step = jobs[k].step
    BY <1>1, <1>5, <2>3 DEF JobOK, Suits
  <2>5. QED
    BY <2>1, <2>2, <2>4 DEF JobOK, Item, JobTypes
<1>6. QED
  BY <1>4, <1>5

LEMMA StartStep ==
  ASSUME IInv, NEW w \in Workers, Start(w)
  PROVE  IInv'
<1> DEFINE j == task[w]
           n == jobs[j].step
           copies == Copies \cup {w}
<1>1. /\ w \in Sessions /\ pc[w] = "claimed" /\ MayTransact(w)
      /\ disturbed' = (disturbed \/ Others(w) \/ Overtakes(j))
      /\ blocked' = blocked /\ acts' = acts /\ faults' = faults /\ repeated' = repeated
  BY DEF Start, Sessions
<1>2. /\ j \in JobIds /\ jobs[j] \in Jobs /\ JobOK(jobs[j]) /\ jobs[j].status # "pending"
      /\ n \in Steps /\ jobs[j].index \in Nat /\ jobs[j].type \in JobTypes
  BY <1>1, HeldJob DEF Jobs
<1>3. Acting(w)
  <2>1. disturbed' \in BOOLEAN
    BY <1>1 DEF IInv, TypeOK
  <2>2. ~disturbed' => ~disturbed /\ ~Others(w) /\ ~repeated'
    BY <1>1 DEF IInv, VisitInv
  <2>3. QED
    BY <1>1, <2>1, <2>2 DEF Acting, IInv, TypeOK
<1>4. Stored(row, jobs)
  BY DEF IInv, StoreInv
<1>5. ~disturbed' => Left(jobs, w) \subseteq Ready(jobs) /\ Visit(row, jobs, Left(jobs, w))
  <2>1. Left(jobs, w) \subseteq Ready(jobs) /\ Visit(row, jobs, Ready(jobs))
          => Visit(row, jobs, Left(jobs, w))
    BY DEF Visit
  <2>2. QED
    BY <1>1, <1>3, <2>1, LeftReady, RowFacts DEF Acting
<1>6. CASE jobs[j].status # "running"
  <2>1. Leaves(w, Copies) /\ row' = row /\ jobs' = jobs
    BY <1>6 DEF Start
  <2>2. Goes(row, jobs, Sessions \ {w})
    BY <1>1, <1>6, GoesElsewhere DEF Works
  <2>3. Sending(jobs) = Left(jobs, w)
    BY <1>2, <1>6 DEF Sending, Left, Open
  <2>4. QED
    BY <1>1, <1>3, <1>5, <2>1, <2>2, <2>3, RowFacts, LeaveStep
<1>7. CASE jobs[j].status = "running" /\ (~Accepts \/ row.step # n)
  <2>1. Finishes(w, row, jobs, Copies)
    BY <1>7 DEF Start, Ignores
  <2>2. ~Works(w, row, jobs) \/ ~Needs(row)
    BY <1>1, <1>7 DEF Works, Needs, Accepts
  <2>3. Goes(row, jobs, Sessions \ {w})
    BY <1>1, <2>2, GoesElsewhere
  <2>4. QED
    BY <1>1, <1>3, <1>4, <1>5, <2>1, <2>3, FinishStep
<1>8. CASE jobs[j].status = "running" /\ Accepts /\ row.step = n
  <2>1. row \in Rows /\ row # None /\ ~row.completed
    BY <1>8, UnpausedRow DEF Accepts
  <2>2. ~disturbed' => Left(jobs, w) = {} /\ VisitRow(row)
    BY <1>1, <1>8, ClaimedLeft, RowFacts
  <2>3. ~disturbed' /\ jobs[j].type # "timeout" => Suits(row, jobs[j])
    <3> SUFFICES ASSUME ~disturbed', jobs[j].type # "timeout" PROVE Suits(row, jobs[j])
      OBVIOUS
    <3>1. j \in Sending(jobs)
      BY <1>2, <1>8 DEF Sending, Open
    <3>2. May(row, jobs[j])
      BY <1>1, <3>1 DEF IInv, HeldInv
    <3>3. QED
      BY <1>8, <2>1, <3>2 DEF May, Stale
  <2>4. CASE jobs[j].type = "sequence"
    <3>1. Sends(w, row, jobs, n, jobs[j].index, copies)
      BY <1>8, <2>4 DEF Start
    <3>2. Item(n, jobs[j].index)
      BY <1>2, <2>4 DEF JobOK
    <3>3. CouldSend(w, n, jobs[j].index)
      BY <1>2, <3>2 DEF CouldSend, Item
    <3>4. ~disturbed' => Visit(row, jobs, {}) /\ Fits(row, n, jobs[j].index)
      BY <1>8, <2>1, <2>2, <2>3, <2>4, <3>2 DEF Visit, Fits, Suits, Item
    <3>5. ~disturbed' => Reached(row, n, jobs[j].index, jobs[j])
      BY <1>2, <2>3, <2>4 DEF Reached, May, FirstItem
    <3>6. QED
      BY <1>1, <1>2, <1>3, <1>4, <1>8, <2>1, <2>2, <3>1, <3>3, <3>4, <3>5, SendStep
  <2>5. CASE jobs[j].type = "resume"
    <3>1. Enter(w, row, jobs, n, copies)
      BY <1>8, <2>5 DEF Start
    <3>2. ~disturbed' => row.sent = {}
      BY <2>3, <2>5 DEF Suits
    <3>3. QED
      BY <1>1, <1>2, <1>3, <1>4, <1>8, <2>1, <2>2, <3>1, <3>2, EnterStep
  <2>6. CASE jobs[j].type = "delay"
    <3>1. Branch(w, row, jobs, n, copies)
      BY <1>8, <2>6 DEF Start
    <3>2. QED
      BY <1>1, <1>2, <1>3, <1>4, <1>8, <2>1, <2>2, <3>1, BranchStep
  <2>7. CASE jobs[j].type = "timeout"
    <3> DEFINE u == Upsert(row, n, FALSE, FALSE)
    <3>1. Branch(w, u, jobs, n, copies)
      BY <1>8, <2>7 DEF Start
    <3>2. /\ u \in Rows /\ u.step = n /\ u.waiting = FALSE /\ u.marker = row.marker
          /\ u.sent = row.sent
      BY <1>2, <2>1, UpsertRow
    <3> HIDE DEF u
    <3>3. Stored(u, jobs) /\ (~disturbed' => VisitRow(u))
      BY <1>4, <1>8, <2>1, <2>2, <3>2 DEF Stored, RowOK, VisitRow
    <3>4. QED
      BY <1>1, <1>2, <1>3, <2>2, <3>1, <3>2, <3>3, BranchStep
  <2>8. QED
    BY <1>2, <2>4, <2>5, <2>6, <2>7 DEF JobTypes
<1>9. QED
  BY <1>6, <1>7, <1>8

\* The row that a session leaves when it breaks off.
LEMMA BrokenOffRow ==
  ASSUME IInv, NEW s \in Sessions, NEW r \in BrokenOff(s)
  PROVE  r \in Rows \cup {None} /\ RowOK(r) /\ (~disturbed => VisitRow(r))
<1>1. CASE r = row
  BY <1>1, RowFacts
<1>2. CASE pc[s] = "sending" /\ r = Delivered(at[s])
  <2>1. at[s] \in Positions
    BY <1>2 DEF IInv, SessInv, Sent
  <2>2. r \in Rows \cup {None} /\ RowOK(r)
    BY <1>2, <2>1, DeliveredRow, RowFacts DEF RowOK
  <2>3. QED
    BY <1>2, <2>2, DeliveredVisit
<1>3. QED
  BY <1>1, <1>2 DEF BrokenOff

\* A worker meets an exception.
LEMMA FailStep ==
  ASSUME IInv, NEW w \in Workers, MayTransact(w), pc[w] \in {"claimed", "sending"},
         NEW e \in {"transient", "permanent", "blocked", "other"},
         e # "other" => pc[w] = "sending",
         pc' = [pc EXCEPT ![w] = "failing"], error' = [error EXCEPT ![w] = e],
         UNCHANGED <<jobs, task, at, attached, saved, acts, repeated>>,
         row' \in Rows \cup {None}, RowOK(row'), blocked' \in BOOLEAN,
         faults' \in 0..MaxFaults, disturbed' \in BOOLEAN,
         ~disturbed' =>
           /\ ~disturbed
           /\ row' = row \/ (e = "other" /\ pc[w] = "sending" /\ row' = Delivered(at[w]))
  PROVE  IInv'
<1>1. w \in Sessions
  BY DEF Sessions
<1>2. /\ pc'[w] = "failing" /\ error'[w] = e
      /\ \A x \in Sessions : x # w => pc'[x] = pc[x] /\ error'[x] = error[x]
  BY <1>1 DEF IInv, TypeOK
<1>3. saved' = None /\ w \notin Managers
  BY <1>1, ManagersRest, SessionAssumption
<1>4. TypeOK'
  <2>1. /\ pc' \in [Sessions -> {"idle", "claimed", "sending", "failing"}]
        /\ error' \in [Sessions -> {"none", "transient", "permanent", "blocked", "other"}]
    BY DEF IInv, TypeOK
  <2>2. \A x \in Workers : pc'[x] # "idle" <=> task'[x] \in JobIds
    BY <1>1, <1>2 DEF IInv, TypeOK, Sessions
  <2>3. QED
    BY <2>1, <2>2 DEF IInv, TypeOK
<1>5. \A x \in Sessions : Sent(x)' => Sent(x)
  BY <1>1, <1>2 DEF Sent
<1>6. SessInv'
  <2>1. \A x \in Sessions : x \notin Workers => pc'[x] = pc[x]
    BY <1>2
  <2>2. \A m \in Managers : pc'[m] = pc[m]
    BY <1>2, <1>3 DEF Sessions
  <2>3. QED
    BY <1>5, <2>1, <2>2 DEF IInv, SessInv, CouldSend, Item
<1>7. StoreInv'
  BY <1>3 DEF IInv, StoreInv, Stored, RowOK, JobOK, Item
<1>8. GoesInv'
  <2>1. Works(w, row, jobs)'
    BY <1>2 DEF Works
  <2>2. QED
    BY <1>1, <1>3, <2>1 DEF GoesInv, Goes
<1>9. VisitInv' /\ HeldInv'
  <2> SUFFICES ASSUME ~disturbed' PROVE VisitInv' /\ HeldInv'
    BY DEF VisitInv, HeldInv
  <2>1. /\ ~disturbed /\ jobs' = jobs /\ task' = task /\ at' = at
        /\ row' = row \/ (e = "other" /\ pc[w] = "sending" /\ row' = Delivered(at[w]))
    OBVIOUS
  <2>2. \A s, u \in Sessions : pc'[s] # "idle" /\ pc'[u] # "idle" => s = u
    BY <1>1, <1>2, <2>1 DEF IInv, VisitInv
  <2>3. Ready(jobs)' \subseteq Ready(jobs)
    BY <1>1, <1>2, <2>1 DEF Ready, Sending, Sessions
  <2>4. pc[w] = "sending" => Sent(w) /\ Ready(jobs) = {} /\ Fits(row, at[w].step, at[w].index)
    BY <1>1, <2>1 DEF Sent, IInv, VisitInv
  <2>5. Visit(row, jobs, Ready(jobs))'
    <3>1. Visit(row', jobs, Ready(jobs)')
      <4>1. CASE row' = row
        BY <2>1, <2>3, <4>1, RowFacts DEF Visit
      <4>2. CASE pc[w] = "sending" /\ row' = Delivered(at[w])
        BY <1>1, <2>1, <2>3, <2>4, <4>2, DeliveredVisit DEF Visit
      <4>3. QED
        BY <2>1, <4>1, <4>2
    <3>2. QED
      BY <2>1, <3>1 DEF Visit, VisitRow, Suits, May, Stale, Spent
  <2>6. \A x \in Sessions : Sent(x)' => Fits(row, at[x].step, at[x].index)' /\ Ready(jobs)' = {}
    <3> SUFFICES ASSUME NEW x \in Sessions, Sent(x)'
                 PROVE  Fits(row, at[x].step, at[x].index)' /\ Ready(jobs)' = {}
      OBVIOUS
    <3>1. x = w
      BY <1>1, <1>2, <2>2 DEF Sent
    <3>2. e # "other" /\ pc[w] = "sending"
      BY <1>2, <3>1 DEF Sent
    <3>3. QED
      BY <2>1, <2>3, <2>4, <3>1, <3>2 DEF Fits
  <2>7. VisitInv'
    BY <1>3, <2>1, <2>2, <2>5, <2>6 DEF IInv, VisitInv
  <2>8. ASSUME NEW x \in Workers, task[x] \in Sending(jobs)
        PROVE  x = w /\ Ready(jobs)' = {} /\ (May(row', jobs[task[x]]) \/ Begun(row', jobs[task[x]]))
    <3>1. x = w
      BY <1>1, <1>2, <1>4, <2>1, <2>2, <2>8 DEF TypeOK, Sending, Sessions
    <3>2. CASE pc[w] = "claimed"
      <4>1. task[w] \in Ready(jobs)
        BY <2>8, <3>1, <3>2, NoneAssumption DEF Ready, Sending, IInv, SessInv
      <4>2. \A k \in Ready(jobs) : k = task[w]
        BY <2>1, <4>1, RowFacts DEF Visit
      <4>3. task[w] \notin Ready(jobs)'
        BY <1>2, <2>1 DEF Ready
      <4>4. May(row, jobs[task[w]])
        BY <2>1, <2>8, <3>1, <3>2 DEF IInv, HeldInv
      <4>5. QED
        BY <2>1, <2>3, <3>1, <3>2, <4>2, <4>3, <4>4
    <3>3. CASE pc[w] = "sending"
      <4>1. Reached(row, at[w].step, at[w].index, jobs[task[w]])
        BY <2>1, <2>8, <3>1, <3>3 DEF IInv, HeldInv
      <4>2. Reached(Delivered(at[w]), at[w].step, at[w].index + 1, jobs[task[w]])
        BY <2>1, <2>8, <3>1, <3>3, DeliveredReached
      <4>3. QED
        BY <2>1, <2>3, <2>4, <3>1, <3>3, <4>1, <4>2 DEF Reached
    <3>4. QED
      BY <3>2, <3>3
  <2>9. HeldInv'
    <3> SUFFICES ASSUME NEW x \in Workers, task'[x] \in Sending(jobs)'
                 PROVE  /\ pc'[x] = "failing" /\ Ready(jobs)' = {}
                        /\ May(row, jobs[task[x]])' \/ Begun(row, jobs[task[x]])'
      BY DEF HeldInv
    <3>1. task[x] \in Sending(jobs)
      BY <2>1 DEF Sending
    <3>2. x = w /\ Ready(jobs)' = {} /\ (May(row', jobs[task[x]]) \/ Begun(row', jobs[task[x]]))
      BY <2>8, <3>1
    <3>3. QED
      BY <1>2, <2>1, <3>2 DEF May, Suits, Stale, Begun, FirstItem
  <2>10. QED
    BY <2>7, <2>9
<1>10. QED
  BY <1>4, <1>6, <1>7, <1>8, <1>9 DEF IInv

LEMMA SendFailsStep ==
  ASSUME IInv, NEW w \in Workers, SendFails(w)
  PROVE  IInv'
<1>1. PICK why \in {"transient", "permanent", "blocked", "unanswered"} :
        /\ error' = [error EXCEPT ![w] = IF why = "unanswered" THEN "transient" ELSE why]
        /\ blocked' = (blocked \/ why = "blocked")
        /\ row' = IF why = "unanswered" THEN Delivered(at[w]) ELSE row
        /\ disturbed' = (disturbed \/ why = "unanswered")
  BY DEF SendFails
<1> DEFINE e == IF why = "unanswered" THEN "transient" ELSE why
<1>2. e \in {"transient", "permanent", "blocked", "other"}
  OBVIOUS
<1>3. pc[w] = "sending" /\ w \in Sessions
  BY DEF SendFails, Sessions
<1>4. at[w] \in Positions
  BY <1>3 DEF IInv, SessInv, Sent
<1>5. row' \in Rows \cup {None} /\ RowOK(row')
  <2>1. CASE why = "unanswered"
    BY <1>1, <1>4, <2>1, DeliveredRow, RowFacts DEF RowOK
  <2>2. CASE why # "unanswered"
    BY <1>1, <2>2, RowFacts
  <2>3. QED
    BY <2>1, <2>2
<1>6. disturbed' \in BOOLEAN /\ blocked' \in BOOLEAN
  BY <1>1 DEF IInv, TypeOK
<1>7. faults' \in 0..MaxFaults
  BY BoundAssumption DEF SendFails, IInv, TypeOK
<1>8. ~disturbed' => ~disturbed /\ row' = row
  BY <1>1
<1> HIDE DEF e
<1>9. error' = [error EXCEPT ![w] = e]
  BY <1>1 DEF e
<1>10. QED
  BY <1>2, <1>3, <1>5, <1>6, <1>7, <1>8, <1>9, FailStep DEF SendFails

LEMMA JobFailsStep ==
  ASSUME IInv, NEW w \in Workers, JobFails(w)
  PROVE  IInv'
<1>1. faults' \in 0..MaxFaults
  BY BoundAssumption DEF JobFails, IInv, TypeOK
<1>2. row' \in Rows \cup {None} /\ RowOK(row')
  <2>1. w \in Sessions /\ row' \in BrokenOff(w)
    BY DEF JobFails, Sessions
  <2>2. QED
    BY <2>1, BrokenOffRow
<1>3. blocked' \in BOOLEAN /\ disturbed' \in BOOLEAN
  BY DEF JobFails, IInv, TypeOK
<1>4. row' = row \/ (pc[w] = "sending" /\ row' = Delivered(at[w]))
  BY DEF JobFails, BrokenOff
<1>5. QED
  BY <1>1, <1>2, <1>3, <1>4, FailStep DEF JobFails

\* The jobs that a failed, dead or finished worker leaves, but for its own.
LEMMA HeldLeft ==
  ASSUME IInv, NEW s \in Sessions, pc[s] # "idle", ~disturbed
  PROVE  /\ Left(jobs, s) \subseteq Ready(jobs)
         /\ Visit(row, jobs, Left(jobs, s))
         /\ Sent(s) => Left(jobs, s) = {} /\ Fits(row, at[s].step, at[s].index)
         /\ s \in Workers /\ pc[s] # "claimed" /\ task[s] \in Sending(jobs) => Left(jobs, s) = {}
<1>1. Left(jobs, s) \subseteq Ready(jobs)
  BY Alone, LeftReady
<1>2. Visit(row, jobs, Ready(jobs)) /\ (Sent(s) => Fits(row, at[s].step, at[s].index) /\ Ready(jobs) = {})
  BY DEF IInv, VisitInv
<1>3. s \in Workers /\ pc[s] # "claimed" /\ task[s] \in Sending(jobs) => Ready(jobs) = {}
  BY <1>2 DEF IInv, TypeOK, HeldInv, Sent
<1>4. QED
  BY <1>1, <1>2, <1>3 DEF Visit

\* A session leaves row r, and jobs of which its own may be closed; what it was at
\* has become known, or goes to nobody.
LEMMA BrokenOffStep ==
  ASSUME IInv, NEW s \in Sessions, NEW c, Acting(s), Leaves(s, c),
         NEW r \in Rows \cup {None}, RowOK(r), row' \in {Reported(r), Untold(r)},
         jobs' \in [JobIds -> Jobs], \A j \in JobIds : JobOK(jobs'[j]),
         \A j \in JobIds : jobs'[j] # jobs[j] => j = task[s],
         ~disturbed' => /\ Visit(r, jobs, Sending(jobs'))
                        /\ \A j \in Sending(jobs') : jobs'[j] = jobs[j]
  PROVE  IInv'
<1>1. row' \in Rows \cup {None} /\ ~Needs(row') /\ Keeps(r, row')
  BY BrokenRow
<1>2. Goes(row', jobs', Sessions \ {s})
  BY <1>1 DEF Goes
<1>3. \A w \in Workers : w # s /\ task[w] # None => jobs'[task[w]].status # "pending"
  <2> SUFFICES ASSUME NEW w \in Workers, w # s, task[w] # None
               PROVE  jobs'[task[w]].status # "pending"
    OBVIOUS
  <2>1. task[w] \in JobIds /\ jobs[task[w]].status # "pending"
    BY RowFacts
  <2>2. task[w] # task[s]
    BY NoneAssumption DEF IInv, SessInv, Sessions
  <2>3. QED
    BY <2>1, <2>2
<1>4. ~disturbed' => Visit(row', jobs', Sending(jobs'))
  BY <1>1 DEF Visit, Keeps
<1>5. RowOK(row')
  BY <1>1 DEF Keeps
<1>6. QED
  BY <1>1, <1>2, <1>3, <1>4, <1>5, LeaveStep

\* A worker's job is closed for good.
LEMMA ClosedJob ==
  ASSUME IInv, NEW w \in Workers, pc[w] # "idle", NEW status \in Closed,
         jobs' = [jobs EXCEPT ![task[w]].status = status]
  PROVE  /\ jobs' \in [JobIds -> Jobs] /\ \A j \in JobIds : JobOK(jobs'[j])
         /\ \A j \in JobIds : j # task[w] => jobs'[j] = jobs[j]
         /\ Sending(jobs') = Left(jobs, w)
         /\ \A j \in Sending(jobs') : jobs'[j] = jobs[j]
<1> DEFINE k == task[w]
           new == [jobs[k] EXCEPT !.status = status]
<1>1. k \in JobIds /\ jobs[k] \in Jobs /\ JobOK(jobs[k]) /\ jobs \in [JobIds -> Jobs]
  BY HeldJob, RowFacts
<1>2. /\ new \in Jobs /\ new.status = status /\ new.type = jobs[k].type
      /\ new.step = jobs[k].step /\ new.index = jobs[k].index
  BY <1>1 DEF Jobs
<1>3. JobOK(new) /\ new.status \notin Open
  BY <1>1, <1>2 DEF JobOK, Open, Closed
<1>4. jobs' = [jobs EXCEPT ![k] = new]
  BY <1>1
<1> HIDE DEF new
<1>5. jobs'[k] = new /\ \A j \in JobIds : j # k => jobs'[j] = jobs[j]
  BY <1>1, <1>4
<1>6. jobs' \in [JobIds -> Jobs] /\ \A j \in JobIds : JobOK(jobs'[j])
  BY <1>1, <1>2, <1>3, <1>4, <1>5, RowFacts
<1>7. Sending(jobs') = Left(jobs, w)
  BY <1>3, <1>5 DEF Sending, Left
<1>8. \A j \in Left(jobs, w) : j \in JobIds /\ j # k
  BY DEF Sending, Left
<1>9. QED
  BY <1>5, <1>6, <1>7, <1>8

LEMMA WorkerActs ==
  ASSUME IInv, NEW w \in Workers, pc[w] # "idle", MayTransact(w), disturbed' \in BOOLEAN,
         ~disturbed' => ~disturbed, repeated' = repeated, blocked' = blocked, acts' = acts,
         faults' \in 0..MaxFaults
  PROVE  Acting(w) /\ w \in Sessions
<1>1. ~disturbed' => ~disturbed /\ ~Others(w) /\ ~repeated'
  BY Alone DEF IInv, VisitInv, Sessions
<1>2. QED
  BY <1>1 DEF Acting, IInv, TypeOK, Sessions

\* Where the job goes on is where the chat is, at what has not been sent.
LEMMA RetriedJob ==
  ASSUME IInv, NEW w \in Workers, pc[w] = "failing", error[w] # "other",
         StillRuns(task[w]), MayRetry(w)
  PROVE  LET q == [RetryAt(w) EXCEPT !.status = "pending"] IN
         /\ q \in Jobs /\ JobOK(q) /\ q.status = "pending" /\ row # None /\ q.step = row.step
         /\ ~disturbed /\ q.type # "timeout" => Suits(row, q)
<1> DEFINE jb == jobs[task[w]]
           p == at[w]
           q == [RetryAt(w) EXCEPT !.status = "pending"]
<1>1. /\ task[w] \in JobIds /\ jb \in Jobs /\ JobOK(jb) /\ jb.status = "running"
      /\ jb.attempts < MaxAttempts /\ jb.attempts > 0
  BY HeldJob DEF StillRuns, MayRetry, AttemptsLeft, JobOK
<1>2. w \in Sessions /\ Sent(w)
  BY DEF Sessions, Sent
<1>3. /\ p \in Positions /\ p.step \in Steps /\ p.index \in Nat
      /\ CouldSend(w, p.step, p.index)
  BY <1>2 DEF IInv, SessInv, Positions
<1>4. row \in Rows /\ row # None /\ ~row.completed /\ row.step \in Steps
  BY UnpausedRow DEF MayRetry, Accepts, Rows
<1>5. ~disturbed => Fits(row, p.step, p.index)
  BY <1>2, HeldLeft
<1>6. CASE Kind[p.step] = "message" /\ row.step = p.step
  <2> DEFINE v == [jb EXCEPT !.type = "sequence", !.step = p.step, !.index = p.index]
  <2>1. RetryAt(w) = v
    BY <1>6 DEF RetryAt
  <2>2. /\ v \in Jobs /\ v.type = "sequence" /\ v.step = p.step /\ v.index = p.index
        /\ v.attempts = jb.attempts
    BY <1>1, <1>3 DEF Jobs, JobTypes
  <2> HIDE DEF v
  <2>3. /\ q \in Jobs /\ q.type = "sequence" /\ q.step = p.step /\ q.index = p.index
        /\ q.attempts = jb.attempts /\ q.status = "pending"
    BY <2>1, <2>2 DEF Jobs, Open
  <2> HIDE DEF q
  <2>4. JobOK(q)
    BY <1>1, <1>3, <1>6, <2>3 DEF JobOK, CouldSend
  <2>5. ~disturbed => Suits(row, q)
    BY <1>4, <1>5, <1>6, <2>3 DEF Fits, Suits
  <2>6. QED
    BY <1>4, <1>6, <2>3, <2>4, <2>5 DEF q
<1>7. CASE ~(Kind[p.step] = "message" /\ row.step = p.step) /\ row.step = jb.step
  <2>1. RetryAt(w) = jb
    BY <1>7 DEF RetryAt
  <2>2. /\ q \in Jobs /\ q.type = jb.type /\ q.step = jb.step /\ q.index = jb.index
        /\ q.attempts = jb.attempts /\ q.status = "pending"
    BY <1>1, <2>1 DEF Jobs, Open
  <2> HIDE DEF q
  <2>3. JobOK(q)
    BY <1>1, <2>2 DEF JobOK
  <2>4. ASSUME ~disturbed PROVE Suits(row, q)
    <3>1. row.step = p.step /\ Kind[row.step] # "message" /\ p.index = 0
      BY <1>3, <1>5, <1>7, <2>4 DEF Fits, CouldSend
    <3>2. row.sent = {}
      BY <1>5, <2>4, <3>1 DEF Fits
    <3>3. QED
      BY <1>1, <1>4, <1>7, <2>2, <3>1, <3>2 DEF Suits
  <2>5. QED
    BY <1>4, <1>7, <2>2, <2>3, <2>4 DEF q
<1>8. CASE ~(Kind[p.step] = "message" /\ row.step = p.step) /\ row.step # jb.step
  <2> DEFINE v == [jb EXCEPT !.type = "resume", !.step = row.step, !.index = 0]
  <2>1. RetryAt(w) = v
    BY <1>8 DEF RetryAt
  <2>2. v \in Jobs /\ v.type = "resume" /\ v.step = row.step /\ v.attempts = jb.attempts
    BY <1>1, <1>4 DEF Jobs, JobTypes
  <2> HIDE DEF v
  <2>3. /\ q \in Jobs /\ q.type = "resume" /\ q.step = row.step
        /\ q.attempts = jb.attempts /\ q.status = "pending"
    BY <2>1, <2>2 DEF Jobs, Open
  <2> HIDE DEF q
  <2>4. JobOK(q)
    BY <1>1, <2>3 DEF JobOK
  <2>5. ASSUME ~disturbed PROVE Suits(row, q)
    <3>1. row.step = p.step /\ Kind[row.step] # "message" /\ p.index = 0
      BY <1>3, <1>5, <1>8, <2>5 DEF Fits, CouldSend
    <3>2. row.sent = {}
      BY <1>5, <2>5, <3>1 DEF Fits
    <3>3. QED
      BY <1>4, <2>3, <3>1, <3>2 DEF Suits
  <2>6. QED
    BY <1>4, <2>3, <2>4, <2>5 DEF q
<1>9. QED
  BY <1>6, <1>7, <1>8

LEMMA ResolveDeliveryStep ==
  ASSUME IInv, NEW w \in Workers, ResolveDelivery(w)
  PROVE  IInv'
<1> DEFINE j == task[w]
<1>1. /\ pc[w] = "failing" /\ error[w] # "other" /\ MayTransact(w) /\ Leaves(w, Copies)
      /\ blocked' = blocked /\ acts' = acts /\ faults' = faults
      /\ disturbed' = disturbed /\ repeated' = repeated
  BY DEF ResolveDelivery
<1>2. Acting(w) /\ w \in Sessions
  <2>1. disturbed' \in BOOLEAN /\ faults' \in 0..MaxFaults
    BY <1>1 DEF IInv, TypeOK
  <2>2. QED
    BY <1>1, <2>1, WorkerActs
<1>3. /\ j \in JobIds /\ jobs[j] \in Jobs /\ JobOK(jobs[j]) /\ jobs[j].status # "pending"
  BY <1>1, HeldJob
<1>4. ~disturbed' => Visit(row, jobs, Left(jobs, w)) /\ Left(jobs, w) = {}
  BY <1>1, <1>2, HeldLeft DEF Sent
<1>5. CASE ~StillRuns(j)
  <2>1. row' = Reported(row) /\ jobs' = jobs
    BY <1>5 DEF ResolveDelivery
  <2>2. Sending(jobs) = Left(jobs, w)
    BY <1>3, <1>5 DEF Sending, Left, StillRuns, Open
  <2>3. QED
    BY <1>1, <1>2, <1>4, <2>1, <2>2, RowFacts, BrokenOffStep
<1>6. CASE StillRuns(j) /\ ~MayRetry(w)
  <2> DEFINE status == IF error[w] = "blocked" THEN "cancelled" ELSE "failed"
  <2>1. /\ row' \in {Reported(row), Untold(row)}
        /\ jobs' = [jobs EXCEPT ![j].status = status] /\ status \in Closed
    BY <1>6 DEF ResolveDelivery, Closed
  <2>2. /\ jobs' \in [JobIds -> Jobs] /\ \A k \in JobIds : JobOK(jobs'[k])
        /\ \A k \in JobIds : k # j => jobs'[k] = jobs[k]
        /\ Sending(jobs') = Left(jobs, w)
        /\ \A k \in Sending(jobs') : jobs'[k] = jobs[k]
    BY <1>1, <2>1, ClosedJob
  <2> HIDE DEF status
  <2>3. row \in Rows \cup {None} /\ RowOK(row) /\ \A k \in JobIds : jobs'[k] # jobs[k] => k = j
    BY <2>2, RowFacts
  <2>4. ~disturbed' => Visit(row, jobs, Sending(jobs'))
    BY <1>4, <2>2
  <2>5. QED
    BY <1>1, <1>2, <2>1, <2>2, <2>3, <2>4, BrokenOffStep
<1>7. CASE StillRuns(j) /\ MayRetry(w)
  <2> DEFINE q == [RetryAt(w) EXCEPT !.status = "pending"]
  <2>1. /\ q \in Jobs /\ JobOK(q) /\ q.status = "pending" /\ row # None /\ q.step = row.step
        /\ ~disturbed /\ q.type # "timeout" => Suits(row, q)
    BY <1>1, <1>7, RetriedJob
  <2>2. row' = row /\ jobs' = [jobs EXCEPT ![j] = q]
    BY <1>7 DEF ResolveDelivery
  <2> HIDE DEF q
  <2>3. jobs' \in [JobIds -> Jobs] /\ jobs'[j] = q /\ \A k \in JobIds : k # j => jobs'[k] = jobs[k]
    BY <1>3, <2>1, <2>2, RowFacts
  <2>4. \A k \in JobIds : JobOK(jobs'[k])
    BY <2>1, <2>3, RowFacts
  <2>5. \A v \in Workers : v # w /\ task[v] # None => jobs'[task[v]].status # "pending"
    <3> SUFFICES ASSUME NEW v \in Workers, v # w, task[v] # None
                 PROVE  jobs'[task[v]].status # "pending"
      OBVIOUS
    <3>1. task[v] \in JobIds /\ jobs[task[v]].status # "pending"
      BY RowFacts
    <3>2. task[v] # j
      BY DEF IInv, SessInv
    <3>3. QED
      BY <2>3, <3>1, <3>2
  <2>6. Goes(row', jobs', Sessions \ {w})
    BY <1>3, <2>1, <2>2, <2>3 DEF Goes, Due
  <2>7. ASSUME ~disturbed' PROVE Visit(row', jobs', Sending(jobs'))
    <3>1. \A k \in Sending(jobs') : k = j
      BY <1>4, <2>3, <2>7 DEF Sending, Left
    <3>2. j \in Sending(jobs') => Suits(row, q)
      BY <1>1, <2>1, <2>3, <2>7 DEF Sending
    <3>3. QED
      BY <1>1, <2>2, <2>3, <2>7, <3>1, <3>2, RowFacts DEF Visit, May
  <2>8. QED
    BY <1>1, <1>2, <2>2, <2>3, <2>4, <2>5, <2>6, <2>7, RowFacts, LeaveStep
<1>8. QED
  BY <1>5, <1>6, <1>7

LEMMA ResolveOtherStep ==
  ASSUME IInv, NEW w \in Workers, ResolveOther(w)
  PROVE  IInv'
<1>1. /\ pc[w] # "idle" /\ MayTransact(w) /\ Leaves(w, Copies) /\ row' = Reported(row)
      /\ jobs' = [jobs EXCEPT ![task[w]].status = "failed"]
      /\ blocked' = blocked /\ acts' = acts /\ faults' = faults
      /\ disturbed' = disturbed /\ repeated' = repeated
  BY DEF ResolveOther
<1>2. Acting(w) /\ w \in Sessions
  <2>1. disturbed' \in BOOLEAN /\ faults' \in 0..MaxFaults
    BY <1>1 DEF IInv, TypeOK
  <2>2. QED
    BY <1>1, <2>1, WorkerActs
<1>3. /\ jobs' \in [JobIds -> Jobs] /\ \A j \in JobIds : JobOK(jobs'[j])
      /\ \A j \in JobIds : j # task[w] => jobs'[j] = jobs[j]
      /\ Sending(jobs') = Left(jobs, w)
      /\ \A j \in Sending(jobs') : jobs'[j] = jobs[j]
  BY <1>1, ClosedJob DEF Closed
<1>4. ~disturbed' => Visit(row, jobs, Left(jobs, w))
  BY <1>1, <1>2, HeldLeft
<1>5. ~disturbed' => /\ Visit(row, jobs, Sending(jobs'))
                     /\ \A j \in Sending(jobs') : jobs'[j] = jobs[j]
  BY <1>3, <1>4
<1>6. /\ row \in Rows \cup {None} /\ RowOK(row) /\ row' \in {Reported(row), Untold(row)}
      /\ \A j \in JobIds : jobs'[j] # jobs[j] => j = task[w]
  BY <1>1, <1>3, RowFacts
<1>7. QED
  BY <1>1, <1>2, <1>3, <1>5, <1>6, BrokenOffStep

\* What a lost worker leaves: the other jobs, and its own, which is not tried
\* again, is ignored, or begins with what has not been sent.
LEMMA AbandonedVisit ==
  ASSUME IInv, ~disturbed, NEW w \in Workers, pc[w] # "idle", NEW r \in BrokenOff(w),
         ~Replays(w, r)
  PROVE  Visit(r, jobs, Sending(jobs))
<1>1. w \in Sessions /\ task[w] \in JobIds /\ jobs[task[w]].status # "pending"
  BY HeldJob DEF Sessions
<1>2. VisitRow(r) /\ (pc[w] # "sending" => r = row)
  BY <1>1, BrokenOffRow DEF BrokenOff
<1>3. Left(jobs, w) \subseteq Ready(jobs) /\ Visit(row, jobs, Left(jobs, w))
  BY <1>1, HeldLeft
<1>4. CASE pc[w] = "claimed"
  <2>1. \A v \in Workers : v # w => task[v] = None
    BY <1>1, Alone, OthersRest
  <2>2. Sending(jobs) \subseteq Ready(jobs)
    BY <1>4, <2>1, NoneAssumption DEF Sending, Ready
  <2>3. QED
    BY <1>2, <1>4, <2>2, RowFacts DEF Visit
<1>5. CASE pc[w] # "claimed" /\ task[w] \notin Sending(jobs)
  <2>1. Sending(jobs) = Left(jobs, w)
    BY <1>5 DEF Left
  <2>2. CASE pc[w] = "sending"
    <3>1. Left(jobs, w) = {}
      BY <1>1, <2>2, HeldLeft DEF Sent
    <3>2. QED
      BY <1>2, <2>1, <3>1 DEF Visit
  <2>3. QED
    BY <1>2, <1>3, <2>1, <2>2
<1>6. CASE pc[w] # "claimed" /\ task[w] \in Sending(jobs)
  <2> DEFINE job == jobs[task[w]]
  <2>1. \A j \in Sending(jobs) : j = task[w]
    <3>1. Left(jobs, w) = {}
      BY <1>1, <1>6, HeldLeft
    <3>2. QED
      BY <3>1 DEF Left
  <2>2. May(r, job) \/ Begun(r, job)
    <3>1. CASE pc[w] = "failing"
      BY <1>2, <1>6, <3>1 DEF IInv, HeldInv
    <3>2. CASE pc[w] = "sending" /\ r = row
      BY <1>6, <3>2 DEF IInv, HeldInv, Reached
    <3>3. CASE pc[w] = "sending" /\ r = Delivered(at[w])
      BY <1>6, <3>3, DeliveredReached DEF Reached
    <3>4. QED
      BY <1>1, <1>6, <3>1, <3>2, <3>3 DEF BrokenOff, IInv, TypeOK
  <2>3. job.status = "running"
    BY <1>1, <1>6 DEF Sending, Open
  <2>4. May(r, job) \/ Spent(job)
    BY <2>2, <2>3 DEF Begun, Replays, StillRuns, AttemptsLeft, Spent
  <2>5. QED
    BY <1>2, <2>1, <2>4 DEF Visit
<1>7. QED
  BY <1>4, <1>5, <1>6

LEMMA WorkerDiesStep ==
  ASSUME IInv, NEW w \in Workers, WorkerDies(w)
  PROVE  IInv'
<1>1. PICK r \in BrokenOff(w) :
        /\ row' = IF StillRuns(task[w]) THEN r ELSE Untold(r)
        /\ disturbed' = (disturbed \/ Replays(w, r))
  BY DEF WorkerDies
<1>2. /\ pc[w] # "idle" /\ MayTransact(w) /\ Leaves(w, Copies)
      /\ jobs' = jobs /\ blocked' = blocked /\ acts' = acts /\ repeated' = repeated
  BY DEF WorkerDies
<1>3. Acting(w) /\ w \in Sessions
  <2>1. faults' \in 0..MaxFaults
    BY BoundAssumption DEF WorkerDies, IInv, TypeOK
  <2>2. disturbed' \in BOOLEAN
    BY <1>1 DEF Replays, IInv, TypeOK
  <2>3. QED
    BY <1>1, <1>2, <2>1, <2>2, WorkerActs
<1>4. r \in Rows \cup {None} /\ RowOK(r)
  BY <1>3, BrokenOffRow
<1>5. ~disturbed' => Visit(r, jobs, Sending(jobs))
  BY <1>1, <1>2, AbandonedVisit
<1>6. CASE StillRuns(task[w])
  BY <1>1, <1>2, <1>3, <1>4, <1>5, <1>6, RowFacts, LeaveStep DEF StillRuns
<1>7. CASE ~StillRuns(task[w])
  BY <1>1, <1>2, <1>3, <1>4, <1>5, <1>7, RowFacts, BrokenOffStep
<1>8. QED
  BY <1>6, <1>7

LEMMA OutcomeLostStep ==
  ASSUME IInv, NEW w \in Workers, OutcomeLost(w)
  PROVE  IInv'
<1>1. /\ pc[w] # "idle" /\ MayTransact(w) /\ Leaves(w, Copies) /\ row' = Reported(row)
      /\ jobs' = jobs /\ blocked' = blocked /\ acts' = acts /\ repeated' = repeated
      /\ disturbed' = (disturbed \/ Replays(w, row))
  BY DEF OutcomeLost
<1>2. Acting(w) /\ w \in Sessions
  <2>1. faults' \in 0..MaxFaults
    BY BoundAssumption DEF OutcomeLost, IInv, TypeOK
  <2>2. disturbed' \in BOOLEAN
    BY <1>1 DEF Replays, IInv, TypeOK
  <2>3. QED
    BY <1>1, <2>1, <2>2, WorkerActs
<1>3. row \in BrokenOff(w)
  BY DEF BrokenOff
<1>4. ~disturbed' => Visit(row, jobs, Sending(jobs))
  BY <1>1, <1>3, AbandonedVisit
<1>5. QED
  BY <1>1, <1>2, <1>4, RowFacts, BrokenOffStep

-----------------------------------------------------------------------------
(* Handlers and managers.                                                  *)

LEMMA HandlerDiesStep ==
  ASSUME IInv, NEW s \in Inbounds, HandlerDies(s)
  PROVE  IInv'
<1>1. /\ pc[s] # "idle" /\ MayTransact(s) /\ Leaves(s, Copies)
      /\ jobs' = jobs /\ blocked' = blocked /\ acts' = acts
      /\ repeated' = repeated /\ disturbed' = disturbed
  BY DEF HandlerDies
<1>2. PICK r \in BrokenOff(s) : row' \in {Reported(r), Untold(r)}
  BY DEF HandlerDies
<1>3. s \in Sessions /\ s \notin Workers /\ pc[s] = "sending" /\ task[s] = None
  BY <1>1, SessionAssumption DEF IInv, SessInv, Sessions
<1>4. Acting(s)
  <2>1. faults' \in 0..MaxFaults
    BY BoundAssumption DEF HandlerDies, IInv, TypeOK
  <2>2. ~disturbed' => ~disturbed /\ ~Others(s) /\ ~repeated'
    BY <1>1, <1>3, Alone DEF IInv, VisitInv
  <2>3. QED
    BY <1>1, <1>3, <2>1, <2>2 DEF Acting, IInv, TypeOK
<1>5. r \in Rows \cup {None} /\ RowOK(r) /\ (~disturbed => VisitRow(r))
  BY <1>3, BrokenOffRow
<1>6. Sending(jobs) = Left(jobs, s)
  BY <1>3, NoneAssumption DEF Sending, Left
<1>7. ~disturbed' => Visit(r, jobs, Sending(jobs))
  <2>1. ~disturbed => Left(jobs, s) = {}
    BY <1>3, HeldLeft DEF Sent
  <2>2. QED
    BY <1>1, <1>5, <1>6, <2>1 DEF Visit
<1>8. QED
  BY <1>1, <1>2, <1>3, <1>4, <1>5, <1>7, RowFacts, BrokenOffStep

\* Somebody begins while nobody is at work on the chat and nobody is due to try again.
LEMMA BeginsStep ==
  ASSUME IInv, NEW s \in Inbounds \cup Managers, Begins(s),
         disturbed' \in BOOLEAN, ~disturbed' => ~disturbed /\ ~Interrupts(s)
  PROVE  /\ Acting(s) /\ s \in Sessions /\ \A js : task[s] \notin Sending(js)
         /\ ~disturbed' => /\ Left(jobs, s) \subseteq Ready(jobs)
                           /\ \A j \in Left(jobs, s) : /\ j \in JobIds /\ Suits(row, jobs[j])
                                                      /\ jobs[j].type \in {"sequence", "delay"}
                           /\ \A j \in JobIds : jobs[j].status # "running"
<1>1. s \in Sessions /\ s \notin Workers /\ task[s] = None
  BY SessionAssumption DEF IInv, SessInv, Sessions
<1>2. Acting(s)
  <2>1. acts' \in 0..MaxActs
    BY BoundAssumption DEF Begins, IInv, TypeOK
  <2>2. ~disturbed' => ~disturbed /\ ~Others(s) /\ ~repeated'
    BY DEF Begins, Interrupts, IInv, VisitInv
  <2>3. QED
    BY <1>1, <2>1, <2>2 DEF Begins, Acting, IInv, TypeOK
<1>3. ASSUME ~disturbed'
      PROVE  /\ Left(jobs, s) \subseteq Ready(jobs)
             /\ \A j \in Left(jobs, s) : /\ j \in JobIds /\ Suits(row, jobs[j])
                                         /\ jobs[j].type \in {"sequence", "delay"}
             /\ \A j \in JobIds : jobs[j].status # "running"
  <2>1. Left(jobs, s) \subseteq Ready(jobs) /\ ~disturbed
    BY <1>1, <1>2, <1>3, LeftReady DEF Acting
  <2>2. \A j \in JobIds : ~(jobs[j].status \in Open /\ jobs[j].attempts > 0)
    BY <1>3 DEF Interrupts
  <2>3. \A j \in JobIds : jobs[j].status # "running"
    BY <2>2, RowFacts DEF JobOK, Open
  <2>4. \A j \in Left(jobs, s) :
          /\ j \in JobIds /\ jobs[j].type # "timeout" /\ jobs[j].type # "resume"
          /\ jobs[j].type \in JobTypes
    BY <2>2, RowFacts DEF Left, Sending, JobOK, Jobs
  <2>5. \A j \in Left(jobs, s) : Suits(row, jobs[j])
    <3> SUFFICES ASSUME NEW j \in Left(jobs, s) PROVE Suits(row, jobs[j])
      OBVIOUS
    <3>1. May(row, jobs[j]) \/ Spent(jobs[j])
      BY <2>1, RowFacts DEF Visit
    <3>2. jobs[j].status \in Open /\ j \in JobIds
      BY DEF Left, Sending
    <3>3. QED
      BY <2>2, <2>3, <3>1, <3>2 DEF May, Stale, Spent
  <2>6. QED
    BY <2>1, <2>3, <2>4, <2>5 DEF JobTypes
<1>4. \A js : task[s] \notin Sending(js)
  BY <1>1, NoneAssumption DEF Sending
<1>5. QED
  BY <1>1, <1>2, <1>3, <1>4

\* A step that waits for the user has no job but timeouts.
LEMMA WaitsAlone ==
  ASSUME IInv, NEW s \in Inbounds \cup Managers, row # None,
         \A j \in Left(jobs, s) : /\ j \in JobIds /\ Suits(row, jobs[j])
                                 /\ jobs[j].type \in {"sequence", "delay"},
         Kind[row.step] = "input" \/ (Kind[row.step] = "message" /\ row.waiting)
  PROVE  Left(jobs, s) = {}
<1> SUFFICES ASSUME NEW j \in Left(jobs, s) PROVE FALSE
  OBVIOUS
<1>1. /\ JobOK(jobs[j]) /\ row.step = jobs[j].step /\ jobs[j].type \in {"sequence", "delay"}
      /\ Kind[row.step] = "message" => ~row.waiting
  BY RowFacts DEF Suits
<1>2. QED
  BY <1>1 DEF JobOK, Item

LEMMA AnswerItemStep ==
  ASSUME IInv, NEW s \in Inbounds, AnswerItem(s)
  PROVE  IInv'
<1> DEFINE n == row.step
           r == Upsert(row, n, FALSE, FALSE)
           i == row.marker.index
           copies == Copies \cup {s}
<1>1. /\ Begins(s) /\ Accepts /\ row.waiting /\ Kind[n] = "message" /\ Marked(n)
      /\ disturbed' = (disturbed \/ Interrupts(s))
  BY DEF AnswerItem
<1>2. row \in Rows /\ row # None /\ n \in Steps /\ ~row.completed
  BY <1>1, UnpausedRow DEF Accepts, Rows
<1>3. disturbed' \in BOOLEAN
  BY <1>1 DEF IInv, TypeOK
<1>4. /\ Acting(s) /\ s \in Sessions /\ task[s] \notin Sending(jobs)
      /\ ~disturbed' => Left(jobs, s) = {} /\ VisitRow(row)
  BY <1>1, <1>2, <1>3, BeginsStep, WaitsAlone, RowFacts
<1>5. /\ r \in Rows /\ r.step = n /\ r.waiting = FALSE /\ r.completed = FALSE
      /\ r.marker = row.marker /\ r.sent = row.sent
  BY <1>2, UpsertRow
<1>6. r # None
  BY <1>5, NoneAssumption
<1>7. CASE PlayAfter(s, r, jobs, n, i, copies)
  <2>1. Item(n, i)
    BY <1>1, <1>2, RowFacts DEF Marked, RowOK
  <2> HIDE DEF r
  <2>2. Stored(r, jobs)
    BY <1>2, <1>5, <1>6 DEF IInv, StoreInv, Stored, RowOK
  <2>3. ~disturbed' => VisitRow(r) /\ \A p \in r.sent : p.index <= i
    BY <1>1, <1>2, <1>4, <1>5 DEF VisitRow
  <2>4. QED
    BY <1>2, <1>4, <1>5, <1>6, <1>7, <2>1, <2>2, <2>3, PlayAfterStep
<1>8. ASSUME NEW m \in Follow[n], Enter(s, MoveTo(r, m, FALSE), jobs, m, copies) PROVE IInv'
  <2>1. Stored(r, jobs)
    BY <1>2, <1>5, <1>6 DEF IInv, StoreInv, Stored, RowOK
  <2>2. m \in Steps
    BY <1>2, StepAssumption
  <2> HIDE DEF r
  <2>3. QED
    BY <1>4, <1>5, <1>8, <2>1, <2>2, TargetStep
<1>9. QED
  BY <1>7, <1>8 DEF AnswerItem

LEMMA AnswerInputStep ==
  ASSUME IInv, NEW s \in Inbounds, AnswerInput(s)
  PROVE  IInv'
<1> DEFINE n == row.step
           r == Upsert(row, n, FALSE, FALSE)
           copies == Copies \cup {s}
<1>1. /\ Begins(s) /\ Accepts /\ Kind[n] = "input"
      /\ disturbed' = (disturbed \/ Interrupts(s))
  BY DEF AnswerInput
<1>2. row \in Rows /\ row # None /\ n \in Steps /\ ~row.completed
  BY <1>1, UnpausedRow DEF Accepts, Rows
<1>3. disturbed' \in BOOLEAN
  BY <1>1 DEF IInv, TypeOK
<1>4. /\ Acting(s) /\ s \in Sessions /\ task[s] \notin Sending(jobs)
      /\ ~disturbed' => Left(jobs, s) = {} /\ VisitRow(row)
  BY <1>1, <1>2, <1>3, BeginsStep, WaitsAlone, RowFacts
<1>5. CASE Sends(s, row, jobs, n, 1, copies)
  <2>1. CouldSend(s, n, 1)
    BY <1>1, <1>2, SessionAssumption DEF CouldSend
  <2>2. Stored(row, jobs)
    BY DEF IInv, StoreInv
  <2>3. ~disturbed' => Visit(row, jobs, {}) /\ Fits(row, n, 1)
    BY <1>1, <1>2, <1>4 DEF Visit, Fits
  <2>4. QED
    BY <1>2, <1>4, <1>5, <2>1, <2>2, <2>3, SendStep
<1>6. CASE Branch(s, r, jobs, n, copies)
  <2>1. /\ r \in Rows /\ r.step = n /\ r.waiting = FALSE /\ r.marker = row.marker
        /\ r.sent = row.sent
    BY <1>2, UpsertRow
  <2> HIDE DEF r
  <2>2. Stored(r, jobs) /\ (~disturbed' => VisitRow(r))
    BY <1>2, <1>4, <2>1 DEF IInv, StoreInv, Stored, RowOK, VisitRow
  <2>3. QED
    BY <1>2, <1>4, <1>6, <2>1, <2>2, BranchStep
<1>7. QED
  BY <1>5, <1>6 DEF AnswerInput

LEMMA PressButtonStep ==
  ASSUME IInv, NEW s \in Inbounds, PressButton(s)
  PROVE  IInv'
<1> DEFINE n == row.step
           r == Upsert(row, n, FALSE, FALSE)
           copies == Copies \cup {s}
<1>1. /\ Begins(s) /\ Accepts /\ Kind[n] = "message"
      /\ disturbed' = (disturbed \/ Interrupts(s) \/ ~row.waiting)
  BY DEF PressButton
<1>2. row \in Rows /\ row # None /\ n \in Steps /\ ~row.completed
  BY <1>1, UnpausedRow DEF Accepts, Rows
<1>3. disturbed' \in BOOLEAN
  BY <1>1 DEF IInv, TypeOK
<1>4. /\ Acting(s) /\ s \in Sessions /\ task[s] \notin Sending(jobs)
      /\ ~disturbed' => Left(jobs, s) = {} /\ VisitRow(row) /\ row.waiting
  BY <1>1, <1>2, <1>3, BeginsStep, WaitsAlone, RowFacts
<1>5. /\ r \in Rows /\ r.step = n /\ r.waiting = FALSE /\ r.completed = FALSE
      /\ r.marker = row.marker /\ r.sent = row.sent
  BY <1>2, UpsertRow
<1>6. r # None
  BY <1>5, NoneAssumption
<1>7. Stored(r, jobs) /\ (~disturbed' => VisitRow(r))
  <2> HIDE DEF r
  <2>1. QED
    BY <1>2, <1>4, <1>5, <1>6 DEF IInv, StoreInv, Stored, RowOK, VisitRow
<1>8. PICK i \in DOMAIN Script[n] :
        /\ Marked(n) => row.marker.index = i
        /\ \/ IF Marked(n) THEN PlayAfter(s, r, jobs, n, i, copies)
                           ELSE MoveOn(s, r, jobs, n, copies)
           \/ \E m \in Follow[n] : Enter(s, MoveTo(r, m, FALSE), jobs, m, copies)
  BY DEF PressButton
<1> HIDE DEF r
<1>9. CASE Marked(n) /\ PlayAfter(s, r, jobs, n, i, copies)
  <2>1. Item(n, i)
    BY <1>2, <1>8, <1>9, RowFacts DEF Marked, RowOK
  <2>2. ~disturbed' => \A p \in r.sent : p.index <= i
    BY <1>1, <1>2, <1>4, <1>5, <1>8, <1>9 DEF VisitRow
  <2>3. QED
    BY <1>2, <1>4, <1>5, <1>6, <1>7, <1>9, <2>1, <2>2, PlayAfterStep
<1>10. CASE MoveOn(s, r, jobs, n, copies)
  BY <1>2, <1>4, <1>5, <1>7, <1>10, MoveOnStep
<1>11. ASSUME NEW m \in Follow[n], Enter(s, MoveTo(r, m, FALSE), jobs, m, copies) PROVE IInv'
  <2>1. m \in Steps
    BY <1>2, StepAssumption
  <2>2. QED
    BY <1>4, <1>5, <1>7, <1>11, <2>1, TargetStep
<1>12. QED
  BY <1>8, <1>9, <1>10, <1>11

LEMMA FreshRowFacts ==
  LET r == FreshRow(First) IN
    r \in Rows /\ r # None /\ r.step = First /\ r.sent = {} /\ RowOK(r) /\ VisitRow(r)
<1> DEFINE r == FreshRow(First)
<1>1. /\ r \in Rows /\ r.step = First /\ r.sent = {} /\ r.marker = None /\ r.waiting = FALSE
  BY StepAssumption DEF FreshRow, Rows
<1> HIDE DEF r
<1>2. QED
  BY <1>1, NoneAssumption DEF RowOK, VisitRow, r

\* A new visit after the jobs of the old one have been cancelled.
LEMMA AfreshStep ==
  ASSUME IInv, NEW s \in Inbounds \cup Managers, NEW r \in Rows, NEW ks, Begins(s),
         ks = CancelPending(jobs) \/ ks = CancelOpen(jobs),
         RowOK(r), disturbed' = (disturbed \/ Interrupts(s))
  PROVE  /\ Acting(s) /\ s \in Sessions /\ Stored(r, ks)
         /\ ~disturbed' => Left(ks, s) = {}
<1>1. disturbed' \in BOOLEAN
  BY DEF IInv, TypeOK
<1>2. /\ Acting(s) /\ s \in Sessions
      /\ ~disturbed' => \A j \in JobIds : jobs[j].status # "running"
  BY <1>1, BeginsStep
<1>3. /\ Pruned(jobs, ks)
      /\ \A j \in JobIds : ks[j].status # "pending"
  BY RowFacts, CancelsPrune DEF Open
<1>4. /\ ks \in [JobIds -> Jobs]
      /\ \A j \in JobIds : JobOK(ks[j])
      /\ \A j \in Sending(ks) : j \in Sending(jobs) /\ ks[j] = jobs[j]
  BY <1>3, RowFacts, PrunedJobs
<1>5. Stored(r, ks)
  BY <1>3, <1>4, RowFacts DEF Stored
<1>6. ~disturbed' => Left(ks, s) = {}
  BY <1>2, <1>3, <1>4 DEF Left, Sending, Open
<1>7. QED
  BY <1>2, <1>5, <1>6

LEMMA StartsStep ==
  ASSUME IInv, NEW s \in Inbounds, StartFunnel(s) \/ Command(s) \/ Restart(s)
  PROVE  IInv'
<1> DEFINE r == FreshRow(First)
<1>1. /\ Begins(s) /\ disturbed' = (disturbed \/ Interrupts(s))
  BY DEF StartFunnel, Command, Restart
<1>2. r \in Rows /\ r # None /\ r.step = First /\ r.sent = {} /\ RowOK(r) /\ VisitRow(r)
  BY FreshRowFacts
<1>3. First \in Steps
  BY StepAssumption
<1>4. CASE StartFunnel(s)
  <2>1. Enter(s, r, jobs, First, Copies \cup {s}) /\ (row # None => row.completed)
    BY <1>4 DEF StartFunnel
  <2>2. disturbed' \in BOOLEAN
    BY <1>1 DEF IInv, TypeOK
  <2>3. Acting(s) /\ s \in Sessions /\ (~disturbed' => Left(jobs, s) = {})
    BY <1>1, <2>1, <2>2, BeginsStep DEF Suits
  <2> HIDE DEF r
  <2>4. Stored(r, jobs)
    BY <1>2 DEF IInv, StoreInv, Stored
  <2>5. QED
    BY <1>2, <1>3, <2>1, <2>3, <2>4, EnterStep
<1>5. CASE Command(s)
  <2>1. Enter(s, r, CancelPending(jobs), First, Copies \cup {s})
    BY <1>5 DEF Command
  <2> HIDE DEF r
  <2>2. QED
    BY <1>1, <1>2, <1>3, <2>1, AfreshStep, EnterStep
<1>6. CASE Restart(s)
  <2>1. Enter(s, r, CancelOpen(jobs), First, {s})
    BY <1>6 DEF Restart
  <2> HIDE DEF r
  <2>2. QED
    BY <1>1, <1>2, <1>3, <2>1, AfreshStep, EnterStep
<1>7. QED
  BY <1>4, <1>5, <1>6

LEMMA ResumeStep ==
  ASSUME IInv, NEW m \in Managers, Resume(m)
  PROVE  IInv'
<1> DEFINE ks == CancelPending(jobs)
           copies == Copies \cup {m}
<1>1. Begins(m) /\ row # None /\ disturbed' = (disturbed \/ Interrupts(m))
  BY DEF Resume
<1>2. row \in Rows /\ row.step \in Steps
  BY <1>1 DEF IInv, TypeOK, Rows
<1>3. ASSUME NEW n \in Steps
      PROVE  LET r == ResumedRow(n) IN
             r \in Rows /\ r.step = n /\ r.sent = {} /\ RowOK(r) /\ VisitRow(r)
  <2> DEFINE v == MoveTo(row, n, FALSE)
             r == [v EXCEPT !.paused = FALSE, !.marker = None]
  <2>1. ResumedRow(n) = r
    BY DEF ResumedRow
  <2>2. v \in Rows /\ v.step = n /\ ~v.waiting /\ v.sent = {}
    BY <1>2, <1>3, MoveToRow
  <2> HIDE DEF v
  <2>3. r \in Rows /\ r.step = n /\ ~r.waiting /\ r.sent = {} /\ r.marker = None
    BY <2>2 DEF Rows
  <2> HIDE DEF r
  <2>4. QED
    BY <2>1, <2>3 DEF RowOK, VisitRow
<1>4. CASE MoveOn(m, ResumedRow(row.step), ks, row.step, copies)
  BY <1>1, <1>2, <1>3, <1>4, AfreshStep, MoveOnStep
<1>5. ASSUME NEW n \in Steps, Enter(m, ResumedRow(n), ks, n, copies) PROVE IInv'
  BY <1>1, <1>3, <1>5, AfreshStep, EnterStep
<1>6. QED
  BY <1>4, <1>5 DEF Resume

LEMMA ResumeFailsStep ==
  ASSUME IInv, NEW m \in Managers, ResumeFails(m)
  PROVE  IInv'
<1>1. /\ pc[m] # "idle" /\ Leaves(m, Copies) /\ row' = saved.row /\ jobs' = saved.jobs
      /\ blocked' = blocked /\ acts' = acts
      /\ disturbed' = disturbed /\ repeated' = repeated
  BY DEF ResumeFails
<1>2. m \in Sessions /\ m \notin Workers /\ MayTransact(m) /\ saved # None
  BY <1>1, SessionAssumption DEF IInv, SessInv, Sessions, MayTransact
<1>3. Acting(m)
  <2>1. faults' \in 0..MaxFaults
    BY BoundAssumption DEF ResumeFails, IInv, TypeOK
  <2>2. ~disturbed' => ~disturbed /\ ~Others(m) /\ ~repeated'
    BY <1>1, <1>2, Alone DEF IInv, VisitInv
  <2>3. QED
    BY <1>1, <1>2, <2>1, <2>2 DEF Acting, IInv, TypeOK
<1>4. Stored(saved.row, saved.jobs)
  BY <1>2 DEF IInv, StoreInv
<1>5. Goes(row', jobs', Sessions \ {m})
  <2>1. Goes(saved.row, saved.jobs, Sessions \ Managers)
    BY <1>2 DEF IInv, GoesInv
  <2>2. QED
    BY <1>1, <2>1 DEF Goes
<1>6. ASSUME ~disturbed' PROVE Visit(row', jobs', Sending(jobs'))
  <2>1. Visit(saved.row, saved.jobs, Ready(saved.jobs))
    BY <1>1, <1>2, <1>6 DEF IInv, VisitInv
  <2>2. \A w \in Workers : task[w] = None
    BY <1>2, <1>3, <1>6, OthersRest DEF Acting
  <2>3. Sending(saved.jobs) = Ready(saved.jobs)
    BY <2>2, NoneAssumption DEF Sending, Ready
  <2>4. QED
    BY <1>1, <2>1, <2>3
<1>7. QED
  BY <1>1, <1>2, <1>3, <1>4, <1>5, <1>6, LeaveStep DEF Stored

LEMMA StutterStep == IInv /\ UNCHANGED vars => IInv'
<1> SUFFICES ASSUME IInv, UNCHANGED vars PROVE IInv'
  OBVIOUS
<1>1. /\ row' = row /\ blocked' = blocked /\ jobs' = jobs /\ pc' = pc /\ task' = task
      /\ at' = at /\ attached' = attached /\ error' = error /\ saved' = saved
      /\ acts' = acts /\ faults' = faults /\ disturbed' = disturbed /\ repeated' = repeated
  BY DEF vars, sessionVars
<1>2. TypeOK'
  BY <1>1 DEF IInv, TypeOK
<1>3. SessInv' /\ StoreInv'
  BY <1>1 DEF IInv, SessInv, StoreInv, Stored, RowOK, JobOK, Sent, CouldSend, Item
<1>4. GoesInv'
  BY <1>1 DEF IInv, GoesInv, Goes, Needs, Works, Due
<1>5. VisitInv'
  BY <1>1 DEF IInv, VisitInv, Visit, VisitRow, Suits, May, Stale, Spent, Fits, Ready, Sending, Sent
<1>6. HeldInv'
  BY <1>1 DEF IInv, HeldInv, Suits, May, Stale, Begun, Reached, FirstItem, Ready, Sending
<1>7. QED
  BY <1>2, <1>3, <1>4, <1>5, <1>6 DEF IInv

LEMMA NextIInv == IInv /\ [Next]_vars => IInv'
<1> SUFFICES ASSUME IInv, [Next]_vars PROVE IInv'
  OBVIOUS
<1>1. ASSUME NEW s \in Sessions, SendOk(s) PROVE IInv'
  BY <1>1, SendOkStep
<1>2. ASSUME NEW w \in Workers, Start(w) \/ SendFails(w) \/ JobFails(w) PROVE IInv'
  BY <1>2, StartStep, SendFailsStep, JobFailsStep
<1>3. ASSUME NEW w \in Workers,
             ResolveDelivery(w) \/ ResolveOther(w) \/ WorkerDies(w) \/ OutcomeLost(w)
      PROVE  IInv'
  BY <1>3, ResolveDeliveryStep, ResolveOtherStep, WorkerDiesStep, OutcomeLostStep
<1>4. ASSUME NEW w \in Workers, NEW j \in JobIds, Claim(w, j) PROVE IInv'
  BY <1>4, ClaimStep
<1>5. ASSUME NEW j \in JobIds, ClaimUnanswered(j) \/ Recover(j) PROVE IInv'
  BY <1>5, ClaimUnansweredStep, RecoverStep
<1>6. ASSUME NEW s \in Inbounds, AnswerItem(s) \/ AnswerInput(s) \/ PressButton(s) PROVE IInv'
  BY <1>6, AnswerItemStep, AnswerInputStep, PressButtonStep
<1>7. ASSUME NEW s \in Inbounds, StartFunnel(s) \/ Command(s) \/ Restart(s) \/ HandlerDies(s)
      PROVE  IInv'
  BY <1>7, StartsStep, HandlerDiesStep
<1>8. CASE Pause \/ Block \/ Unblock
  BY <1>8, PauseStep, BlockStep
<1>9. ASSUME NEW m \in Managers, Resume(m) \/ ResumeFails(m) PROVE IInv'
  BY <1>9, ResumeStep, ResumeFailsStep
<1>10. CASE UNCHANGED vars
  BY <1>10, StutterStep
<1>11. QED
  BY <1>1, <1>2, <1>3, <1>4, <1>5, <1>6, <1>7, <1>8, <1>9, <1>10 DEF Next

-----------------------------------------------------------------------------
(* The theorems.                                                           *)

\* Every reachable state is in order, whoever acts and whatever fails.
THEOREM SpecIInv == Spec => []IInv
<1>1. Init => IInv
  BY InitIInv
<1>2. IInv /\ [Next]_vars => IInv'
  BY NextIInv
<1>3. QED
  BY <1>1, <1>2, PTL DEF Spec

\* The variables keep their types, and no job waits that has no attempt left.
THEOREM SpecTypeOK == Spec => []TypeOK
<1>1. IInv => TypeOK
  BY DEF IInv
<1>2. QED
  BY <1>1, SpecIInv, PTL

\* No item of a step is sent twice on one visit without one of the causes that
\* NoRepeatUnlessDisturbed names: also not by the recovery of a lost executor's
\* job, unless the first item of that job had been accepted.
THEOREM SpecNoRepeatUnlessDisturbed == Spec => []NoRepeatUnlessDisturbed
<1>1. IInv => NoRepeatUnlessDisturbed
  BY DEF IInv, VisitInv, NoRepeatUnlessDisturbed
<1>2. QED
  BY <1>1, SpecIInv, PTL

\* An active funnel waits for its user, is worked on, has a job that will go on,
\* or has met a failure on this visit: one that was handed to the alert or to
\* review, or one of the three that go to nobody.
THEOREM SpecStallIsAccountedFor == Spec => []StallIsAccountedFor
<1>1. IInv => StallIsAccountedFor
  <2> SUFFICES ASSUME IInv, Accepts, ~row.reported, ~row.untold, ~row.waiting,
                      Kind[row.step] # "input"
               PROVE  \/ \E s \in Sessions : pc[s] # "idle"
                      \/ \E j \in JobIds :
                           \/ jobs[j].status = "pending" /\ jobs[j].step = row.step
                           \/ jobs[j].status = "running"
    BY DEF StallIsAccountedFor
  <2>1. Needs(row)
    BY DEF Needs, Accepts
  <2>2. (\E s \in Sessions : Works(s, row, jobs)) \/ Due(row, jobs)
    BY <2>1 DEF IInv, GoesInv, Goes
  <2>3. QED
    BY <2>2 DEF Works, Due
<1>2. QED
  BY <1>1, SpecIInv, PTL
=============================================================================
