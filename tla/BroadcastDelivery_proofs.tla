---------------------- MODULE BroadcastDelivery_proofs -----------------------
(***************************************************************************)
(* Proofs about BroadcastDelivery, for any finite audience, any number of  *)
(* runs, requests and launches, and any concurrency.                       *)
(***************************************************************************)
EXTENDS BroadcastDelivery, FiniteSetTheorems, TLAPS

USE ConcurrencyAssumption, BoundAssumption, FiniteAssumption, NoneAssumption

\* The types, but for the bound on startedStopped, which StopInv gives.
BaseOK ==
  /\ campaign \in CampaignStatuses /\ snapshot \in 0..MaxSnapshots
  /\ row \in [Chats -> RowStatuses] /\ replied \in BOOLEAN
  /\ lock \in Runs \cup {None}
  /\ pc \in [Runs -> RunStates]
  /\ task \in [Runs -> [Chats -> TaskStates]]
  /\ batchOf \in [Runs -> 0..MaxSnapshots] /\ broken \in [Runs -> BOOLEAN]
  /\ request \in [Operators -> [op : Operations, saw : CampaignStatuses] \cup {NoRequest}]
  /\ delivered \in [Chats -> 0..2] /\ startedStopped \in Nat
  /\ overlapped \in BOOLEAN /\ lockLost \in BOOLEAN /\ crashes \in 0..MaxCrashes

\* A run has tasks only in its batch, no more than Concurrency of them inside the
\* semaphore, and as long as the lock held the run that is at work has it.
RunInv ==
  /\ \A w \in Runs, c \in Chats : task[w][c] # "none" => pc[w] = "batch"
  /\ \A w \in Runs : Cardinality(InGate(w)) <= Concurrency
  /\ ~lockLost => \A w \in Runs : pc[w] # "idle" => lock = w

\* The recipients a run is about to start.
Checked == {p \in Runs \X Chats : task[p[1]][p[2]] = "checked"}

\* What has started since the stop and what is about to do so.
StopInv ==
  /\ campaign = "processing" => startedStopped = 0
  /\ startedStopped + Cardinality(Checked) <= Limit

\* A request launches or edits only what it has read as not started; nothing is
\* left of a purged campaign.
RequestInv ==
  /\ \A o \in Operators :
       request[o].op \in Launches \cup {"edit"} => request[o].saw \in {"draft", "scheduled"}
  /\ campaign = "gone" => \A c \in Chats : row[c] = "absent"

\* A recipient that is still to be sent to, by its row or by one task, has not
\* got the campaign.
OnceInv ==
  /\ campaign \in {"draft", "scheduled"} =>
       /\ \A w \in Runs : pc[w] \in {"idle", "starting"}
       /\ \A c \in Chats : delivered[c] = 0
  /\ \A w \in Runs : pc[w] = "batch" => batchOf[w] = snapshot
  /\ \A c \in Chats : delivered[c] <= 1 /\ (row[c] = "pending" => delivered[c] = 0)
  /\ \A w \in Runs, c \in Chats : task[w][c] = "claimed" =>
       row[c] # "pending" /\ delivered[c] = 0
  /\ \A v, w \in Runs, c \in Chats : task[v][c] = "claimed" /\ task[w][c] = "claimed" => v = w

\* A row is "sending" only for a task at work, a broken batch, or a run that has
\* not swept yet.
SettledInv ==
  /\ campaign = "completed" => \A c \in Chats : row[c] \notin {"pending", "sending"}
  /\ \A w \in Runs, c \in Chats :
       /\ pc[w] \in {"check", "pausing", "list", "complete"} => row[c] # "sending"
       /\ pc[w] = "complete" => row[c] # "pending"
       /\ pc[w] = "batch" /\ row[c] = "sending" => broken[w] \/ task[w][c] \in {"claimed", "sent"}

\* The inductive invariant.
IInv ==
  /\ BaseOK /\ RunInv /\ StopInv /\ RequestInv
  /\ ~overlapped => OnceInv
  /\ ~overlapped /\ ~lockLost => SettledInv

-----------------------------------------------------------------------------
(* Counting.                                                               *)

LEMMA RunsCounted == Cardinality(Runs) \in Nat
BY FS_CardinalityType

\* Once the lock was lost the limit is that of every run.
LEMMA LimitFacts ==
  ASSUME lockLost \in BOOLEAN
  PROVE  Limit = IF lockLost THEN Concurrency * Cardinality(Runs) ELSE Concurrency
BY RunsCounted DEF Limit

LEMMA LimitType ==
  ASSUME lockLost \in BOOLEAN
  PROVE  Limit \in Nat
<1>1. \A k \in Nat : Concurrency * k \in Nat
  OBVIOUS
<1>2. QED
  BY <1>1, LimitFacts, RunsCounted

\* A set of at most n elements has numbers 1..n for them.
LEMMA Numbering ==
  ASSUME NEW S, IsFiniteSet(S), NEW n \in Nat, Cardinality(S) <= n
  PROVE  \E f \in [S -> 1..n] : \A x, y \in S : f[x] = f[y] => x = y
<1>1. Cardinality(S) \in Nat /\ ExistsBijection(1..Cardinality(S), S)
  BY FS_CardinalityType
<1>2. PICK g \in Bijection(1..Cardinality(S), S) : TRUE
  BY <1>1 DEF ExistsBijection
<1>3. g \in [1..Cardinality(S) -> S] /\ \A x \in S : \E i \in 1..Cardinality(S) : g[i] = x
  BY <1>2 DEF Bijection, Surjection, Injection
<1> DEFINE f == [x \in S |-> CHOOSE i \in 1..Cardinality(S) : g[i] = x]
<1>4. \A x \in S : f[x] \in 1..Cardinality(S) /\ g[f[x]] = x
  BY <1>3
<1>5. f \in [S -> 1..n] /\ \A x, y \in S : f[x] = f[y] => x = y
  <2>1. \A i \in 1..Cardinality(S) : i \in 1..n
    BY <1>1
  <2>2. \A x \in S : f[x] \in 1..n
    BY <1>4, <2>1
  <2>3. f \in [S -> 1..n]
    BY <2>2
  <2>4. \A x, y \in S : f[x] = f[y] => x = y
    BY <1>4
  <2>5. QED
    BY <2>3, <2>4
<1>6. QED
  BY <1>5

\* The gates of all runs together hold no more than the limit.
LEMMA CheckedBounded ==
  BaseOK /\ RunInv => IsFiniteSet(Checked) /\ Cardinality(Checked) <= Limit
<1> SUFFICES ASSUME BaseOK, RunInv
             PROVE  IsFiniteSet(Checked) /\ Cardinality(Checked) <= Limit
  OBVIOUS
<1>1. \A w \in Runs : IsFiniteSet(InGate(w)) /\ Cardinality(InGate(w)) <= Concurrency
  <2>1. \A w \in Runs : InGate(w) \in SUBSET Chats
    BY DEF InGate
  <2>2. QED
    BY <2>1, FS_Subset DEF RunInv
<1> DEFINE Numbers(w) == {g \in [InGate(w) -> 1..Concurrency] :
                            \A x, y \in InGate(w) : g[x] = g[y] => x = y}
           number == [w \in Runs |-> CHOOSE g : g \in Numbers(w)]
           place  == [p \in Checked |-> <<p[1], number[p[1]][p[2]]>>]
<1>2. \A w \in Runs : number[w] \in Numbers(w)
  <2>1. \A w \in Runs : \E g : g \in Numbers(w)
    BY <1>1, Numbering
  <2>2. QED
    BY <2>1
<1>3. \A p \in Checked : p[1] \in Runs /\ p[2] \in InGate(p[1]) /\ p = <<p[1], p[2]>>
  BY DEF Checked, InGate
<1>p. \A p \in Checked : place[p] = <<p[1], number[p[1]][p[2]]>>
  OBVIOUS
<1>d. place \in [Checked -> {place[p] : p \in Checked}]
  OBVIOUS
<1> HIDE DEF number, place
<1>4. \A p \in Checked : number[p[1]][p[2]] \in 1..Concurrency
  <2>1. ASSUME NEW w \in Runs, NEW c \in InGate(w)
        PROVE  number[w][c] \in 1..Concurrency
    <3>1. number[w] \in [InGate(w) -> 1..Concurrency]
      BY <1>2
    <3>2. QED
      BY <3>1
  <2>2. QED
    BY <1>3, <2>1
<1>5. \A p, q \in Checked : place[p] = place[q] => p = q
  <2>1. ASSUME NEW p \in Checked, NEW q \in Checked, place[p] = place[q]
        PROVE  p = q
    <3>1. p[1] = q[1] /\ number[p[1]][p[2]] = number[p[1]][q[2]]
      BY <2>1, <1>p
    <3>2. number[p[1]] \in Numbers(p[1])
      BY <1>2, <1>3
    <3>3. p[2] = q[2]
      BY <3>1, <3>2, <1>3
    <3>4. QED
      BY <3>1, <3>3, <1>3
  <2>2. QED
    BY <2>1
<1>6. CASE lockLost
  <2>1. place \in Injection(Checked, Runs \X (1..Concurrency))
    <3>1. place \in [Checked -> Runs \X (1..Concurrency)]
      <4>1. \A p \in Checked : place[p] \in Runs \X (1..Concurrency)
        BY <1>3, <1>4, <1>p
      <4>2. QED
        BY <4>1, <1>d
    <3>2. QED
      BY <3>1, <1>5 DEF Injection, IsInjective
  <2>2. /\ IsFiniteSet(1..Concurrency) /\ Cardinality(1..Concurrency) = Concurrency
    BY FS_Interval
  <2>3. /\ IsFiniteSet(Runs \X (1..Concurrency))
        /\ Cardinality(Runs \X (1..Concurrency)) = Cardinality(Runs) * Concurrency
    BY <2>2, FS_Product
  <2>4. IsFiniteSet(Checked) /\ Cardinality(Checked) <= Cardinality(Runs) * Concurrency
    BY <2>1, <2>3, FS_Injection
  <2>5. Limit = Cardinality(Runs) * Concurrency
    BY <1>6, LimitFacts, RunsCounted DEF BaseOK
  <2>6. QED
    BY <2>4, <2>5
<1>7. CASE ~lockLost
  <2>1. \A p, q \in Checked : p[1] = q[1]
    BY <1>7, <1>3 DEF RunInv, InGate
  <2> DEFINE first == [p \in Checked |-> number[p[1]][p[2]]]
  <2>2. first \in Injection(Checked, 1..Concurrency)
    <3>1. first \in [Checked -> 1..Concurrency]
      BY <1>4
    <3>2. \A p, q \in Checked : first[p] = first[q] => p = q
      <4>1. \A p, q \in Checked : first[p] = first[q] => place[p] = place[q]
        BY <2>1, <1>p
      <4>2. QED
        BY <4>1, <1>5
    <3>3. QED
      BY <3>1, <3>2 DEF Injection, IsInjective
  <2>3. /\ IsFiniteSet(1..Concurrency) /\ Cardinality(1..Concurrency) = Concurrency
    BY FS_Interval
  <2>4. IsFiniteSet(Checked) /\ Cardinality(Checked) <= Concurrency
    BY <2>2, <2>3, FS_Injection
  <2>5. QED
    BY <1>7, <2>4, LimitFacts DEF BaseOK
<1>8. QED
  BY <1>6, <1>7 DEF BaseOK

-----------------------------------------------------------------------------
(* What steps keep of the runs and of what may start after a stop.         *)

\* Fewer tasks inside the semaphores.
LEMMA GatesEmpty ==
  ASSUME RunInv, NEW w \in Runs, (InGate(w))' \subseteq InGate(w)
  PROVE  Cardinality((InGate(w))') <= Concurrency
<1>1. InGate(w) \in SUBSET Chats
  BY DEF InGate
<1>2. IsFiniteSet(InGate(w)) /\ Cardinality(InGate(w)) <= Concurrency
  BY <1>1, FS_Subset DEF RunInv
<1>3. Cardinality((InGate(w))') <= Cardinality(InGate(w))
  BY <1>2, FS_Subset
<1>4. Cardinality(InGate(w)) \in Nat /\ Cardinality((InGate(w))') \in Nat
  BY <1>2, FS_Subset, FS_CardinalityType
<1>5. QED
  BY <1>2, <1>3, <1>4

\* One more task inside, where there is room.
LEMMA GateFills ==
  ASSUME RunInv, NEW w \in Runs, NEW c \in Chats, (InGate(w))' \subseteq InGate(w) \cup {c},
         Cardinality(InGate(w)) < Concurrency
  PROVE  Cardinality((InGate(w))') <= Concurrency
<1>1. InGate(w) \in SUBSET Chats
  BY DEF InGate
<1>2. IsFiniteSet(InGate(w)) /\ Cardinality(InGate(w)) \in Nat
  BY <1>1, FS_Subset, FS_CardinalityType
<1>3. /\ IsFiniteSet(InGate(w) \cup {c})
      /\ Cardinality(InGate(w) \cup {c}) <= Cardinality(InGate(w)) + 1
  <2>1. Cardinality(InGate(w) \cup {c}) =
          IF c \in InGate(w) THEN Cardinality(InGate(w)) ELSE Cardinality(InGate(w)) + 1
    BY <1>2, FS_AddElement
  <2>2. IsFiniteSet(InGate(w) \cup {c})
    BY <1>2, FS_AddElement
  <2>3. QED
    BY <1>2, <2>1, <2>2
<1>4. /\ Cardinality((InGate(w))') <= Cardinality(InGate(w) \cup {c})
      /\ Cardinality((InGate(w))') \in Nat /\ Cardinality(InGate(w) \cup {c}) \in Nat
  BY <1>3, FS_Subset, FS_CardinalityType
<1>5. QED
  BY <1>2, <1>3, <1>4

\* A step that changes neither the tasks nor the runs.
LEMMA RunsStand ==
  ASSUME RunInv, UNCHANGED <<task, pc, lock, lockLost>>
  PROVE  RunInv'
BY DEF RunInv, InGate

\* A run ends.
LEMMA RunLeaves ==
  ASSUME BaseOK, RunInv, NEW w \in Runs, Leaves(w), UNCHANGED lockLost
  PROVE  RunInv'
<1>1. /\ pc' = [pc EXCEPT ![w] = "idle"] /\ task' = [task EXCEPT ![w] = NoTasks]
      /\ lock' = IF lock = w THEN None ELSE lock
  BY DEF Leaves
<1>2. \A v \in Runs : (InGate(v))' \subseteq InGate(v)
  BY <1>1 DEF InGate, NoTasks, BaseOK
<1>3. \A v \in Runs : Cardinality((InGate(v))') <= Concurrency
  BY <1>2, GatesEmpty
<1>4. \A v \in Runs, c \in Chats : task'[v][c] # "none" => pc'[v] = "batch"
  BY <1>1 DEF RunInv, BaseOK, NoTasks
<1>5. ~lockLost' => \A v \in Runs : pc'[v] # "idle" => lock' = v
  BY <1>1 DEF RunInv, BaseOK
<1>6. QED
  BY <1>3, <1>4, <1>5 DEF RunInv

\* A run goes on outside a batch.
LEMMA RunGoes ==
  ASSUME BaseOK, RunInv, NEW w \in Runs, NEW s, pc[w] # "idle",
         pc[w] # "batch" \/ task[w] = NoTasks, GoTo(w, s), UNCHANGED lockLost
  PROVE  RunInv'
<1>1. pc' = [pc EXCEPT ![w] = s] /\ UNCHANGED <<task, lock>>
  BY DEF GoTo
<1>2. \A v \in Runs : (InGate(v))' = InGate(v)
  BY <1>1 DEF InGate
<1>3. \A c \in Chats : task[w][c] = "none"
  BY DEF RunInv, NoTasks, BaseOK
<1>4. \A v \in Runs, c \in Chats : task'[v][c] # "none" => pc'[v] = "batch"
  BY <1>1, <1>3 DEF RunInv, BaseOK
<1>5. ~lockLost' => \A v \in Runs : pc'[v] # "idle" => lock' = v
  BY <1>1 DEF RunInv, BaseOK
<1>6. QED
  BY <1>2, <1>4, <1>5 DEF RunInv

\* A task goes on inside the semaphore, or ends.
LEMMA TaskInGate ==
  ASSUME BaseOK, RunInv, NEW w \in Runs, NEW c \in Chats, NEW s, TaskGoes(w, c, s),
         s = "none" \/ c \in InGate(w), UNCHANGED lockLost
  PROVE  RunInv'
<1>1. pc[w] = "batch" /\ task' = [task EXCEPT ![w][c] = s] /\ UNCHANGED <<pc, lock>>
  BY DEF TaskGoes
<1>2. \A v \in Runs : (InGate(v))' \subseteq InGate(v)
  BY <1>1 DEF InGate, BaseOK
<1>3. \A v \in Runs : Cardinality((InGate(v))') <= Concurrency
  BY <1>2, GatesEmpty
<1>4. \A v \in Runs, d \in Chats : task'[v][d] # "none" => pc'[v] = "batch"
  BY <1>1 DEF RunInv, BaseOK
<1>5. QED
  BY <1>1, <1>3, <1>4 DEF RunInv

\* A write of the status that starts nothing.
LEMMA StopKeeps ==
  ASSUME BaseOK, RunInv, StopInv, BaseOK', RunInv', Checked' \subseteq Checked, UNCHANGED lockLost,
         \/ UNCHANGED <<campaign, startedStopped>>
         \/ \E s \in CampaignStatuses : SetCampaign(s)
  PROVE  StopInv'
<1>0. (BaseOK /\ RunInv)' => (IsFiniteSet(Checked) /\ Cardinality(Checked) <= Limit)'
  BY CheckedBounded, PTL
<1>1. /\ IsFiniteSet(Checked') /\ Cardinality(Checked') <= Limit'
  BY <1>0
<1>2. Limit' = Limit /\ Limit \in Nat
  BY LimitType DEF Limit, BaseOK
<1>3. Cardinality(Checked') <= Cardinality(Checked) /\ Cardinality(Checked) \in Nat
      /\ Cardinality(Checked') \in Nat
  BY CheckedBounded, FS_Subset, FS_CardinalityType
<1>4. \/ startedStopped' = 0
      \/ startedStopped' = startedStopped /\ (campaign' = "processing" => campaign = "processing")
  BY DEF SetCampaign
<1>5. CASE startedStopped' = 0
  BY <1>1, <1>2, <1>3, <1>5 DEF StopInv
<1>6. CASE startedStopped' = startedStopped /\ (campaign' = "processing" => campaign = "processing")
  BY <1>2, <1>3, <1>6 DEF StopInv, BaseOK
<1>7. QED
  BY <1>4, <1>5, <1>6

\* The variables of a run that ends, and of a task that goes on, keep their types.
RunTypes ==
  /\ lock \in Runs \cup {None} /\ pc \in [Runs -> RunStates]
  /\ task \in [Runs -> [Chats -> TaskStates]]
  /\ batchOf \in [Runs -> 0..MaxSnapshots] /\ broken \in [Runs -> BOOLEAN]

LEMMA LeavesTypes ==
  ASSUME RunTypes, NEW w \in Runs, Leaves(w)
  PROVE  RunTypes'
<1>1. pc' \in [Runs -> RunStates] /\ lock' \in Runs \cup {None}
  BY DEF RunTypes, Leaves, RunStates
<1>2. task' \in [Runs -> [Chats -> TaskStates]]
  <2>1. NoTasks \in [Chats -> TaskStates]
    BY DEF NoTasks, TaskStates
  <2>2. task' = [task EXCEPT ![w] = NoTasks]
    BY DEF Leaves
  <2>3. QED
    BY <2>1, <2>2 DEF RunTypes
<1>3. batchOf' \in [Runs -> 0..MaxSnapshots]
  BY DEF RunTypes, Leaves
<1>4. broken' \in [Runs -> BOOLEAN]
  BY DEF RunTypes, Leaves
<1>5. QED
  BY <1>1, <1>2, <1>3, <1>4 DEF RunTypes

LEMMA GoToTypes ==
  ASSUME RunTypes, NEW w \in Runs, NEW s \in RunStates, GoTo(w, s)
  PROVE  RunTypes'
BY DEF RunTypes, GoTo

-----------------------------------------------------------------------------
(* Requests of operators, and answers of recipients.                       *)

USE DEF tableVars, runVars, historyVars, CampaignStatuses, RowStatuses,
        TaskStates, RunStates, Operations, Launches, NoRequest,
        NoTasks

LEMMA ReadCampaignStep ==
  ASSUME IInv, NEW o \in Operators, NEW op \in Operations, ReadCampaign(o, op)
  PROVE  IInv'
<1>1. BaseOK'
  BY DEF IInv, BaseOK, ReadCampaign, ReadableBy
<1>2. RunInv'
  BY RunsStand DEF IInv, ReadCampaign
<1>3. Checked' \subseteq Checked
  BY DEF IInv, BaseOK, Checked, ReadCampaign
<1>4. StopInv'
  BY <1>1, <1>2, <1>3, StopKeeps DEF IInv, ReadCampaign
<1>5. /\ RequestInv'
      /\ ~overlapped' => OnceInv'
      /\ ~overlapped' /\ ~lockLost' => SettledInv'
  BY DEF IInv, BaseOK, RunInv, RequestInv, OnceInv, SettledInv, ReadCampaign,
     ReadableBy
<1>6. QED
  BY <1>1, <1>2, <1>4, <1>5 DEF IInv

LEMMA FailRequestStep ==
  ASSUME IInv, NEW o \in Operators, FailRequest(o)
  PROVE  IInv'
<1>1. BaseOK'
  BY DEF IInv, BaseOK, FailRequest
<1>2. RunInv'
  BY RunsStand DEF IInv, FailRequest
<1>3. Checked' \subseteq Checked
  BY DEF IInv, BaseOK, Checked, FailRequest
<1>4. StopInv'
  BY <1>1, <1>2, <1>3, StopKeeps DEF IInv, FailRequest
<1>5. /\ RequestInv'
      /\ ~overlapped' => OnceInv'
      /\ ~overlapped' /\ ~lockLost' => SettledInv'
  BY DEF IInv, BaseOK, RunInv, RequestInv, OnceInv, SettledInv, FailRequest
<1>6. QED
  BY <1>1, <1>2, <1>4, <1>5 DEF IInv

\* A launch makes rows pending; unless it overlaps, nothing was delivered before.
LEMMA LaunchStep ==
  ASSUME IInv, NEW o \in Operators, NEW op \in Launches, Launch(o, op)
  PROVE  IInv'
<1>1. BaseOK'
  <2>1. overlapped' \in BOOLEAN /\ startedStopped' \in Nat
    BY DEF IInv, BaseOK, Launch, MarkOverlap, SetCampaign
  <2>2. /\ request' \in [Operators -> [op : Operations, saw : CampaignStatuses] \cup {NoRequest}]
        /\ campaign' \in CampaignStatuses
    BY DEF IInv, BaseOK, Launch, Writes, SetCampaign
  <2>3. snapshot' \in 0..MaxSnapshots /\ replied' \in BOOLEAN
    <3>1. snapshot < MaxSnapshots /\ snapshot' = snapshot + 1 /\ replied' = FALSE
      BY DEF Launch
    <3>2. snapshot \in 0..MaxSnapshots
      BY DEF IInv, BaseOK
    <3>3. snapshot + 1 \in 0..MaxSnapshots
      BY <3>1, <3>2
    <3>4. QED
      BY <3>1, <3>3
  <2>4. row' \in [Chats -> RowStatuses]
    BY DEF Launch
  <2>5. QED
    BY <2>1, <2>2, <2>3, <2>4 DEF IInv, BaseOK, Launch
<1>2. RunInv'
  BY RunsStand DEF IInv, Launch
<1>3. Checked' \subseteq Checked
  BY DEF IInv, BaseOK, Checked, Launch, Writes
<1>4. StopInv'
  BY <1>1, <1>2, <1>3, StopKeeps DEF IInv, Launch
<1>5. RequestInv'
  BY DEF IInv, BaseOK, RequestInv, Launch, Writes, SetCampaign, MarkOverlap, Alive
<1>6. ~overlapped' => OnceInv'
  BY DEF IInv, BaseOK, RunInv, RequestInv, OnceInv, Launch, Writes, SetCampaign,
     MarkOverlap, Alive
<1>7. ~overlapped' /\ ~lockLost' => SettledInv'
  BY DEF IInv, BaseOK, RunInv, RequestInv, OnceInv, SettledInv, Launch, Writes,
     SetCampaign, MarkOverlap, Alive
<1>8. QED
  BY <1>1, <1>2, <1>4, <1>5, <1>6, <1>7 DEF IInv

\* An edit that does not overlap leaves the status as it is.
LEMMA EditBroadcastStep ==
  ASSUME IInv, NEW o \in Operators, EditBroadcast(o)
  PROVE  IInv'
<1>1. BaseOK'
  <2>1. overlapped' \in BOOLEAN
    BY DEF EditBroadcast, MarkOverlap
  <2>2. request[o].saw \in CampaignStatuses
    BY DEF IInv, BaseOK, EditBroadcast, Writes
  <2>3. QED
    BY <2>1, <2>2 DEF IInv, BaseOK, EditBroadcast, Writes, SetCampaign
<1>2. RunInv'
  BY RunsStand DEF IInv, EditBroadcast
<1>3. Checked' \subseteq Checked
  BY DEF IInv, BaseOK, Checked, EditBroadcast, Writes
<1>4. StopInv'
  <2>1. \E s \in CampaignStatuses : SetCampaign(s)
    BY <1>1 DEF BaseOK, EditBroadcast, SetCampaign
  <2>2. QED
    BY <1>1, <1>2, <1>3, <2>1, StopKeeps DEF IInv, EditBroadcast
<1>5. RequestInv'
  BY DEF IInv, BaseOK, RequestInv, EditBroadcast, Writes, SetCampaign,
     MarkOverlap, Alive
<1>6. ~overlapped' => OnceInv'
  BY DEF IInv, BaseOK, RunInv, RequestInv, OnceInv, EditBroadcast, Writes,
     SetCampaign, MarkOverlap, Alive
<1>7. ~overlapped' /\ ~lockLost' => SettledInv'
  BY DEF IInv, BaseOK, RunInv, RequestInv, OnceInv, SettledInv, EditBroadcast,
     Writes, SetCampaign, MarkOverlap, Alive
<1>8. QED
  BY <1>1, <1>2, <1>4, <1>5, <1>6, <1>7 DEF IInv

LEMMA CancelBroadcastStep ==
  ASSUME IInv, NEW o \in Operators, CancelBroadcast(o)
  PROVE  IInv'
<1>1. BaseOK'
  BY DEF IInv, BaseOK, CancelBroadcast, Writes, SetCampaign, SkipPending, Alive
<1>2. RunInv'
  BY RunsStand DEF IInv, CancelBroadcast
<1>3. Checked' \subseteq Checked
  BY DEF IInv, BaseOK, Checked, CancelBroadcast, Writes
<1>4. StopInv'
  BY <1>1, <1>2, <1>3, StopKeeps DEF IInv, CancelBroadcast
<1>5. /\ RequestInv'
      /\ ~overlapped' => OnceInv'
      /\ ~overlapped' /\ ~lockLost' => SettledInv'
  BY DEF IInv, BaseOK, RunInv, RequestInv, OnceInv, SettledInv, CancelBroadcast,
     Writes, SetCampaign, SkipPending, Alive
<1>6. QED
  BY <1>1, <1>2, <1>4, <1>5 DEF IInv

LEMMA PauseBroadcastStep ==
  ASSUME IInv, NEW o \in Operators, PauseBroadcast(o)
  PROVE  IInv'
<1>1. BaseOK'
  BY DEF IInv, BaseOK, PauseBroadcast, Writes, SetCampaign, Alive
<1>2. RunInv'
  BY RunsStand DEF IInv, PauseBroadcast
<1>3. Checked' \subseteq Checked
  BY DEF IInv, BaseOK, Checked, PauseBroadcast, Writes
<1>4. StopInv'
  BY <1>1, <1>2, <1>3, StopKeeps DEF IInv, PauseBroadcast
<1>5. /\ RequestInv'
      /\ ~overlapped' => OnceInv'
      /\ ~overlapped' /\ ~lockLost' => SettledInv'
  BY DEF IInv, BaseOK, RunInv, RequestInv, OnceInv, SettledInv, PauseBroadcast,
     Writes, SetCampaign, Alive
<1>6. QED
  BY <1>1, <1>2, <1>4, <1>5 DEF IInv

LEMMA ResumeBroadcastStep ==
  ASSUME IInv, NEW o \in Operators, ResumeBroadcast(o)
  PROVE  IInv'
<1>1. BaseOK'
  BY DEF IInv, BaseOK, ResumeBroadcast, Writes, SetCampaign, Alive
<1>2. RunInv'
  BY RunsStand DEF IInv, ResumeBroadcast
<1>3. Checked' \subseteq Checked
  BY DEF IInv, BaseOK, Checked, ResumeBroadcast, Writes
<1>4. StopInv'
  BY <1>1, <1>2, <1>3, StopKeeps DEF IInv, ResumeBroadcast
<1>5. /\ RequestInv'
      /\ ~overlapped' => OnceInv'
      /\ ~overlapped' /\ ~lockLost' => SettledInv'
  BY DEF IInv, BaseOK, RunInv, RequestInv, OnceInv, SettledInv, ResumeBroadcast,
     Writes, SetCampaign, Alive
<1>6. QED
  BY <1>1, <1>2, <1>4, <1>5 DEF IInv

LEMMA PurgeBroadcastStep ==
  ASSUME IInv, NEW o \in Operators, PurgeBroadcast(o)
  PROVE  IInv'
<1>1. BaseOK'
  BY DEF IInv, BaseOK, PurgeBroadcast, Writes, SetCampaign, Alive
<1>2. RunInv'
  BY RunsStand DEF IInv, PurgeBroadcast
<1>3. Checked' \subseteq Checked
  BY DEF IInv, BaseOK, Checked, PurgeBroadcast, Writes
<1>4. StopInv'
  BY <1>1, <1>2, <1>3, StopKeeps DEF IInv, PurgeBroadcast
<1>5. /\ RequestInv'
      /\ ~overlapped' => OnceInv'
      /\ ~overlapped' /\ ~lockLost' => SettledInv'
  BY DEF IInv, BaseOK, RunInv, RequestInv, OnceInv, SettledInv, PurgeBroadcast,
     Writes, SetCampaign, Alive
<1>6. QED
  BY <1>1, <1>2, <1>4, <1>5 DEF IInv

LEMMA ArchiveBroadcastStep ==
  ASSUME IInv, ArchiveBroadcast
  PROVE  IInv'
<1>1. BaseOK'
  BY DEF IInv, BaseOK, ArchiveBroadcast, SetCampaign, SkipPending, Alive
<1>2. RunInv'
  BY RunsStand DEF IInv, ArchiveBroadcast
<1>3. Checked' \subseteq Checked
  BY DEF IInv, BaseOK, Checked, ArchiveBroadcast
<1>4. StopInv'
  BY <1>1, <1>2, <1>3, StopKeeps DEF IInv, ArchiveBroadcast
<1>5. /\ RequestInv'
      /\ ~overlapped' => OnceInv'
      /\ ~overlapped' /\ ~lockLost' => SettledInv'
  BY DEF IInv, BaseOK, RunInv, RequestInv, OnceInv, SettledInv, ArchiveBroadcast,
     SetCampaign, SkipPending, Alive
<1>6. QED
  BY <1>1, <1>2, <1>4, <1>5 DEF IInv

LEMMA ClientRepliesStep ==
  ASSUME IInv, ClientReplies
  PROVE  IInv'
<1>1. BaseOK'
  BY DEF IInv, BaseOK, ClientReplies
<1>2. RunInv'
  BY RunsStand DEF IInv, ClientReplies
<1>3. Checked' \subseteq Checked
  BY DEF IInv, BaseOK, Checked, ClientReplies
<1>4. StopInv'
  BY <1>1, <1>2, <1>3, StopKeeps DEF IInv, ClientReplies
<1>5. /\ RequestInv'
      /\ ~overlapped' => OnceInv'
      /\ ~overlapped' /\ ~lockLost' => SettledInv'
  BY DEF IInv, BaseOK, RunInv, RequestInv, OnceInv, SettledInv, ClientReplies
<1>6. QED
  BY <1>1, <1>2, <1>4, <1>5 DEF IInv

-----------------------------------------------------------------------------
(* The coordinator of a run.                                               *)

\* A run begins only where no other is, unless the lock was lost.
LEMMA TakeLockStep ==
  ASSUME IInv, NEW w \in Runs, TakeLock(w)
  PROVE  IInv'
<1>1. BaseOK'
  BY DEF IInv, BaseOK, TakeLock
<1>2. RunInv'
  <2>1. \A v \in Runs : (InGate(v))' = InGate(v)
    BY DEF TakeLock, InGate
  <2>2. \A v \in Runs, c \in Chats : task'[v][c] # "none" => pc'[v] = "batch"
    BY DEF IInv, BaseOK, RunInv, TakeLock
  <2>3. ~lockLost' => \A v \in Runs : pc'[v] # "idle" => lock' = v
    BY DEF IInv, BaseOK, RunInv, TakeLock
  <2>4. QED
    BY <2>1, <2>2, <2>3 DEF IInv, RunInv
<1>3. Checked' \subseteq Checked
  BY DEF IInv, BaseOK, Checked, TakeLock
<1>4. StopInv'
  BY <1>1, <1>2, <1>3, StopKeeps DEF IInv, TakeLock
<1>5. RequestInv'
  BY DEF IInv, BaseOK, RequestInv, TakeLock
<1>6. ~overlapped' => OnceInv'
  <2> SUFFICES ASSUME ~overlapped' PROVE OnceInv'
    OBVIOUS
  <2>1. /\ pc' = [pc EXCEPT ![w] = pc'[w]] /\ pc[w] = "idle" /\ OnceInv
        /\ UNCHANGED <<campaign, snapshot, row, task, batchOf, delivered>>
        /\ \/ campaign = "scheduled" /\ pc'[w] = "starting"
           \/ campaign = "processing" /\ pc'[w] = "sweep"
    BY DEF IInv, BaseOK, TakeLock
  <2>2. QED
    BY <2>1 DEF IInv, BaseOK, OnceInv
<1>7. ~overlapped' /\ ~lockLost' => SettledInv'
  BY DEF IInv, BaseOK, RunInv, RequestInv, OnceInv, SettledInv, TakeLock
<1>8. QED
  BY <1>1, <1>2, <1>4, <1>5, <1>6, <1>7 DEF IInv

LEMMA StartScheduledStep ==
  ASSUME IInv, NEW w \in Runs, StartScheduled(w)
  PROVE  IInv'
<1>1. BaseOK'
  <2>1. CASE Alive
    <3>1. RunTypes'
      BY <2>1, GoToTypes DEF IInv, BaseOK, RunTypes, StartScheduled
    <3>2. campaign' = "processing" /\ startedStopped' = 0 /\ replied' = FALSE
      BY <2>1 DEF StartScheduled, UpdateInProject, SetCampaign
    <3>3. QED
      BY <3>1, <3>2 DEF IInv, BaseOK, RunTypes, StartScheduled
  <2>2. CASE ~Alive
    <3>1. RunTypes'
      BY <2>2, LeavesTypes DEF IInv, BaseOK, RunTypes, StartScheduled
    <3>2. QED
      BY <2>2, <3>1 DEF IInv, BaseOK, RunTypes, StartScheduled, UpdateInProject
  <2>3. QED
    BY <2>1, <2>2
<1>2. RunInv'
  BY RunGoes, RunLeaves DEF IInv, StartScheduled
<1>3. Checked' \subseteq Checked
  BY DEF IInv, BaseOK, Checked, StartScheduled, GoTo, Leaves
<1>4. StopInv'
  BY <1>1, <1>2, <1>3, StopKeeps DEF IInv, StartScheduled, UpdateInProject
<1>5. RequestInv'
  BY DEF IInv, BaseOK, RequestInv, StartScheduled, UpdateInProject, SetCampaign, Alive,
     GoTo, Leaves
<1>6. ~overlapped' => OnceInv'
  BY DEF IInv, BaseOK, RunInv, RequestInv, OnceInv, StartScheduled, UpdateInProject,
     SetCampaign, Alive, GoTo, Leaves
<1>7. ~overlapped' /\ ~lockLost' => SettledInv'
  BY DEF IInv, BaseOK, RunInv, RequestInv, OnceInv, SettledInv, StartScheduled,
     UpdateInProject, SetCampaign, Alive, GoTo, Leaves
<1>8. QED
  BY <1>1, <1>2, <1>4, <1>5, <1>6, <1>7 DEF IInv

LEMMA FailInterruptedStep ==
  ASSUME IInv, NEW w \in Runs, FailInterrupted(w)
  PROVE  IInv'
<1>1. BaseOK'
  BY DEF IInv, BaseOK, FailInterrupted, SweepRow, GoTo
<1>2. RunInv'
  BY RunGoes DEF IInv, FailInterrupted
<1>3. Checked' \subseteq Checked
  BY DEF IInv, BaseOK, Checked, FailInterrupted, GoTo
<1>4. StopInv'
  BY <1>1, <1>2, <1>3, StopKeeps DEF IInv, FailInterrupted
<1>5. /\ RequestInv'
      /\ ~overlapped' => OnceInv'
      /\ ~overlapped' /\ ~lockLost' => SettledInv'
  BY DEF IInv, BaseOK, RunInv, RequestInv, OnceInv, SettledInv, FailInterrupted,
     SweepRow, GoTo
<1>6. QED
  BY <1>1, <1>2, <1>4, <1>5 DEF IInv

LEMMA CheckCampaignStep ==
  ASSUME IInv, NEW w \in Runs, CheckCampaign(w)
  PROVE  IInv'
<1>1. BaseOK'
  <2>1. RunTypes'
    BY LeavesTypes, GoToTypes DEF IInv, BaseOK, RunTypes, CheckCampaign
  <2>2. QED
    BY <2>1 DEF IInv, BaseOK, RunTypes, CheckCampaign
<1>2. RunInv'
  BY RunGoes, RunLeaves DEF IInv, CheckCampaign
<1>3. Checked' \subseteq Checked
  BY DEF IInv, BaseOK, Checked, CheckCampaign, GoTo, Leaves
<1>4. StopInv'
  BY <1>1, <1>2, <1>3, StopKeeps DEF IInv, CheckCampaign
<1>5. /\ RequestInv'
      /\ ~overlapped' => OnceInv'
      /\ ~overlapped' /\ ~lockLost' => SettledInv'
  BY DEF IInv, BaseOK, RunInv, RequestInv, OnceInv, SettledInv, CheckCampaign,
     GoTo, Leaves
<1>6. QED
  BY <1>1, <1>2, <1>4, <1>5 DEF IInv

LEMMA PauseAfterReplyStep ==
  ASSUME IInv, NEW w \in Runs, PauseAfterReply(w)
  PROVE  IInv'
<1>1. BaseOK'
  BY DEF IInv, BaseOK, PauseAfterReply, UpdateInProject, SetCampaign, Alive,
     Leaves
<1>2. RunInv'
  BY RunLeaves DEF IInv, PauseAfterReply
<1>3. Checked' \subseteq Checked
  BY DEF IInv, BaseOK, Checked, PauseAfterReply, Leaves
<1>4. StopInv'
  BY <1>1, <1>2, <1>3, StopKeeps DEF IInv, PauseAfterReply, UpdateInProject
<1>5. /\ RequestInv'
      /\ ~overlapped' => OnceInv'
      /\ ~overlapped' /\ ~lockLost' => SettledInv'
  BY DEF IInv, BaseOK, RunInv, RequestInv, OnceInv, SettledInv, PauseAfterReply,
     UpdateInProject, SetCampaign, Alive, Leaves
<1>6. QED
  BY <1>1, <1>2, <1>4, <1>5 DEF IInv

\* A batch begins with all its tasks outside the semaphore.
LEMMA ListRecipientsStep ==
  ASSUME IInv, NEW w \in Runs, ListRecipients(w)
  PROVE  IInv'
<1>1. BaseOK'
  <2>1. campaign' \in CampaignStatuses /\ snapshot' \in 0..MaxSnapshots
    BY DEF IInv, BaseOK, ListRecipients, Pending, GoTo
  <2>2. row' \in [Chats -> RowStatuses] /\ replied' \in BOOLEAN
    BY DEF IInv, BaseOK, ListRecipients, Pending, GoTo
  <2>3. lock' \in Runs \cup {None} /\ pc' \in [Runs -> RunStates]
    BY DEF IInv, BaseOK, ListRecipients, Pending, GoTo
  <2>4. task' \in [Runs -> [Chats -> TaskStates]]
    BY DEF IInv, BaseOK, ListRecipients, Pending, GoTo
  <2>5. batchOf' \in [Runs -> 0..MaxSnapshots] /\ broken' \in [Runs -> BOOLEAN]
    BY DEF IInv, BaseOK, ListRecipients, Pending, GoTo
  <2>6. request' \in [Operators -> [op : Operations, saw : CampaignStatuses] \cup {NoRequest}]
    BY DEF IInv, BaseOK, ListRecipients, Pending, GoTo
  <2>7. /\ delivered' \in [Chats -> 0..2] /\ startedStopped' \in Nat
        /\ overlapped' \in BOOLEAN /\ lockLost' \in BOOLEAN /\ crashes' \in 0..MaxCrashes
    BY DEF IInv, BaseOK, ListRecipients, Pending, GoTo
  <2>8. QED
    BY <2>1, <2>2, <2>3, <2>4, <2>5, <2>6, <2>7 DEF BaseOK
<1>2. RunInv'
  <2>a. CASE GoTo(w, "complete")
    BY <2>a, RunGoes DEF IInv, ListRecipients
  <2>b. CASE \E batch \in SUBSET Pending \ {{}} :
               /\ pc' = [pc EXCEPT ![w] = "batch"]
               /\ task' = [task EXCEPT ![w] = [c \in Chats |-> IF c \in batch THEN "queued"
                                                               ELSE "none"]]
               /\ batchOf' = [batchOf EXCEPT ![w] = snapshot]
               /\ UNCHANGED <<broken, lock>>
    <3>1. \A v \in Runs : (InGate(v))' \subseteq InGate(v)
      BY <2>b DEF IInv, BaseOK, InGate
    <3>2. \A v \in Runs : Cardinality((InGate(v))') <= Concurrency
      BY <3>1, GatesEmpty DEF IInv
    <3>3. \A v \in Runs, c \in Chats : task'[v][c] # "none" => pc'[v] = "batch"
      BY <2>b DEF IInv, BaseOK, RunInv
    <3>4. ~lockLost' => \A v \in Runs : pc'[v] # "idle" => lock' = v
      BY <2>b DEF IInv, BaseOK, RunInv, ListRecipients
    <3>5. QED
      BY <3>2, <3>3, <3>4 DEF RunInv
  <2>c. QED
    BY <2>a, <2>b DEF ListRecipients
<1>3. Checked' \subseteq Checked
  BY DEF IInv, BaseOK, Checked, ListRecipients, GoTo
<1>4. StopInv'
  BY <1>1, <1>2, <1>3, StopKeeps DEF IInv, ListRecipients
<1>5. RequestInv'
  BY DEF IInv, BaseOK, RequestInv, ListRecipients, Pending, GoTo
<1>6. ~overlapped' => OnceInv'
  <2> SUFFICES ASSUME ~overlapped' PROVE OnceInv'
    OBVIOUS
  <2>1. /\ OnceInv /\ pc[w] = "list"
        /\ UNCHANGED <<campaign, snapshot, row, delivered>>
    BY DEF IInv, ListRecipients
  <2>2. \A v \in Runs, c \in Chats : task'[v][c] = "claimed" => task[v][c] = "claimed"
    BY DEF IInv, BaseOK, ListRecipients, GoTo
  <2>3. /\ \A v \in Runs : pc'[v] = "batch" => batchOf'[v] = snapshot
        /\ \A v \in Runs : pc'[v] \in {"idle", "starting"} \/ pc[v] \notin {"idle", "starting"}
    BY <2>1 DEF IInv, BaseOK, OnceInv, ListRecipients, GoTo
  <2>4. campaign \notin {"draft", "scheduled"}
    BY <2>1 DEF OnceInv
  <2>5. QED
    BY <2>1, <2>2, <2>3, <2>4 DEF OnceInv
<1>7. ~overlapped' /\ ~lockLost' => SettledInv'
  BY DEF IInv, BaseOK, RunInv, RequestInv, OnceInv, SettledInv, ListRecipients,
     Pending, GoTo
<1>8. QED
  BY <1>1, <1>2, <1>4, <1>5, <1>6, <1>7 DEF IInv

\* A batch ends without a row in flight, or broken.
LEMMA EndBatchStep ==
  ASSUME IInv, NEW w \in Runs, EndBatch(w)
  PROVE  IInv'
<1>1. BaseOK'
  <2>1. RunTypes'
    BY LeavesTypes, GoToTypes DEF IInv, BaseOK, RunTypes, EndBatch
  <2>2. QED
    BY <2>1 DEF IInv, BaseOK, RunTypes, EndBatch
<1>2. RunInv'
  BY RunGoes, RunLeaves DEF IInv, EndBatch
<1>3. Checked' \subseteq Checked
  BY DEF IInv, BaseOK, Checked, EndBatch, GoTo, Leaves
<1>4. StopInv'
  BY <1>1, <1>2, <1>3, StopKeeps DEF IInv, EndBatch
<1>5. RequestInv'
  BY DEF IInv, BaseOK, RequestInv, EndBatch, GoTo, Leaves
<1>6. ~overlapped' => OnceInv'
  <2> SUFFICES ASSUME ~overlapped' PROVE OnceInv'
    OBVIOUS
  <2>0. ~overlapped'
    OBVIOUS
  <2>1. campaign' \in {"draft", "scheduled"} =>
          /\ \A v \in Runs : pc'[v] \in {"idle", "starting"}
          /\ \A d \in Chats : delivered'[d] = 0
    BY <2>0 DEF IInv, BaseOK, RunInv, RequestInv, OnceInv, EndBatch, GoTo, Leaves
  <2>2. \A v \in Runs : pc'[v] = "batch" => batchOf'[v] = snapshot'
    BY <2>0 DEF IInv, BaseOK, RunInv, RequestInv, OnceInv, EndBatch, GoTo, Leaves
  <2>3. \A d \in Chats : delivered'[d] <= 1 /\ (row'[d] = "pending" => delivered'[d] = 0)
    BY <2>0 DEF IInv, BaseOK, RunInv, RequestInv, OnceInv, EndBatch, GoTo, Leaves
  <2>4. \A v \in Runs, d \in Chats : task'[v][d] = "claimed" =>
          row'[d] # "pending" /\ delivered'[d] = 0
    BY <2>0 DEF IInv, BaseOK, RunInv, RequestInv, OnceInv, EndBatch, GoTo, Leaves
  <2>5. \A u, v \in Runs, d \in Chats :
          task'[u][d] = "claimed" /\ task'[v][d] = "claimed" => u = v
    BY <2>0 DEF IInv, BaseOK, RunInv, RequestInv, OnceInv, EndBatch, GoTo, Leaves
  <2>6. QED
    BY <2>1, <2>2, <2>3, <2>4, <2>5 DEF OnceInv
<1>7. ~overlapped' /\ ~lockLost' => SettledInv'
  BY DEF IInv, BaseOK, RunInv, RequestInv, OnceInv, SettledInv, EndBatch, GoTo,
     Leaves
<1>8. QED
  BY <1>1, <1>2, <1>4, <1>5, <1>6, <1>7 DEF IInv

LEMMA CompleteBroadcastStep ==
  ASSUME IInv, NEW w \in Runs, CompleteBroadcast(w)
  PROVE  IInv'
<1>1. BaseOK'
  BY DEF IInv, BaseOK, CompleteBroadcast, MayComplete, SetCampaign, Leaves
<1>2. RunInv'
  BY RunLeaves DEF IInv, CompleteBroadcast
<1>3. Checked' \subseteq Checked
  BY DEF IInv, BaseOK, Checked, CompleteBroadcast, Leaves
<1>4. StopInv'
  BY <1>1, <1>2, <1>3, StopKeeps DEF IInv, CompleteBroadcast, MayComplete
<1>5. /\ RequestInv'
      /\ ~overlapped' => OnceInv'
      /\ ~overlapped' /\ ~lockLost' => SettledInv'
  BY DEF IInv, BaseOK, RunInv, RequestInv, OnceInv, SettledInv, CompleteBroadcast,
     MayComplete, SetCampaign, Leaves
<1>6. QED
  BY <1>1, <1>2, <1>4, <1>5 DEF IInv

-----------------------------------------------------------------------------
(* The tasks of a batch.                                                   *)

\* A task that moves moves alone.
LEMMA TaskMoves ==
  ASSUME BaseOK, NEW w \in Runs, NEW c \in Chats, NEW s \in TaskStates, TaskGoes(w, c, s)
  PROVE  /\ task' \in [Runs -> [Chats -> TaskStates]]
         /\ task'[w][c] = s
         /\ \A v \in Runs, d \in Chats : v # w \/ d # c => task'[v][d] = task[v][d]
<1>1. task \in [Runs -> [Chats -> TaskStates]] /\ task' = [task EXCEPT ![w][c] = s]
  BY DEF BaseOK, TaskGoes
<1>2. QED
  BY <1>1

\* A task enters the semaphore only while the campaign runs.
LEMMA CheckTaskStep ==
  ASSUME IInv, NEW w \in Runs, NEW c \in Chats, CheckTask(w, c)
  PROVE  IInv'
<1>1. BaseOK'
  <2>1. campaign' \in CampaignStatuses /\ snapshot' \in 0..MaxSnapshots
    BY DEF IInv, BaseOK, CheckTask, TaskGoes, TaskEnds, TaskRaises, MayStart
  <2>2. row' \in [Chats -> RowStatuses] /\ replied' \in BOOLEAN
    BY DEF IInv, BaseOK, CheckTask, TaskGoes, TaskEnds, TaskRaises, MayStart
  <2>3. lock' \in Runs \cup {None} /\ pc' \in [Runs -> RunStates]
    BY DEF IInv, BaseOK, CheckTask, TaskGoes, TaskEnds, TaskRaises, MayStart
  <2>4. task' \in [Runs -> [Chats -> TaskStates]]
    <3>1. \E s \in TaskStates : TaskGoes(w, c, s)
      BY DEF CheckTask, TaskEnds, TaskStates
    <3>2. QED
      BY <3>1, TaskMoves DEF IInv
  <2>5. batchOf' \in [Runs -> 0..MaxSnapshots] /\ broken' \in [Runs -> BOOLEAN]
    BY DEF IInv, BaseOK, CheckTask, TaskGoes, TaskEnds, TaskRaises, MayStart
  <2>6. request' \in [Operators -> [op : Operations, saw : CampaignStatuses] \cup {NoRequest}]
    BY DEF IInv, BaseOK, CheckTask, TaskGoes, TaskEnds, TaskRaises, MayStart
  <2>7. /\ delivered' \in [Chats -> 0..2] /\ startedStopped' \in Nat
        /\ overlapped' \in BOOLEAN /\ lockLost' \in BOOLEAN /\ crashes' \in 0..MaxCrashes
    BY DEF IInv, BaseOK, CheckTask, TaskGoes, TaskEnds, TaskRaises, MayStart
  <2>8. QED
    BY <2>1, <2>2, <2>3, <2>4, <2>5, <2>6, <2>7 DEF BaseOK
<1>2. RunInv'
  <2>1. /\ pc[w] = "batch" /\ task' = [task EXCEPT ![w][c] = task'[w][c]]
        /\ UNCHANGED <<pc, lock, lockLost>> /\ Cardinality(InGate(w)) < Concurrency
    BY DEF IInv, BaseOK, CheckTask, TaskEnds, TaskGoes
  <2>2. (InGate(w))' \subseteq InGate(w) \cup {c}
    BY <2>1 DEF IInv, BaseOK, InGate
  <2>3. \A v \in Runs : v # w => (InGate(v))' \subseteq InGate(v)
    BY <2>1 DEF IInv, BaseOK, InGate
  <2>4. \A v \in Runs : Cardinality((InGate(v))') <= Concurrency
    BY <2>1, <2>2, <2>3, GatesEmpty, GateFills DEF IInv
  <2>5. \A v \in Runs, d \in Chats : task'[v][d] # "none" => pc'[v] = "batch"
    BY <2>1 DEF IInv, BaseOK, RunInv
  <2>6. QED
    BY <2>1, <2>4, <2>5 DEF IInv, RunInv
<1>3. StopInv'
  <2>1. CASE ~MayStart
    <3>1. Checked' \subseteq Checked
      <4>1. TaskGoes(w, c, "none") /\ "none" \in TaskStates
        BY <2>1 DEF CheckTask, TaskEnds, TaskStates
      <4>2. \A p \in Runs \X Chats :
              task'[p[1]][p[2]] = "checked" => task[p[1]][p[2]] = "checked"
        BY <4>1, TaskMoves DEF IInv
      <4>3. QED
        BY <4>2 DEF Checked
    <3>2. QED
      BY <3>1, <1>1, <1>2, StopKeeps DEF IInv, CheckTask
  <2>2. CASE MayStart
    <3>1. startedStopped' = 0 /\ UNCHANGED <<campaign, lockLost>>
      BY <2>2 DEF IInv, StopInv, MayStart, CheckTask
    <3>2. (BaseOK /\ RunInv)' => (IsFiniteSet(Checked) /\ Cardinality(Checked) <= Limit)'
      BY CheckedBounded, PTL
    <3>3. Cardinality(Checked') \in Nat
      BY <1>1, <1>2, <3>2, FS_CardinalityType
    <3>4. QED
      BY <1>1, <1>2, <3>1, <3>2, <3>3 DEF StopInv
  <2>3. QED
    BY <2>1, <2>2
<1>4. RequestInv'
  BY DEF IInv, BaseOK, RequestInv, CheckTask, TaskGoes, TaskEnds, TaskRaises,
     MayStart
<1>5. ~overlapped' => OnceInv'
  <2> SUFFICES ASSUME ~overlapped' PROVE OnceInv'
    OBVIOUS
  <2>1. OnceInv /\ UNCHANGED <<campaign, snapshot, row, delivered, pc, batchOf>>
    BY DEF IInv, CheckTask, TaskEnds, TaskGoes
  <2>2. \A v \in Runs, d \in Chats : task'[v][d] = "claimed" => task[v][d] = "claimed"
    <3>1. task' = [task EXCEPT ![w][c] = task'[w][c]] /\ task'[w][c] # "claimed"
      BY DEF IInv, BaseOK, CheckTask, TaskEnds, TaskGoes
    <3>2. QED
      BY <3>1 DEF IInv, BaseOK
  <2>3. QED
    BY <2>1, <2>2 DEF OnceInv
<1>6. ~overlapped' /\ ~lockLost' => SettledInv'
  <2> SUFFICES ASSUME ~overlapped', ~lockLost' PROVE SettledInv'
    OBVIOUS
  <2>1. /\ SettledInv /\ task[w][c] = "queued"
        /\ UNCHANGED <<campaign, row, pc, broken>>
    BY DEF IInv, CheckTask, TaskEnds, TaskGoes
  <2>2. \E s \in TaskStates : TaskGoes(w, c, s)
    BY DEF CheckTask, TaskEnds, TaskStates
  <2>3. \A v \in Runs, d \in Chats :
          task[v][d] \in {"claimed", "sent"} => task'[v][d] = task[v][d]
    BY <2>1, <2>2, TaskMoves DEF IInv
  <2>4. QED
    BY <2>1, <2>3 DEF SettledInv
<1>7. QED
  BY <1>1, <1>2, <1>3, <1>4, <1>5, <1>6 DEF IInv

LEMMA PauseTaskStep ==
  ASSUME IInv, NEW w \in Runs, NEW c \in Chats, PauseTask(w, c)
  PROVE  IInv'
<1>1. BaseOK'
  BY DEF IInv, BaseOK, PauseTask, TaskGoes, TaskEnds, TaskRaises, UpdateInProject,
     SetCampaign, Alive
<1>2. RunInv'
  BY TaskInGate DEF IInv, PauseTask, TaskEnds, TaskRaises, InGate
<1>3. Checked' \subseteq Checked
  BY DEF IInv, BaseOK, Checked, PauseTask, TaskGoes, TaskEnds, TaskRaises
<1>4. StopInv'
  BY <1>1, <1>2, <1>3, StopKeeps DEF IInv, PauseTask, UpdateInProject
<1>5. /\ RequestInv'
      /\ ~overlapped' => OnceInv'
      /\ ~overlapped' /\ ~lockLost' => SettledInv'
  BY DEF IInv, BaseOK, RunInv, RequestInv, OnceInv, SettledInv, PauseTask,
     TaskGoes, TaskEnds, TaskRaises, UpdateInProject, SetCampaign, Alive
<1>6. QED
  BY <1>1, <1>2, <1>4, <1>5 DEF IInv

\* A claimed row was pending, so that no other task had it; after a stop, one task
\* less is about to start.
LEMMA ClaimTaskStep ==
  ASSUME IInv, NEW w \in Runs, NEW c \in Chats, ClaimTask(w, c)
  PROVE  IInv'
<1>1. BaseOK'
  <2>1. campaign' \in CampaignStatuses /\ snapshot' \in 0..MaxSnapshots
    BY DEF IInv, BaseOK, ClaimTask, TaskGoes, TaskEnds, TaskRaises, Claimable,
       RowStands, SetRow, CountStart
  <2>2. row' \in [Chats -> RowStatuses] /\ replied' \in BOOLEAN
    BY DEF IInv, BaseOK, ClaimTask, TaskGoes, TaskEnds, TaskRaises, Claimable,
       RowStands, SetRow, CountStart
  <2>3. lock' \in Runs \cup {None} /\ pc' \in [Runs -> RunStates]
    BY DEF IInv, BaseOK, ClaimTask, TaskGoes, TaskEnds, TaskRaises, Claimable,
       RowStands, SetRow, CountStart
  <2>4. task' \in [Runs -> [Chats -> TaskStates]]
    <3>1. \E s \in TaskStates : TaskGoes(w, c, s)
      BY DEF ClaimTask, TaskEnds, TaskRaises, TaskStates
    <3>2. QED
      BY <3>1, TaskMoves DEF IInv
  <2>5. batchOf' \in [Runs -> 0..MaxSnapshots] /\ broken' \in [Runs -> BOOLEAN]
    BY DEF IInv, BaseOK, ClaimTask, TaskGoes, TaskEnds, TaskRaises, Claimable,
       RowStands, SetRow, CountStart
  <2>6. request' \in [Operators -> [op : Operations, saw : CampaignStatuses] \cup {NoRequest}]
    BY DEF IInv, BaseOK, ClaimTask, TaskGoes, TaskEnds, TaskRaises, Claimable,
       RowStands, SetRow, CountStart
  <2>7. /\ delivered' \in [Chats -> 0..2] /\ startedStopped' \in Nat
        /\ overlapped' \in BOOLEAN /\ lockLost' \in BOOLEAN /\ crashes' \in 0..MaxCrashes
    BY DEF IInv, BaseOK, ClaimTask, TaskGoes, TaskEnds, TaskRaises, Claimable,
       RowStands, SetRow, CountStart
  <2>8. QED
    BY <2>1, <2>2, <2>3, <2>4, <2>5, <2>6, <2>7 DEF BaseOK
<1>2. RunInv'
  BY TaskInGate DEF IInv, ClaimTask, TaskEnds, TaskRaises, InGate
<1>3. Checked' \subseteq Checked
  BY DEF IInv, BaseOK, Checked, ClaimTask, TaskGoes, TaskEnds, TaskRaises
<1>4. StopInv'
  <2>1. CASE campaign = "processing" \/ startedStopped > Limit
    BY <2>1, <1>1, <1>2, <1>3, StopKeeps DEF IInv, ClaimTask, CountStart
  <2>2. CASE ~(campaign = "processing" \/ startedStopped > Limit)
    <3>1. <<w, c>> \in Checked /\ <<w, c>> \notin Checked'
      BY DEF IInv, BaseOK, Checked, ClaimTask, TaskRaises, TaskGoes
    <3>2. IsFiniteSet(Checked) /\ Checked' \in SUBSET (Checked \ {<<w, c>>})
      BY <1>3, <3>1, CheckedBounded DEF IInv
    <3>3. Cardinality(Checked \ {<<w, c>>}) = Cardinality(Checked) - 1
      BY <3>1, <3>2, FS_RemoveElement
    <3>4. /\ Cardinality(Checked') <= Cardinality(Checked \ {<<w, c>>})
          /\ Cardinality(Checked') \in Nat /\ Cardinality(Checked) \in Nat
      BY <3>2, FS_Subset, FS_RemoveElement, FS_CardinalityType
    <3>5. /\ startedStopped' = startedStopped + 1 /\ UNCHANGED <<campaign, lockLost>>
      BY <2>2 DEF ClaimTask, CountStart
    <3>6. Limit' = Limit /\ Limit \in Nat
      BY <3>5, LimitType DEF IInv, BaseOK, Limit
    <3>7. QED
      BY <2>2, <3>3, <3>4, <3>5, <3>6 DEF IInv, BaseOK, StopInv
  <2>3. QED
    BY <2>1, <2>2
<1>5. RequestInv'
  BY DEF IInv, BaseOK, RequestInv, ClaimTask, TaskGoes, TaskEnds, TaskRaises,
     Claimable, RowStands, SetRow, CountStart
<1>6. ~overlapped' => OnceInv'
  <2> SUFFICES ASSUME ~overlapped' PROVE OnceInv'
    OBVIOUS
  <2>1. /\ row[c] = "pending" /\ row' = [row EXCEPT ![c] = "sending"]
        /\ task' = [task EXCEPT ![w][c] = task'[w][c]]
        /\ UNCHANGED <<campaign, snapshot, delivered, pc, batchOf, overlapped>>
    BY DEF IInv, BaseOK, ClaimTask, Claimable, SetRow, TaskRaises, TaskGoes
  <2>2. OnceInv
    BY <2>1 DEF IInv
  <2>3. delivered[c] = 0 /\ \A v \in Runs : task[v][c] # "claimed"
    BY <2>1, <2>2 DEF OnceInv
  <2>4. \A v \in Runs, d \in Chats : task'[v][d] = "claimed" =>
          task[v][d] = "claimed" \/ (v = w /\ d = c)
    BY <2>1 DEF IInv, BaseOK
  <2>5. \A d \in Chats : d # c => row'[d] = row[d]
    BY <2>1 DEF IInv, BaseOK
  <2>6. row'[c] = "sending"
    BY <2>1 DEF IInv, BaseOK
  <2>7. \A v \in Runs, d \in Chats : task'[v][d] = "claimed" =>
          row'[d] # "pending" /\ delivered[d] = 0
    BY <2>2, <2>3, <2>4, <2>5, <2>6 DEF OnceInv
  <2>8. QED
    BY <2>1, <2>2, <2>3, <2>4, <2>5, <2>6, <2>7 DEF OnceInv
<1>7. ~overlapped' /\ ~lockLost' => SettledInv'
  <2> SUFFICES ASSUME ~overlapped', ~lockLost' PROVE SettledInv'
    OBVIOUS
  <2>1. /\ row[c] = "pending" /\ row' = [row EXCEPT ![c] = "sending"]
        /\ pc[w] = "batch" /\ task' = [task EXCEPT ![w][c] = task'[w][c]]
        /\ UNCHANGED <<campaign, pc, lockLost, overlapped>>
    BY DEF IInv, BaseOK, ClaimTask, Claimable, SetRow, TaskRaises, TaskGoes
  <2>b. /\ \A v \in Runs : broken[v] => broken'[v]
        /\ broken'[w] \/ task'[w][c] = "claimed"
    <3>1. CASE TaskRaises(w, c)
      BY <3>1 DEF IInv, BaseOK, TaskRaises
    <3>2. CASE TaskGoes(w, c, "claimed") /\ UNCHANGED broken
      BY <3>2 DEF IInv, BaseOK, TaskGoes
    <3>3. QED
      BY <3>1, <3>2 DEF ClaimTask
  <2>2. SettledInv /\ campaign # "completed"
    BY <2>1 DEF IInv, SettledInv
  <2>3. \A v \in Runs : v # w => pc[v] = "idle"
    BY <2>1 DEF IInv, RunInv
  <2>4. \A d \in Chats : d # c => row'[d] = row[d] /\ task'[w][d] = task[w][d]
    BY <2>1 DEF IInv, BaseOK
  <2>5. QED
    BY <2>1, <2>b, <2>2, <2>3, <2>4 DEF SettledInv
<1>8. QED
  BY <1>1, <1>2, <1>4, <1>5, <1>6, <1>7 DEF IInv

LEMMA ClaimMissedStep ==
  ASSUME IInv, NEW w \in Runs, NEW c \in Chats, ClaimMissed(w, c)
  PROVE  IInv'
<1>1. BaseOK'
  BY DEF IInv, BaseOK, ClaimMissed, TaskGoes, TaskEnds, TaskRaises, Claimable,
     RowStands
<1>2. RunInv'
  BY TaskInGate DEF IInv, ClaimMissed, TaskEnds, TaskRaises, InGate
<1>3. Checked' \subseteq Checked
  BY DEF IInv, BaseOK, Checked, ClaimMissed, TaskGoes, TaskEnds, TaskRaises
<1>4. StopInv'
  BY <1>1, <1>2, <1>3, StopKeeps DEF IInv, ClaimMissed
<1>5. /\ RequestInv'
      /\ ~overlapped' => OnceInv'
      /\ ~overlapped' /\ ~lockLost' => SettledInv'
  BY DEF IInv, BaseOK, RunInv, RequestInv, OnceInv, SettledInv, ClaimMissed,
     TaskGoes, TaskEnds, TaskRaises, Claimable, RowStands
<1>6. QED
  BY <1>1, <1>2, <1>4, <1>5 DEF IInv

LEMMA RowDeletedStep ==
  ASSUME IInv, NEW w \in Runs, NEW c \in Chats, RowDeleted(w, c)
  PROVE  IInv'
<1>1. BaseOK'
  BY DEF IInv, BaseOK, RowDeleted, TaskGoes, TaskEnds, TaskRaises, RowStands
<1>2. RunInv'
  BY TaskInGate DEF IInv, RowDeleted, TaskEnds, TaskRaises, InGate
<1>3. Checked' \subseteq Checked
  BY DEF IInv, BaseOK, Checked, RowDeleted, TaskGoes, TaskEnds, TaskRaises
<1>4. StopInv'
  BY <1>1, <1>2, <1>3, StopKeeps DEF IInv, RowDeleted
<1>5. /\ RequestInv'
      /\ ~overlapped' => OnceInv'
      /\ ~overlapped' /\ ~lockLost' => SettledInv'
  BY DEF IInv, BaseOK, RunInv, RequestInv, OnceInv, SettledInv, RowDeleted,
     TaskGoes, TaskEnds, TaskRaises, RowStands
<1>6. QED
  BY <1>1, <1>2, <1>4, <1>5 DEF IInv

LEMMA SkipTaskStep ==
  ASSUME IInv, NEW w \in Runs, NEW c \in Chats, SkipTask(w, c)
  PROVE  IInv'
<1>1. BaseOK'
  BY DEF IInv, BaseOK, SkipTask, TaskGoes, TaskEnds, TaskRaises, SetRow, RowStands
<1>2. RunInv'
  BY TaskInGate DEF IInv, SkipTask, TaskEnds, TaskRaises, InGate
<1>3. Checked' \subseteq Checked
  BY DEF IInv, BaseOK, Checked, SkipTask, TaskGoes, TaskEnds, TaskRaises
<1>4. StopInv'
  BY <1>1, <1>2, <1>3, StopKeeps DEF IInv, SkipTask
<1>5. /\ RequestInv'
      /\ ~overlapped' => OnceInv'
      /\ ~overlapped' /\ ~lockLost' => SettledInv'
  BY DEF IInv, BaseOK, RunInv, RequestInv, OnceInv, SettledInv, SkipTask,
     TaskGoes, TaskEnds, TaskRaises, SetRow, RowStands
<1>6. QED
  BY <1>1, <1>2, <1>4, <1>5 DEF IInv

\* Of the tasks that may deliver to a chat there is one, and none has.
LEMMA SendTaskStep ==
  ASSUME IInv, NEW w \in Runs, NEW c \in Chats, SendTask(w, c)
  PROVE  IInv'
<1>1. BaseOK'
  BY DEF IInv, BaseOK, SendTask, TaskGoes, TaskEnds, TaskRaises, UpTo2
<1>2. RunInv'
  BY TaskInGate DEF IInv, SendTask, TaskEnds, TaskRaises, InGate
<1>3. Checked' \subseteq Checked
  BY DEF IInv, BaseOK, Checked, SendTask, TaskGoes, TaskEnds, TaskRaises
<1>4. StopInv'
  BY <1>1, <1>2, <1>3, StopKeeps DEF IInv, SendTask
<1>5. RequestInv'
  BY DEF IInv, BaseOK, RequestInv, SendTask, TaskGoes, TaskEnds, TaskRaises, UpTo2
<1>6. ~overlapped' => OnceInv'
  <2> SUFFICES ASSUME ~overlapped' PROVE OnceInv'
    OBVIOUS
  <2>0. ~overlapped'
    OBVIOUS
  <2>1. campaign' \in {"draft", "scheduled"} =>
          /\ \A v \in Runs : pc'[v] \in {"idle", "starting"}
          /\ \A d \in Chats : delivered'[d] = 0
    BY <2>0 DEF IInv, BaseOK, RunInv, RequestInv, OnceInv, SendTask, TaskGoes,
       TaskEnds, TaskRaises, UpTo2
  <2>2. \A v \in Runs : pc'[v] = "batch" => batchOf'[v] = snapshot'
    BY <2>0 DEF IInv, BaseOK, RunInv, RequestInv, OnceInv, SendTask, TaskGoes,
       TaskEnds, TaskRaises, UpTo2
  <2>3. \A d \in Chats : delivered'[d] <= 1 /\ (row'[d] = "pending" => delivered'[d] = 0)
    BY <2>0 DEF IInv, BaseOK, RunInv, RequestInv, OnceInv, SendTask, TaskGoes,
       TaskEnds, TaskRaises, UpTo2
  <2>4. \A v \in Runs, d \in Chats : task'[v][d] = "claimed" =>
          row'[d] # "pending" /\ delivered'[d] = 0
    BY <2>0 DEF IInv, BaseOK, RunInv, RequestInv, OnceInv, SendTask, TaskGoes,
       TaskEnds, TaskRaises, UpTo2
  <2>5. \A u, v \in Runs, d \in Chats :
          task'[u][d] = "claimed" /\ task'[v][d] = "claimed" => u = v
    BY <2>0 DEF IInv, BaseOK, RunInv, RequestInv, OnceInv, SendTask, TaskGoes,
       TaskEnds, TaskRaises, UpTo2
  <2>6. QED
    BY <2>1, <2>2, <2>3, <2>4, <2>5 DEF OnceInv
<1>7. ~overlapped' /\ ~lockLost' => SettledInv'
  BY DEF IInv, BaseOK, RunInv, RequestInv, OnceInv, SettledInv, SendTask,
     TaskGoes, TaskEnds, TaskRaises, UpTo2
<1>8. QED
  BY <1>1, <1>2, <1>4, <1>5, <1>6, <1>7 DEF IInv

LEMMA RecordSentStep ==
  ASSUME IInv, NEW w \in Runs, NEW c \in Chats, RecordSent(w, c)
  PROVE  IInv'
<1>1. BaseOK'
  BY DEF IInv, BaseOK, RecordSent, TaskGoes, TaskEnds, TaskRaises, SetRow,
     RowStands
<1>2. RunInv'
  BY TaskInGate DEF IInv, RecordSent, TaskEnds, TaskRaises, InGate
<1>3. Checked' \subseteq Checked
  BY DEF IInv, BaseOK, Checked, RecordSent, TaskGoes, TaskEnds, TaskRaises
<1>4. StopInv'
  BY <1>1, <1>2, <1>3, StopKeeps DEF IInv, RecordSent
<1>5. /\ RequestInv'
      /\ ~overlapped' => OnceInv'
      /\ ~overlapped' /\ ~lockLost' => SettledInv'
  BY DEF IInv, BaseOK, RunInv, RequestInv, OnceInv, SettledInv, RecordSent,
     TaskGoes, TaskEnds, TaskRaises, SetRow, RowStands
<1>6. QED
  BY <1>1, <1>2, <1>4, <1>5 DEF IInv

LEMMA RecordFailedStep ==
  ASSUME IInv, NEW w \in Runs, NEW c \in Chats, RecordFailed(w, c)
  PROVE  IInv'
<1>1. BaseOK'
  BY DEF IInv, BaseOK, RecordFailed, TaskGoes, TaskEnds, TaskRaises, SetRow,
     RowStands
<1>2. RunInv'
  BY TaskInGate DEF IInv, RecordFailed, TaskEnds, TaskRaises, InGate
<1>3. Checked' \subseteq Checked
  BY DEF IInv, BaseOK, Checked, RecordFailed, TaskGoes, TaskEnds, TaskRaises
<1>4. StopInv'
  BY <1>1, <1>2, <1>3, StopKeeps DEF IInv, RecordFailed
<1>5. /\ RequestInv'
      /\ ~overlapped' => OnceInv'
      /\ ~overlapped' /\ ~lockLost' => SettledInv'
  BY DEF IInv, BaseOK, RunInv, RequestInv, OnceInv, SettledInv, RecordFailed,
     TaskGoes, TaskEnds, TaskRaises, SetRow, RowStands
<1>6. QED
  BY <1>1, <1>2, <1>4, <1>5 DEF IInv

LEMMA TaskFailsStep ==
  ASSUME IInv, NEW w \in Runs, NEW c \in Chats, TaskFails(w, c)
  PROVE  IInv'
<1>1. BaseOK'
  BY DEF IInv, BaseOK, TaskFails, TaskGoes, TaskEnds, TaskRaises
<1>2. RunInv'
  BY TaskInGate DEF IInv, TaskFails, TaskEnds, TaskRaises, InGate
<1>3. Checked' \subseteq Checked
  BY DEF IInv, BaseOK, Checked, TaskFails, TaskGoes, TaskEnds, TaskRaises
<1>4. StopInv'
  BY <1>1, <1>2, <1>3, StopKeeps DEF IInv, TaskFails
<1>5. /\ RequestInv'
      /\ ~overlapped' => OnceInv'
      /\ ~overlapped' /\ ~lockLost' => SettledInv'
  BY DEF IInv, BaseOK, RunInv, RequestInv, OnceInv, SettledInv, TaskFails,
     TaskGoes, TaskEnds, TaskRaises
<1>6. QED
  BY <1>1, <1>2, <1>4, <1>5 DEF IInv

-----------------------------------------------------------------------------
(* Faults.                                                                 *)

LEMMA RunDiesStep ==
  ASSUME IInv, NEW w \in Runs, RunDies(w)
  PROVE  IInv'
<1>1. BaseOK'
  BY DEF IInv, BaseOK, RunDies, Leaves
<1>2. RunInv'
  BY RunLeaves DEF IInv, RunDies
<1>3. Checked' \subseteq Checked
  BY DEF IInv, BaseOK, Checked, RunDies, Leaves
<1>4. StopInv'
  BY <1>1, <1>2, <1>3, StopKeeps DEF IInv, RunDies
<1>5. /\ RequestInv'
      /\ ~overlapped' => OnceInv'
      /\ ~overlapped' /\ ~lockLost' => SettledInv'
  BY DEF IInv, BaseOK, RunInv, RequestInv, OnceInv, SettledInv, RunDies, Leaves
<1>6. QED
  BY <1>1, <1>2, <1>4, <1>5 DEF IInv

\* A lost lock raises the limit.
LEMMA LockConnectionLostStep ==
  ASSUME IInv, NEW w \in Runs, LockConnectionLost(w)
  PROVE  IInv'
<1>1. BaseOK'
  BY DEF IInv, BaseOK, LockConnectionLost
<1>2. RunInv'
  BY DEF IInv, RunInv, InGate, LockConnectionLost
<1>3. Checked' \subseteq Checked
  BY DEF IInv, BaseOK, Checked, LockConnectionLost
<1>4. StopInv'
  <2>1. /\ lockLost' /\ Checked' = Checked
        /\ UNCHANGED <<campaign, startedStopped>>
    BY DEF LockConnectionLost, Checked
  <2>2. Cardinality(Runs) \in Nat /\ Cardinality(Runs) # 0
    BY RunsCounted, FS_EmptySet
  <2>3. \A k \in Nat : k # 0 => Concurrency <= Concurrency * k
    OBVIOUS
  <2>a. \A k \in Nat : Concurrency * k \in Nat
    OBVIOUS
  <2>b. Limit' = Concurrency * Cardinality(Runs) /\ Limit' \in Nat
    BY <2>1, <2>2, <2>a DEF Limit
  <2>c. Limit = Concurrency * Cardinality(Runs) \/ Limit = Concurrency
    BY LimitFacts DEF IInv, BaseOK
  <2>4. Limit <= Limit' /\ Limit \in Nat /\ Limit' \in Nat
    BY <2>b, <2>c, <2>2, <2>3
  <2>5. Cardinality(Checked) \in Nat
    BY CheckedBounded, FS_CardinalityType DEF IInv
  <2>6. QED
    BY <2>1, <2>4, <2>5 DEF IInv, BaseOK, StopInv
<1>5. /\ RequestInv'
      /\ ~overlapped' => OnceInv'
      /\ ~overlapped' /\ ~lockLost' => SettledInv'
  BY DEF IInv, BaseOK, RunInv, RequestInv, OnceInv, SettledInv, LockConnectionLost
<1>6. QED
  BY <1>1, <1>2, <1>4, <1>5 DEF IInv

-----------------------------------------------------------------------------
(* The invariant.                                                          *)

\* It holds before anything has been launched.
LEMMA InitIInv == Init => IInv
<1> SUFFICES ASSUME Init PROVE IInv
  OBVIOUS
<1>1. BaseOK
  <2>1. /\ campaign \in CampaignStatuses /\ snapshot \in 0..MaxSnapshots
        /\ startedStopped \in Nat /\ crashes \in 0..MaxCrashes
    BY DEF Init, CampaignStatuses
  <2>2. /\ row \in [Chats -> RowStatuses] /\ delivered \in [Chats -> 0..2]
        /\ batchOf \in [Runs -> 0..MaxSnapshots] /\ broken \in [Runs -> BOOLEAN]
    BY DEF Init, RowStatuses
  <2>3. NoTasks \in [Chats -> TaskStates]
    BY DEF NoTasks, TaskStates
  <2>4. /\ lock \in Runs \cup {None} /\ pc \in [Runs -> RunStates]
        /\ task \in [Runs -> [Chats -> TaskStates]]
    BY <2>3 DEF Init, RunStates
  <2>5. request \in [Operators -> [op : Operations, saw : CampaignStatuses] \cup {NoRequest}]
    BY DEF Init
  <2>6. QED
    BY <2>1, <2>2, <2>4, <2>5 DEF Init, BaseOK
<1>2. \A w \in Runs : InGate(w) = {}
  BY DEF Init, InGate, NoTasks
<1>3. RunInv
  <2>1. \A w \in Runs : Cardinality(InGate(w)) <= Concurrency
    BY <1>2, FS_EmptySet
  <2>2. QED
    BY <2>1 DEF Init, RunInv
<1>4. StopInv
  <2>1. Checked = {}
    BY DEF Init, Checked, NoTasks
  <2>2. QED
    BY <2>1, <1>1, FS_EmptySet, LimitType DEF Init, StopInv, BaseOK
<1>5. RequestInv /\ OnceInv /\ SettledInv
  BY DEF Init, RequestInv, OnceInv, SettledInv, NoTasks, NoRequest, Launches
<1>6. QED
  BY <1>1, <1>3, <1>4, <1>5 DEF IInv

\* Every step of operators, recipients, runs and tasks keeps it.
LEMMA NextIInv == IInv /\ [Next]_vars => IInv'
<1> SUFFICES ASSUME IInv, [Next]_vars PROVE IInv'
  OBVIOUS
<1>1. ASSUME NEW o \in Operators, Request(o) PROVE IInv'
  BY <1>1, ReadCampaignStep, FailRequestStep, LaunchStep, EditBroadcastStep, CancelBroadcastStep,
     PauseBroadcastStep, ResumeBroadcastStep, PurgeBroadcastStep DEF Request
<1>2. CASE ArchiveBroadcast \/ ClientReplies
  BY <1>2, ArchiveBroadcastStep, ClientRepliesStep
<1>3. ASSUME NEW w \in Runs, TakeLock(w) \/ RunStep(w) \/ RunDies(w) \/ LockConnectionLost(w)
      PROVE  IInv'
  BY <1>3, TakeLockStep, StartScheduledStep, FailInterruptedStep, CheckCampaignStep,
     PauseAfterReplyStep, ListRecipientsStep, EndBatchStep, CompleteBroadcastStep, RunDiesStep,
     LockConnectionLostStep DEF RunStep
<1>4. ASSUME NEW w \in Runs, NEW c \in Chats, TaskStep(w, c) \/ TaskFails(w, c)
      PROVE  IInv'
  BY <1>4, CheckTaskStep, PauseTaskStep, ClaimTaskStep, ClaimMissedStep, RowDeletedStep,
     SkipTaskStep, SendTaskStep, RecordSentStep, RecordFailedStep, TaskFailsStep DEF TaskStep
<1>5. CASE UNCHANGED vars
  <2>1. /\ UNCHANGED <<campaign, snapshot, row, replied, lock, pc, task, batchOf, broken>>
        /\ UNCHANGED <<request, delivered, startedStopped, overlapped, lockLost, crashes>>
    BY <1>5 DEF vars, tableVars, runVars, historyVars
  <2>2. BaseOK' /\ RunInv' /\ Checked' \subseteq Checked
    BY <2>1, RunsStand DEF IInv, BaseOK, Checked
  <2>3. StopInv'
    BY <2>1, <2>2, StopKeeps DEF IInv
  <2>4. QED
    BY <2>1, <2>2, <2>3 DEF IInv, RequestInv, OnceInv, SettledInv
<1>6. QED
  BY <1>1, <1>2, <1>3, <1>4, <1>5 DEF Next

\* The inductive invariant holds in every state: rows, tasks, the lock and what has
\* been delivered agree.
THEOREM SpecIInv == Spec => []IInv
BY InitIInv, NextIInv, PTL DEF Spec

\* Every variable keeps its type; in particular what starts after a stop is bounded.
THEOREM SpecTypeOK == Spec => []TypeOK
<1>1. IInv => TypeOK
  <2> SUFFICES ASSUME IInv PROVE TypeOK
    OBVIOUS
  <2>1. Cardinality(Checked) \in Nat
    BY CheckedBounded, FS_CardinalityType DEF IInv
  <2>2. Limit \in Nat
    BY LimitType DEF IInv, BaseOK
  <2>3. startedStopped \in 0..(Limit + 1)
    BY <2>1, <2>2 DEF IInv, BaseOK, StopInv
  <2>4. QED
    BY <2>3 DEF IInv, BaseOK, TypeOK
<1>2. QED
  BY <1>1, SpecIInv, PTL

\* A chat gets a campaign at most once, for any number of runs that may own it at
\* the same time, unless a launch or an edit was decided on an old status.
THEOREM SpecOnceUnlessOverlapped == Spec => []OnceUnlessOverlapped
<1>1. IInv => OnceUnlessOverlapped
  BY DEF IInv, OnceInv, OnceUnlessOverlapped
<1>2. QED
  BY <1>1, SpecIInv, PTL

\* After a pause, a cancellation or a deletion no more recipients start than were
\* inside the semaphores of the runs.
THEOREM SpecStopLimitsNewRecipients == Spec => []StopLimitsNewRecipients
<1>1. IInv => StopLimitsNewRecipients
  <2> SUFFICES ASSUME IInv PROVE StopLimitsNewRecipients
    OBVIOUS
  <2>1. Cardinality(Checked) \in Nat
    BY CheckedBounded, FS_CardinalityType DEF IInv
  <2>2. Limit \in Nat
    BY LimitType DEF IInv, BaseOK
  <2>3. QED
    BY <2>1, <2>2 DEF IInv, BaseOK, StopInv, StopLimitsNewRecipients
<1>2. QED
  BY <1>1, SpecIInv, PTL

\* No recipient is pending or in flight when a campaign is completed, as long as
\* the lock held and nothing was decided on an old status.
THEOREM SpecCompletedMeansSettled == Spec => []CompletedMeansSettled
<1>1. IInv => CompletedMeansSettled
  BY DEF IInv, SettledInv, CompletedMeansSettled
<1>2. QED
  BY <1>1, SpecIInv, PTL
=============================================================================
