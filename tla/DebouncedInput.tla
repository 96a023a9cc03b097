---------------------------- MODULE DebouncedInput ----------------------------
(***************************************************************************)
(* What becomes of the messages of one chat: the intake stores them with a *)
(* dispatch, and consumers claim them for the funnel, an unbroken burst of *)
(* inputs as one answer.                                                   *)
(*                                                                         *)
(* A consumer locks the chat row first and loses the lock with every       *)
(* commit; the funnel commits before each send.  Claims (messages'         *)
(* funnel_processed_at) are durable from the first commit on.  How a       *)
(* dispatch reaches a consumer is RuntimeDispatch's matter: here a pending *)
(* one is executed by one consumer at a time.  Messages are numbered in    *)
(* the order of the dialog, which TelegramInbox keeps.                     *)
(***************************************************************************)
EXTENDS Naturals, FiniteSets

CONSTANTS
  MaxMessages,  \* bound: messages of the chat
  Consumers,    \* ARQ executions
  MaxFaults,    \* bound: failed or killed executions, deletions
  None          \* "nobody", "no message"

Messages == 1..MaxMessages

ASSUME BoundAssumption == MaxMessages \in Nat /\ MaxFaults \in Nat
ASSUME NoneAssumption == None \notin Consumers /\ None \notin Messages

VARIABLES
  kind,       \* what a message is; "none": it does not exist yet
  claimed,    \* funnel_processed_at is set
  deleted,    \* deleted_at is set
  marked,     \* crm_after_repeated_start
  dispatch,   \* runtime_dispatches.status of the message's row
  chat,       \* "open", or blocked by a manager, or reset or deleted
  quiet,      \* the last message is older than TELEGRAM_INPUT_QUIET_SECONDS
  engaged,    \* a repeated start was carried out (runtime_json.last_engagement)
  scheduled,  \* the current step awaits no answer and has a pending or running job
  lock,       \* the consumer whose transaction holds the chat row
  cur,        \* consumers: the message of the dispatch at work
  whole,      \* the batch it has claimed
  rest,       \* what of the batch it has not run yet
  dirty,      \* it has committed
  faults,
  \* history
  ran,        \* how often a message was given to the funnel, up to 2
  overtaken   \* messages that were put off when a later one had been claimed

consumerVars == <<lock, cur, whole, rest, dirty>>
messageVars  == <<kind, claimed, deleted, marked, dispatch>>
funnelVars   == <<engaged, scheduled>>
vars == <<messageVars, chat, quiet, funnelVars, consumerVars, faults, ran, overtaken>>

Kinds    == {"input", "start", "repeat", "command", "contact"}
Debounced == {"input", "repeat"}  \* they get an input dispatch
Queued   == {"start", "command"}  \* they get a start dispatch

TypeOK ==
  /\ kind \in [Messages -> Kinds \cup {"none"}]
  /\ claimed \subseteq Messages /\ deleted \subseteq Messages /\ marked \subseteq Messages
  /\ dispatch \in [Messages -> {"none", "pending", "running", "done", "review"}]
  /\ chat \in {"open", "blocked", "gone"}
  /\ quiet \in BOOLEAN /\ engaged \in BOOLEAN /\ scheduled \in BOOLEAN
  /\ lock \in Consumers \cup {None}
  /\ cur \in [Consumers -> Messages \cup {None}]
  /\ whole \in [Consumers -> SUBSET Messages] /\ rest \in [Consumers -> SUBSET Messages]
  /\ dirty \in [Consumers -> BOOLEAN]
  /\ faults \in 0..MaxFaults
  /\ ran \in [Messages -> 0..2] /\ overtaken \subseteq Messages
  \* what a consumer has claimed is claimed for it alone
  /\ \A c \in Consumers : rest[c] \subseteq whole[c] /\ whole[c] \subseteq claimed
  /\ \A c, d \in Consumers : c # d => whole[c] \cap whole[d] = {}

Init ==
  /\ kind = [m \in Messages |-> "none"]
  /\ claimed = {} /\ deleted = {} /\ marked = {}
  /\ dispatch = [m \in Messages |-> "none"]
  /\ chat = "open" /\ quiet = FALSE /\ engaged = FALSE /\ scheduled = FALSE
  /\ lock = None
  /\ cur = [c \in Consumers |-> None]
  /\ whole = [c \in Consumers |-> {}]
  /\ rest = [c \in Consumers |-> {}]
  /\ dirty = [c \in Consumers |-> FALSE]
  /\ faults = 0
  /\ ran = [m \in Messages |-> 0] /\ overtaken = {}

Stored == {m \in Messages : kind[m] # "none"}

-----------------------------------------------------------------------------
(* The intake and the client.                                              *)

\* handle_update: the message and its dispatch are one transaction, which
\* also updates the chat row.  A contact is given to the funnel at once.
Arrive(m, k) ==
  /\ lock = None /\ chat # "gone"
  /\ kind[m] = "none" /\ Stored = 1..(m - 1)
  /\ kind' = [kind EXCEPT ![m] = k]
  /\ IF chat = "blocked" \/ k = "contact"
       THEN /\ claimed' = claimed \cup {m}
            /\ UNCHANGED dispatch
       ELSE /\ dispatch' = [dispatch EXCEPT ![m] = "pending"]
            /\ UNCHANGED claimed
  /\ ran' = [ran EXCEPT ![m] = IF chat = "open" /\ k = "contact" THEN 1 ELSE 0]
  /\ quiet' = FALSE
  /\ scheduled' \in IF ran'[m] > 0 THEN BOOLEAN ELSE {scheduled}
  /\ UNCHANGED <<deleted, marked, chat, engaged, consumerVars, faults, overtaken>>

\* handle_mtproto_message_delete, delete_message
Delete(m) ==
  /\ lock = None /\ faults < MaxFaults
  /\ m \in Stored \ deleted
  /\ deleted' = deleted \cup {m}
  /\ faults' = faults + 1
  /\ UNCHANGED <<kind, claimed, marked, dispatch, chat, quiet, funnelVars, consumerVars, ran, overtaken>>

\* A manager blocks, resets or deletes the chat.
CloseChat(state) ==
  /\ lock = None /\ chat = "open" /\ faults < MaxFaults
  /\ chat' = state
  /\ faults' = faults + 1
  /\ UNCHANGED <<messageVars, quiet, funnelVars, consumerVars, ran, overtaken>>

QuietPasses ==
  /\ ~quiet
  /\ quiet' = TRUE
  /\ UNCHANGED <<messageVars, chat, funnelVars, consumerVars, faults, ran, overtaken>>

\* A worker runs a job of the funnel (FunnelRuntime): a delay or a timer ends, and
\* the next step may be delayed again.  A repeated start that came before the
\* prompt was ready takes effect after it.
ScheduledStepRuns ==
  /\ lock = None
  /\ scheduled' \in BOOLEAN
  /\ engaged' \in {engaged, engaged \/ \E m \in Messages : kind[m] = "repeat" /\ ran[m] > 0}
  /\ UNCHANGED <<messageVars, chat, quiet, consumerVars, faults, ran, overtaken>>

-----------------------------------------------------------------------------
(* Consumers.                                                              *)

\* get_latest_user_message: claimed or not, of whatever kind.
Latest(m) == m \notin deleted /\ \A l \in Stored \ deleted : l <= m

\* list_unprocessed_user_input_batch
Batch(m) ==
  {k \in Stored \ (claimed \cup deleted) : k <= m /\ dispatch[k] # "review"}

Free(c) == cur[c] = None
Settle(m, s) == dispatch' = [dispatch EXCEPT ![m] = s]

\* A new attempt on m, with the messages it claims.
Work(c, m, claims) ==
  /\ cur' = [cur EXCEPT ![c] = m]
  /\ whole' = [whole EXCEPT ![c] = claims]
  /\ rest' = [rest EXCEPT ![c] = claims]
  /\ dirty' = [dirty EXCEPT ![c] = FALSE]
  /\ lock' = c
  /\ claimed' = claimed \cup claims
  /\ Settle(m, "running")

\* Mutant: the job of a client who is still typing is acknowledged.
DismissedMutant(m) ==
  chat = "gone" \/ ~Latest(m) \/ ~quiet \/ Batch(m) = {}

\* There is nothing to do for m: the chat is unavailable, a later message will
\* take m along, or an earlier job has.
Dismissed(m) ==
  chat = "gone" \/ ~Latest(m) \/ (quiet /\ Batch(m) = {})

\* process_user_input_task, until the messages are claimed.  While the client
\* is still typing the job is put off, which changes nothing here.
BeginInput(c, m) ==
  /\ Free(c) /\ lock = None
  /\ kind[m] \in Debounced /\ dispatch[m] = "pending"
  /\ \/ /\ Dismissed(m)
        /\ Settle(m, "done")
        /\ UNCHANGED <<claimed, consumerVars>>
     \/ /\ ~Dismissed(m) /\ quiet
        /\ IF chat = "blocked"
             THEN /\ claimed' = claimed \cup Batch(m)
                  /\ Settle(m, "done")
                  /\ UNCHANGED consumerVars
             ELSE Work(c, m, Batch(m))
  /\ UNCHANGED <<kind, deleted, marked, chat, quiet, funnelVars, faults, ran, overtaken>>

\* Mutant: it is not looked at whether the claim succeeded.
MayStartMutant(m) == chat # "gone"
MayStart(m) == chat # "gone" /\ m \notin claimed

\* process_funnel_start_task: a start or a command claims itself only.  (What
\* becomes of a command that is no longer configured is the funnel's matter.)
BeginStart(c, m) ==
  /\ Free(c) /\ lock = None
  /\ kind[m] \in Queued /\ dispatch[m] = "pending"
  /\ IF MayStart(m)
       THEN Work(c, m, {m})
       ELSE Settle(m, "done") /\ UNCHANGED <<claimed, consumerVars>>
  /\ UNCHANGED <<kind, deleted, marked, chat, quiet, funnelVars, faults, ran, overtaken>>

IsStart(m) == kind[m] \in {"start", "repeat"}

\* The next part of the batch: a /start, or the inputs up to the next one.
Segment(c) ==
  {m \in rest[c] :
     IF \E s \in rest[c] : IsStart(s) /\ \A k \in rest[c] : s <= k
       THEN \A k \in rest[c] : m <= k
       ELSE \A s \in rest[c] : IsStart(s) => m < s}

AfterRepeat(c) ==
  {m \in Segment(c) : ~IsStart(m) /\ \E s \in whole[c] : kind[s] = "repeat" /\ s < m}

Holds(c) == lock \in {c, None}

\* _defer_input_after_repeated_start, for a part that is not a /start.  What follows
\* a repeated start in its burst waits for any scheduled step, other inputs only
\* after an engagement.
MustDefer(c) ==
  /\ scheduled /\ kind[cur[c]] \in Debounced
  /\ \A m \in Segment(c) : ~IsStart(m)
  /\ \/ Segment(c) \cap (marked \cup AfterRepeat(c)) # {}
     \/ engaged /\ \A m \in whole[c] : kind[m] # "start"

\* The funnel gets a part of the batch and may get to a step that is delayed.  With
\* a send the claims are committed and the lock is released.  A repeated start may
\* be an engagement, a start or a command begins the funnel's data anew.
RunSegment(c) ==
  /\ ~Free(c) /\ Holds(c) /\ rest[c] # {} /\ ~MustDefer(c)
  /\ ran' = [m \in Messages |-> IF m \in Segment(c) /\ ran[m] < 2 THEN ran[m] + 1 ELSE ran[m]]
  /\ marked' = marked \cup AfterRepeat(c)
  /\ rest' = [rest EXCEPT ![c] = @ \ Segment(c)]
  /\ \/ lock' = None /\ dirty' = [dirty EXCEPT ![c] = TRUE]
     \/ lock' = c /\ UNCHANGED dirty
  /\ scheduled' \in BOOLEAN
  /\ engaged' \in {engaged} \cup {kind[m] = "repeat" : m \in {k \in Segment(c) : kind[k] # "input"}}
  /\ UNCHANGED <<kind, claimed, deleted, dispatch, chat, quiet, cur, whole, faults, overtaken>>

Leave(c) ==
  /\ cur' = [cur EXCEPT ![c] = None]
  /\ whole' = [whole EXCEPT ![c] = {}]
  /\ rest' = [rest EXCEPT ![c] = {}]
  /\ dirty' = [dirty EXCEPT ![c] = FALSE]
  /\ lock' = None

\* Mutants: the whole batch is given back; only the trigger is.
GivenBackMutant1(c) == whole[c]
GivenBackMutant2(c) == {cur[c]}
GivenBack(c) == rest[c]

\* What a deferral takes out of its order: a consumer of a later batch had it claimed
\* while this one had lost its lock.
Overtaken(c) == {m \in rest[c] : \E l \in claimed \ whole[c] : m < l}

\* The rest waits for the scheduled step, and so does the dispatch.
DeferRest(c) ==
  /\ ~Free(c) /\ Holds(c) /\ rest[c] # {} /\ MustDefer(c)
  /\ claimed' = claimed \ GivenBack(c)
  /\ marked' = marked \cup AfterRepeat(c)
  /\ Settle(cur[c], "pending")
  /\ overtaken' = overtaken \cup Overtaken(c)
  /\ Leave(c)
  /\ UNCHANGED <<kind, deleted, chat, quiet, funnelVars, faults, ran>>

\* The acknowledgement is part of the last commit.
Finish(c) ==
  /\ ~Free(c) /\ Holds(c) /\ rest[c] = {}
  /\ Settle(cur[c], "done")
  /\ Leave(c)
  /\ UNCHANGED <<kind, claimed, deleted, marked, chat, quiet, funnelVars, faults, ran, overtaken>>

\* protect_dispatch_replay
Outcomes(c) == IF dirty[c] THEN {"review"} ELSE {"pending", "review"}

\* The repeated starts this attempt has run.
Repeats(c) == {m \in whole[c] \ rest[c] : kind[m] = "repeat"}

\* An exception or a kill: without a commit nothing has happened, and the funnel is
\* where it was.
Fail(c) ==
  /\ ~Free(c) /\ Holds(c) /\ faults < MaxFaults
  /\ faults' = faults + 1
  /\ \E s \in Outcomes(c) : Settle(cur[c], s)
  /\ IF dirty[c] THEN UNCHANGED <<claimed, marked, funnelVars, ran>>
       ELSE /\ claimed' = claimed \ whole[c]
            /\ marked' = marked \ {m \in whole[c] : \E s \in Repeats(c) : s < m}
            /\ ran' = [m \in Messages |->
                         IF m \in whole[c] \ rest[c] THEN ran[m] - 1 ELSE ran[m]]
            /\ IF whole[c] = rest[c] THEN UNCHANGED funnelVars
                 ELSE /\ scheduled' \in BOOLEAN
                      /\ engaged' \in {engaged, \E m \in Messages : kind[m] = "repeat" /\ ran'[m] > 0,
                                       engaged /\ Repeats(c) = {}}
  /\ Leave(c)
  /\ UNCHANGED <<kind, deleted, chat, quiet, overtaken>>

-----------------------------------------------------------------------------
Begin(c, m) == BeginInput(c, m) \/ BeginStart(c, m)
Continue(c) == RunSegment(c) \/ DeferRest(c) \/ Finish(c)

Next ==
  \/ \E m \in Messages, k \in Kinds : Arrive(m, k)
  \/ \E m \in Messages : Delete(m)
  \/ \E state \in {"blocked", "gone"} : CloseChat(state)
  \/ QuietPasses \/ ScheduledStepRuns
  \/ \E c \in Consumers :
       \/ RunSegment(c) \/ DeferRest(c) \/ Finish(c) \/ Fail(c)
       \/ \E m \in Messages : BeginInput(c, m) \/ BeginStart(c, m)

Spec == Init /\ [][Next]_vars

\* Some consumer goes on while there is work it may do, and clients stop typing.
Fairness ==
  /\ WF_vars(\E c \in Consumers : Continue(c) \/ \E m \in Messages : Begin(c, m))
  /\ WF_vars(QuietPasses)

FairSpec == Spec /\ Fairness

-----------------------------------------------------------------------------
(* Properties.                                                             *)

\* A message is given to the funnel at most once: not by the input of a later
\* message and by its own start, not again after a deferral, a failed or a
\* killed execution.
RunAtMostOnce == \A m \in Messages : ran[m] < 2

\* A claim is kept: a message that is marked as processed was given to the
\* funnel, or is about to be, or came to a chat that is closed by now, or a human
\* has a dispatch that may have claimed it, its own or that of a later message.
ClaimsAreKept ==
  \A m \in claimed :
    \/ ran[m] > 0
    \/ \E c \in Consumers : m \in rest[c]
    \/ chat # "open"
    \/ \E l \in Messages : m <= l /\ dispatch[l] = "review"

\* Where the code may leave an input for good, unless another one comes: the chat is
\* closed; somebody looks at a failed dispatch, its own or a later one; a message
\* after it is not an input, or was deleted, and its own job counts as superseded;
\* or it was put off when a later message had been claimed already, and its job,
\* which comes back, counts as superseded too (overtaken; the comment in
\* process_debounced_user_input says that text is never discarded).
Excused(m) ==
  \/ chat # "open" \/ m \in deleted \/ m \in overtaken
  \/ \E l \in Messages : m <= l /\ dispatch[l] = "review"
  \/ \E l \in Stored : l > m /\ (kind[l] \notin Debounced \/ l \in deleted)

\* The funnel has no scheduled step any more: its delays end, they are no loop.
FunnelComesToRest == <>[]~scheduled

\* In a burst of inputs each counts: where the funnel comes to rest, an input is
\* given to it in the end, whatever jobs are superseded, however long the client
\* goes on typing and however often inputs are put off and attempts fail, except
\* for the inputs that Excused names.
EveryInputRuns ==
  FunnelComesToRest =>
    \A m \in Messages : kind[m] \in Debounced ~> ran[m] > 0 \/ Excused(m)
=============================================================================
