------------------------ MODULE DebouncedInput_proofs ------------------------
(***************************************************************************)
(* Proofs about DebouncedInput, for any number of messages, consumers and  *)
(* faults.                                                                 *)
(***************************************************************************)
EXTENDS DebouncedInput, TLAPS

USE BoundAssumption, NoneAssumption

\* A message that does not exist has no claim and no dispatch.
StoredInv ==
  \A m \in Messages : kind[m] = "none" => m \notin claimed /\ dispatch[m] = "none"

\* The dispatch a consumer works on is running, and its alone, and its message is
\* the last one of the batch.
WorkInv ==
  /\ \A c \in Consumers : cur[c] # None => dispatch[cur[c]] = "running"
  /\ \A c, d \in Consumers : cur[c] # None /\ cur[c] = cur[d] => c = d
  /\ \A c \in Consumers : cur[c] = None => whole[c] = {}
  /\ \A c \in Consumers, m \in Messages : m \in whole[c] => m <= cur[c]

\* What was given to the funnel is claimed; of a batch, what has run ran once
\* and the rest did not.
RanInv ==
  /\ \A m \in Messages : ran[m] < 2
  /\ \A m \in Messages : ran[m] > 0 => m \in claimed
  /\ \A c \in Consumers, m \in Messages :
       m \in whole[c] => ran[m] = IF m \in rest[c] THEN 0 ELSE 1

\* The inductive invariant.
IInv == TypeOK /\ StoredInv /\ WorkInv /\ RanInv /\ ClaimsAreKept

LEMMA InitIInv == Init => IInv
<1> SUFFICES ASSUME Init PROVE IInv
  OBVIOUS
<1>1. TypeOK
  <2>1. kind \in [Messages -> Kinds \cup {"none"}] /\ ran \in [Messages -> 0..2]
    BY DEF Init
  <2>2. dispatch \in [Messages -> {"none", "pending", "running", "done", "review"}]
    BY DEF Init
  <2>3. /\ cur \in [Consumers -> Messages \cup {None}] /\ dirty \in [Consumers -> BOOLEAN]
        /\ whole \in [Consumers -> SUBSET Messages] /\ rest \in [Consumers -> SUBSET Messages]
    BY DEF Init
  <2>4. \A c, d \in Consumers :
          rest[c] \subseteq whole[c] /\ whole[c] \subseteq claimed /\ whole[c] \cap whole[d] = {}
    BY DEF Init
  <2>5. /\ claimed = {} /\ deleted = {} /\ marked = {} /\ overtaken = {} /\ chat = "open"
        /\ quiet = FALSE /\ engaged = FALSE /\ scheduled = FALSE /\ lock = None /\ faults = 0
    BY DEF Init
  <2>6. faults \in 0..MaxFaults
    BY <2>5
  <2>7. QED
    BY <2>1, <2>2, <2>3, <2>4, <2>5, <2>6 DEF TypeOK
<1>2. StoredInv /\ WorkInv /\ RanInv /\ ClaimsAreKept
  BY DEF Init, StoredInv, WorkInv, RanInv, ClaimsAreKept
<1>3. QED
  BY <1>1, <1>2 DEF IInv

-----------------------------------------------------------------------------
(* The intake, the client and the clock.                                   *)

LEMMA ArriveStep ==
  ASSUME IInv, NEW m \in Messages, NEW k \in Kinds, Arrive(m, k)
  PROVE  IInv'
<1> USE DEF IInv
<1>1. /\ kind[m] = "none" /\ m \notin claimed /\ dispatch[m] = "none" /\ ran[m] = 0
      /\ \A c \in Consumers : m \notin whole[c] /\ m \notin rest[c]
  BY DEF Arrive, StoredInv, RanInv, TypeOK
<1>2. /\ kind' = [kind EXCEPT ![m] = k] /\ k # "none"
      /\ UNCHANGED <<deleted, marked, chat, engaged, consumerVars, faults, overtaken>>
      /\ ran' = [ran EXCEPT ![m] = IF chat = "open" /\ k = "contact" THEN 1 ELSE 0]
      /\ quiet' = FALSE /\ scheduled' \in BOOLEAN
  BY DEF Arrive, Kinds, TypeOK
<1>3. \/ /\ claimed' = claimed \cup {m} /\ dispatch' = dispatch
         /\ ran'[m] > 0 \/ chat # "open"
      \/ /\ claimed' = claimed /\ dispatch' = [dispatch EXCEPT ![m] = "pending"]
         /\ ran'[m] = 0
  BY DEF Arrive, TypeOK
<1>4. ran' \in [Messages -> 0..1] /\ \A l \in Messages : l # m => ran'[l] = ran[l]
  BY <1>2 DEF RanInv, TypeOK
<1>5. TypeOK'
  <2>1. kind' \in [Messages -> Kinds \cup {"none"}]
    BY <1>2 DEF TypeOK
  <2>2. dispatch' \in [Messages -> {"none", "pending", "running", "done", "review"}]
    BY <1>3 DEF TypeOK
  <2>3. claimed \subseteq claimed' /\ claimed' \subseteq Messages
    BY <1>3 DEF TypeOK
  <2>4. ran' \in [Messages -> 0..2]
    BY <1>4
  <2>5. UNCHANGED <<lock, cur, whole, rest, dirty>>
    BY <1>2 DEF consumerVars
  <2>6. QED
    BY <1>2, <2>1, <2>2, <2>3, <2>4, <2>5 DEF TypeOK
<1>6. StoredInv'
  BY <1>2, <1>3 DEF StoredInv, TypeOK
<1>7. WorkInv'
  BY <1>1, <1>2, <1>3 DEF WorkInv, TypeOK, consumerVars
<1>8. RanInv'
  BY <1>1, <1>2, <1>3, <1>4 DEF RanInv, TypeOK, consumerVars
<1>9. ClaimsAreKept'
  <2>1. \A l \in Messages : dispatch[l] = "review" => dispatch'[l] = "review"
    BY <1>1, <1>3 DEF TypeOK
  <2>2. UNCHANGED <<chat, rest>>
    BY <1>2 DEF consumerVars
  <2>3. \A l \in claimed' : (l = m /\ (ran'[l] > 0 \/ chat # "open"))
                           \/ (l \in claimed /\ ran'[l] = ran[l])
    BY <1>1, <1>3, <1>4 DEF TypeOK
  <2>4. QED
    BY <2>1, <2>2, <2>3 DEF ClaimsAreKept
<1>10. QED
  BY <1>5, <1>6, <1>7, <1>8, <1>9

\* Steps that leave messages' claims and the consumers alone.
LEMMA OtherStep ==
  ASSUME IInv, UNCHANGED <<kind, claimed, dispatch, consumerVars, ran>>, TypeOK',
         chat' = chat \/ chat' # "open"
  PROVE  IInv'
<1>1. StoredInv' /\ WorkInv' /\ RanInv'
  BY DEF IInv, StoredInv, WorkInv, RanInv, consumerVars
<1>2. ClaimsAreKept'
  BY DEF IInv, ClaimsAreKept, consumerVars
<1>3. QED
  BY <1>1, <1>2 DEF IInv

-----------------------------------------------------------------------------
(* A consumer begins.                                                      *)

\* A dispatch that is pending and becomes another thing changes nothing for
\* those at work.
LEMMA SettlePending ==
  ASSUME IInv, NEW m \in Messages, NEW s \in {"running", "done"},
         dispatch[m] = "pending", Settle(m, s)
  PROVE  /\ dispatch' \in [Messages -> {"none", "pending", "running", "done", "review"}]
         /\ dispatch'[m] = s
         /\ \A l \in Messages : l # m => dispatch'[l] = dispatch[l]
         /\ \A l \in Messages : dispatch[l] = "review" => dispatch'[l] = "review"
         /\ \A c \in Consumers : cur[c] # m
         /\ kind[m] # "none"
BY DEF IInv, TypeOK, Settle, WorkInv, StoredInv

LEMMA DismissStep ==
  ASSUME IInv, NEW m \in Messages, dispatch[m] = "pending", Settle(m, "done"),
         UNCHANGED <<kind, deleted, marked, chat, quiet, funnelVars, faults, ran, consumerVars, overtaken>>,
         \/ claimed' = claimed
         \/ chat = "blocked" /\ claimed' = claimed \cup Batch(m)
  PROVE  IInv'
<1> USE DEF IInv
<1>1. /\ dispatch' \in [Messages -> {"none", "pending", "running", "done", "review"}]
      /\ \A l \in Messages : l # m => dispatch'[l] = dispatch[l]
      /\ \A l \in Messages : dispatch[l] = "review" => dispatch'[l] = "review"
      /\ \A c \in Consumers : cur[c] # m
      /\ kind[m] # "none"
  BY SettlePending
<1>2. Batch(m) \subseteq Messages /\ \A l \in Batch(m) : kind[l] # "none"
  BY DEF Batch, Stored
<1>3. claimed \subseteq claimed' /\ claimed' \subseteq Messages
  BY <1>2 DEF TypeOK
<1>4. TypeOK'
  BY <1>1, <1>3 DEF TypeOK, consumerVars, funnelVars
<1>5. StoredInv' /\ WorkInv' /\ RanInv'
  BY <1>1, <1>2, <1>3 DEF StoredInv, WorkInv, RanInv, TypeOK, consumerVars
<1>6. ClaimsAreKept'
  BY <1>1 DEF ClaimsAreKept, consumerVars
<1>7. QED
  BY <1>4, <1>5, <1>6

LEMMA WorkStep ==
  ASSUME IInv, NEW c \in Consumers, NEW m \in Messages, NEW claims \in SUBSET Messages,
         Free(c), dispatch[m] = "pending", claims \cap claimed = {},
         \A l \in claims : kind[l] # "none" /\ l <= m,
         Work(c, m, claims),
         UNCHANGED <<kind, deleted, marked, chat, quiet, funnelVars, faults, ran, overtaken>>
  PROVE  IInv'
<1> USE DEF IInv
<1>1. /\ dispatch' \in [Messages -> {"none", "pending", "running", "done", "review"}]
      /\ dispatch'[m] = "running"
      /\ \A l \in Messages : l # m => dispatch'[l] = dispatch[l]
      /\ \A l \in Messages : dispatch[l] = "review" => dispatch'[l] = "review"
      /\ \A d \in Consumers : cur[d] # m
      /\ kind[m] # "none"
  BY SettlePending DEF Work
<1>2. /\ cur' = [cur EXCEPT ![c] = m] /\ whole' = [whole EXCEPT ![c] = claims]
      /\ rest' = [rest EXCEPT ![c] = claims] /\ dirty' = [dirty EXCEPT ![c] = FALSE]
      /\ lock' = c /\ claimed' = claimed \cup claims
  BY DEF Work
<1>3. \A d \in Consumers : whole[d] \subseteq claimed /\ rest[d] \subseteq Messages
  BY DEF TypeOK
<1>4. TypeOK'
  <2>1. \A d, e \in Consumers : d # e => whole'[d] \cap whole'[e] = {}
    <3> SUFFICES ASSUME NEW d \in Consumers, NEW e \in Consumers, d # e
                 PROVE  whole'[d] \cap whole'[e] = {}
      OBVIOUS
    <3>1. whole'[d] = (IF d = c THEN claims ELSE whole[d])
          /\ whole'[e] = (IF e = c THEN claims ELSE whole[e])
      BY <1>2 DEF TypeOK
    <3>2. whole[d] \cap whole[e] = {} /\ whole[d] \cap claims = {} /\ whole[e] \cap claims = {}
      BY <1>3 DEF TypeOK
    <3>3. QED
      BY <3>1, <3>2
  <2>2. \A d \in Consumers : rest'[d] \subseteq whole'[d] /\ whole'[d] \subseteq claimed'
    BY <1>2, <1>3 DEF TypeOK
  <2>3. QED
    BY <1>1, <1>2, <2>1, <2>2 DEF TypeOK, funnelVars
<1>5. StoredInv'
  BY <1>1, <1>2 DEF StoredInv
<1>6. WorkInv'
  BY <1>1, <1>2 DEF WorkInv, TypeOK
<1>7. RanInv'
  <2>1. \A l \in claims : ran[l] = 0
    BY DEF RanInv, TypeOK
  <2>2. QED
    BY <1>2, <2>1 DEF RanInv, TypeOK
<1>8. ClaimsAreKept'
  <2>1. rest[c] = {}
    BY DEF Free, WorkInv, TypeOK
  <2>2. \A l \in claims : l \in rest'[c]
    BY <1>2 DEF TypeOK
  <2>3. \A d \in Consumers : rest[d] \subseteq rest'[d]
    BY <1>2, <2>1 DEF TypeOK
  <2>4. QED
    BY <1>1, <1>2, <2>2, <2>3 DEF ClaimsAreKept
<1>9. QED
  BY <1>4, <1>5, <1>6, <1>7, <1>8

LEMMA BeginStep ==
  ASSUME IInv, NEW c \in Consumers, NEW m \in Messages, BeginInput(c, m) \/ BeginStart(c, m)
  PROVE  IInv'
<1>1. CASE BeginInput(c, m)
  <2> USE <1>1
  <2>1. CASE /\ Settle(m, "done") /\ UNCHANGED <<claimed, consumerVars>>
    BY <2>1, DismissStep DEF BeginInput
  <2>2. CASE /\ chat = "blocked" /\ claimed' = claimed \cup Batch(m)
             /\ Settle(m, "done") /\ UNCHANGED consumerVars
    BY <2>2, DismissStep DEF BeginInput
  <2>3. CASE Work(c, m, Batch(m))
    <3>1. /\ Batch(m) \in SUBSET Messages /\ Batch(m) \cap claimed = {}
          /\ \A l \in Batch(m) : kind[l] # "none" /\ l <= m
      BY DEF Batch, Stored
    <3>2. QED
      BY <2>3, <3>1, WorkStep DEF BeginInput
  <2>4. QED
    BY <2>1, <2>2, <2>3 DEF BeginInput
<1>2. CASE BeginStart(c, m)
  <2> USE <1>2
  <2>1. CASE MayStart(m)
    <3>1. {m} \cap claimed = {} /\ kind[m] # "none" /\ m <= m
      BY <2>1 DEF MayStart, BeginStart, Queued, Messages
    <3>2. QED
      BY <2>1, <3>1, WorkStep DEF BeginStart
  <2>2. CASE ~MayStart(m)
    BY <2>2, DismissStep DEF BeginStart
  <2>3. QED
    BY <2>1, <2>2
<1>3. QED
  BY <1>1, <1>2

-----------------------------------------------------------------------------
(* A consumer goes on, gives back, ends or fails.                          *)

LEMMA RunSegmentStep ==
  ASSUME IInv, NEW c \in Consumers, RunSegment(c)
  PROVE  IInv'
<1> USE DEF IInv
<1> DEFINE S == Segment(c)
<1>1. S \subseteq rest[c] /\ rest[c] \subseteq Messages
  BY DEF Segment, TypeOK
<1>2. AfterRepeat(c) \subseteq Messages
  BY <1>1 DEF AfterRepeat
<1>3. /\ ran' = [m \in Messages |-> IF m \in S /\ ran[m] < 2 THEN ran[m] + 1 ELSE ran[m]]
      /\ rest' = [rest EXCEPT ![c] = @ \ S] /\ marked' = marked \cup AfterRepeat(c)
      /\ UNCHANGED <<kind, claimed, deleted, dispatch, chat, quiet, cur, whole, faults, overtaken>>
  BY DEF RunSegment
<1>4. /\ lock' \in Consumers \cup {None} /\ dirty' \in [Consumers -> BOOLEAN]
      /\ engaged' \in BOOLEAN /\ scheduled' \in BOOLEAN
  <2>1. \/ lock' = None /\ dirty' = [dirty EXCEPT ![c] = TRUE]
        \/ lock' = c /\ dirty' = dirty
    BY DEF RunSegment
  <2>2. lock' \in Consumers \cup {None} /\ dirty' \in [Consumers -> BOOLEAN]
    <3>1. dirty \in [Consumers -> BOOLEAN]
      BY DEF TypeOK
    <3>2. QED
      BY <2>1, <3>1
  <2>3. \/ engaged' = engaged
        \/ \E m \in Messages : engaged' = (kind[m] = "repeat")
    BY <1>1, Zenon DEF RunSegment
  <2>4. engaged' \in BOOLEAN /\ scheduled' \in BOOLEAN
    BY <2>3, Zenon DEF TypeOK, RunSegment
  <2>5. QED
    BY <2>2, <2>4
<1> HIDE DEF S
<1>5. \A m \in S : ran[m] = 0 /\ m \in whole[c] /\ m \in claimed
  <2>1. rest[c] \subseteq whole[c] /\ whole[c] \subseteq claimed
    BY DEF TypeOK
  <2>2. QED
    BY <1>1, <2>1 DEF RanInv
<1>6. \A m \in Messages : ran'[m] = IF m \in S THEN 1 ELSE ran[m]
  BY <1>3, <1>5
<1>7. TypeOK'
  <2>1. ran' \in [Messages -> 0..2]
    BY <1>3, <1>6 DEF TypeOK
  <2>2. \A d \in Consumers : rest'[d] \subseteq rest[d] /\ rest'[d] \subseteq Messages
    BY <1>3 DEF TypeOK
  <2>3. QED
    BY <1>2, <1>3, <1>4, <2>1, <2>2 DEF TypeOK
<1>8. StoredInv' /\ WorkInv'
  BY <1>3 DEF StoredInv, WorkInv
<1>9. RanInv'
  <2>1. \A m \in Messages : ran'[m] < 2 /\ (ran'[m] > 0 => m \in claimed')
    BY <1>3, <1>5, <1>6 DEF RanInv
  <2>2. ASSUME NEW d \in Consumers, NEW m \in Messages, m \in whole'[d]
        PROVE  ran'[m] = IF m \in rest'[d] THEN 0 ELSE 1
    <3>1. CASE d = c
      BY <1>3, <1>6, <2>2, <3>1 DEF RanInv, TypeOK
    <3>2. CASE d # c
      <4>1. m \notin S
        BY <1>3, <1>5, <2>2, <3>2 DEF TypeOK
      <4>2. QED
        BY <1>3, <1>6, <2>2, <3>2, <4>1 DEF RanInv, TypeOK
    <3>3. QED
      BY <3>1, <3>2
  <2>3. QED
    BY <2>1, <2>2 DEF RanInv
<1>10. ClaimsAreKept'
  <2>1. \A d \in Consumers, m \in Messages : m \in rest[d] => m \in rest'[d] \/ m \in S
    BY <1>3 DEF TypeOK
  <2>2. \A m \in claimed : m \in Messages
    BY DEF TypeOK
  <2>3. \A m \in Messages : ran[m] > 0 => ran'[m] > 0
    BY <1>6
  <2>4. QED
    BY <1>3, <1>6, <2>1, <2>2, <2>3 DEF ClaimsAreKept
<1>11. QED
  BY <1>7, <1>8, <1>9, <1>10

\* A consumer leaves, gives its unfinished claims back and settles its dispatch.
LEMMA LeaveStep ==
  ASSUME IInv, NEW c \in Consumers, ~Free(c), Leave(c),
         NEW s \in {"pending", "done", "review"}, Settle(cur[c], s),
         UNCHANGED <<kind, chat>>, TypeOK',
         \/ claimed' = claimed \ rest[c] /\ ran' = ran
         \/ claimed' = claimed /\ ran' = ran /\ s = "review"
         \/ /\ claimed' = claimed \ whole[c]
            /\ ran' = [m \in Messages |-> IF m \in whole[c] \ rest[c] THEN ran[m] - 1 ELSE ran[m]]
  PROVE  IInv'
<1> USE DEF IInv
<1>1. cur[c] \in Messages /\ dispatch[cur[c]] = "running"
  BY DEF TypeOK, Free, WorkInv
<1>2. /\ dispatch'[cur[c]] = s
      /\ \A l \in Messages : l # cur[c] => dispatch'[l] = dispatch[l]
      /\ \A l \in Messages : dispatch[l] = "review" => dispatch'[l] = "review"
      /\ \A l \in Messages : dispatch[l] = "none" => dispatch'[l] = "none"
  BY <1>1 DEF Settle, TypeOK
<1>3. /\ \A d \in Consumers : d # c => cur'[d] = cur[d] /\ whole'[d] = whole[d] /\ rest'[d] = rest[d]
      /\ cur'[c] = None /\ whole'[c] = {} /\ rest'[c] = {}
  BY DEF Leave, TypeOK
<1>4. StoredInv'
  BY <1>2 DEF StoredInv
<1>5. WorkInv'
  BY <1>1, <1>2, <1>3 DEF WorkInv, TypeOK
<1>6. \A m \in Messages :
        /\ m \notin whole[c] => ran'[m] = ran[m] /\ (m \in claimed' <=> m \in claimed)
        /\ m \in whole[c] =>
             \/ ran'[m] = 0 /\ (m \notin claimed' \/ s = "review")
             \/ ran'[m] = 1 /\ m \in claimed'
  BY DEF RanInv, TypeOK
<1>7. RanInv'
  <2>1. \A m \in Messages : ran'[m] < 2 /\ (ran'[m] > 0 => m \in claimed')
    BY <1>6 DEF RanInv, TypeOK
  <2>2. \A d \in Consumers, m \in Messages :
          m \in whole'[d] => m \notin whole[c] /\ m \in whole[d] /\ d # c
    BY <1>3 DEF TypeOK
  <2>3. QED
    BY <1>3, <1>6, <2>1, <2>2 DEF RanInv
<1>8. ClaimsAreKept'
  <2> SUFFICES ASSUME NEW m \in Messages, m \in claimed', chat' = "open",
                      \A l \in Messages : m <= l => dispatch'[l] # "review"
               PROVE  ran'[m] > 0 \/ \E d \in Consumers : m \in rest'[d]
    BY DEF ClaimsAreKept, TypeOK
  <2>1. CASE m \in whole[c]
    <3>1. m <= cur[c]
      BY <2>1 DEF WorkInv
    <3>2. s # "review"
      BY <1>1, <1>2, <3>1
    <3>3. QED
      BY <1>6, <2>1, <3>2
  <2>2. CASE m \notin whole[c]
    <3>1. m \in claimed /\ ran'[m] = ran[m] /\ m \notin rest[c]
      BY <1>6, <2>2 DEF TypeOK
    <3>2. ran[m] > 0 \/ \E d \in Consumers : m \in rest[d]
      BY <1>2, <3>1 DEF ClaimsAreKept
    <3>3. QED
      BY <1>3, <3>1, <3>2
  <2>3. QED
    BY <2>1, <2>2
<1>9. QED
  BY <1>4, <1>5, <1>7, <1>8

\* The type of what a leaving consumer leaves.
LEMMA LeaveType ==
  ASSUME IInv, NEW c \in Consumers, ~Free(c), Leave(c),
         NEW s \in {"pending", "done", "review"}, Settle(cur[c], s),
         NEW gone \in SUBSET whole[c], claimed' = claimed \ gone,
         UNCHANGED <<kind, deleted, chat, quiet>>, overtaken' \in SUBSET Messages,
         marked' \in SUBSET Messages, engaged' \in BOOLEAN, scheduled' \in BOOLEAN, faults' \in 0..MaxFaults,
         ran' \in [Messages -> 0..2]
  PROVE  TypeOK'
<1> USE DEF IInv
<1>1. dispatch' \in [Messages -> {"none", "pending", "running", "done", "review"}]
  BY DEF Settle, TypeOK
<1>2. /\ lock' = None /\ cur' \in [Consumers -> Messages \cup {None}]
      /\ whole' \in [Consumers -> SUBSET Messages] /\ rest' \in [Consumers -> SUBSET Messages]
      /\ dirty' \in [Consumers -> BOOLEAN]
  BY DEF Leave, TypeOK
<1>3. \A d \in Consumers :
        /\ whole'[d] = IF d = c THEN {} ELSE whole[d]
        /\ rest'[d] = IF d = c THEN {} ELSE rest[d]
  BY DEF Leave, TypeOK
<1>4. \A d \in Consumers : rest'[d] \subseteq whole'[d] /\ whole'[d] \subseteq claimed'
  <2> SUFFICES ASSUME NEW d \in Consumers
               PROVE  rest'[d] \subseteq whole'[d] /\ whole'[d] \subseteq claimed'
    OBVIOUS
  <2>1. CASE d = c
    BY <1>3, <2>1
  <2>2. CASE d # c
    <3>1. whole[d] \cap whole[c] = {} /\ whole[d] \subseteq claimed /\ rest[d] \subseteq whole[d]
      BY <2>2 DEF TypeOK
    <3>2. QED
      BY <1>3, <2>2, <3>1
  <2>3. QED
    BY <2>1, <2>2
<1>5. \A d, e \in Consumers : d # e => whole'[d] \cap whole'[e] = {}
  <2> SUFFICES ASSUME NEW d \in Consumers, NEW e \in Consumers, d # e
               PROVE  whole'[d] \cap whole'[e] = {}
    OBVIOUS
  <2>1. whole[d] \cap whole[e] = {}
    BY DEF TypeOK
  <2>2. QED
    BY <1>3, <2>1
<1>6. QED
  BY <1>1, <1>2, <1>4, <1>5 DEF TypeOK

LEMMA DeferRestStep ==
  ASSUME IInv, NEW c \in Consumers, DeferRest(c)
  PROVE  IInv'
<1>1. /\ ~Free(c) /\ Leave(c) /\ Settle(cur[c], "pending") /\ claimed' = claimed \ rest[c]
      /\ marked' = marked \cup AfterRepeat(c)
      /\ overtaken' = overtaken \cup Overtaken(c)
      /\ UNCHANGED <<kind, deleted, chat, quiet, engaged, scheduled, faults, ran>>
  BY DEF DeferRest, GivenBack, funnelVars
<1>2. /\ rest[c] \in SUBSET whole[c] /\ marked' \in SUBSET Messages
      /\ overtaken' \in SUBSET Messages
  BY <1>1 DEF IInv, TypeOK, AfterRepeat, Segment, Overtaken
<1>3. engaged' \in BOOLEAN /\ scheduled' \in BOOLEAN /\ faults' \in 0..MaxFaults /\ ran' \in [Messages -> 0..2]
  BY <1>1 DEF IInv, TypeOK
<1>4. TypeOK'
  BY <1>1, <1>2, <1>3, LeaveType
<1>5. QED
  BY <1>1, <1>4, LeaveStep

LEMMA FinishStep ==
  ASSUME IInv, NEW c \in Consumers, Finish(c)
  PROVE  IInv'
<1>1. /\ ~Free(c) /\ Leave(c) /\ Settle(cur[c], "done") /\ rest[c] = {} /\ claimed' = claimed
      /\ UNCHANGED <<kind, deleted, marked, chat, quiet, engaged, scheduled, faults, ran, overtaken>>
  BY DEF Finish, funnelVars
<1>2. /\ marked' \in SUBSET Messages /\ overtaken' \in SUBSET Messages
      /\ engaged' \in BOOLEAN /\ scheduled' \in BOOLEAN /\ faults' \in 0..MaxFaults
      /\ ran' \in [Messages -> 0..2]
  BY <1>1 DEF IInv, TypeOK
<1>3. claimed' = claimed \ rest[c] /\ rest[c] \in SUBSET whole[c]
  BY <1>1
<1>4. TypeOK'
  BY <1>1, <1>2, <1>3, LeaveType
<1>5. QED
  BY <1>1, <1>3, <1>4, LeaveStep

LEMMA FailStep ==
  ASSUME IInv, NEW c \in Consumers, Fail(c)
  PROVE  IInv'
<1>1. /\ ~Free(c) /\ Leave(c) /\ faults' \in 0..MaxFaults
      /\ UNCHANGED <<kind, deleted, chat, quiet>> /\ overtaken' \in SUBSET Messages
  BY DEF Fail, IInv, TypeOK
<1>2. PICK s \in Outcomes(c) : Settle(cur[c], s)
  BY DEF Fail
<1>3. s \in {"pending", "done", "review"}
  BY DEF Outcomes
<1>4. CASE dirty[c]
  <2>1. s = "review" /\ UNCHANGED <<claimed, marked, engaged, scheduled, ran>>
    BY <1>4 DEF Fail, Outcomes, funnelVars
  <2>2. /\ claimed' = claimed \ {} /\ {} \in SUBSET whole[c]
        /\ marked' \in SUBSET Messages /\ engaged' \in BOOLEAN /\ scheduled' \in BOOLEAN
        /\ ran' \in [Messages -> 0..2]
    BY <2>1 DEF IInv, TypeOK
  <2>3. TypeOK'
    BY <1>1, <1>2, <1>3, <2>2, LeaveType
  <2>4. QED
    BY <1>1, <1>2, <1>3, <2>1, <2>3, LeaveStep
<1>5. CASE ~dirty[c]
  <2>1. /\ claimed' = claimed \ whole[c]
        /\ ran' = [m \in Messages |-> IF m \in whole[c] \ rest[c] THEN ran[m] - 1 ELSE ran[m]]
        /\ marked' = marked \ {m \in whole[c] : \E l \in Repeats(c) : l < m}
    BY <1>5 DEF Fail
  <2>2. ran' \in [Messages -> 0..2]
    <3>1. \A m \in Messages : m \in whole[c] \ rest[c] => ran[m] = 1
      BY DEF IInv, RanInv
    <3>2. \A m \in Messages :
            (IF m \in whole[c] \ rest[c] THEN ran[m] - 1 ELSE ran[m]) \in 0..2
      BY <3>1 DEF IInv, TypeOK
    <3>3. QED
      BY <2>1, <3>2
  <2>3. marked' \in SUBSET Messages /\ whole[c] \in SUBSET whole[c]
    BY <2>1 DEF IInv, TypeOK
  <2>4. engaged' \in BOOLEAN /\ scheduled' \in BOOLEAN
    <3>1. CASE UNCHANGED funnelVars
      BY <3>1 DEF IInv, TypeOK, funnelVars
    <3>2. CASE /\ scheduled' \in BOOLEAN
               /\ engaged' \in {engaged, \E m \in Messages : kind[m] = "repeat" /\ ran'[m] > 0,
                                engaged /\ Repeats(c) = {}}
      BY <3>2, Zenon DEF IInv, TypeOK
    <3>3. QED
      BY <1>5, <3>1, <3>2 DEF Fail
  <2>5. TypeOK'
    BY <1>1, <1>2, <1>3, <2>1, <2>2, <2>3, <2>4, LeaveType
  <2>6. QED
    BY <1>1, <1>2, <1>3, <2>1, <2>5, LeaveStep
<1>6. QED
  BY <1>4, <1>5

-----------------------------------------------------------------------------
LEMMA NextIInv == IInv /\ [Next]_vars => IInv'
<1> SUFFICES ASSUME IInv, [Next]_vars PROVE IInv'
  OBVIOUS
<1>1. CASE \E m \in Messages, k \in Kinds : Arrive(m, k)
  BY <1>1, ArriveStep
<1>2. CASE \E m \in Messages : Delete(m)
  <2>1. TypeOK'
    BY <1>2 DEF Delete, IInv, TypeOK, Stored, consumerVars, funnelVars
  <2>2. QED
    BY <1>2, <2>1, OtherStep DEF Delete
<1>3. CASE \E state \in {"blocked", "gone"} : CloseChat(state)
  <2>1. TypeOK'
    BY <1>3 DEF CloseChat, IInv, TypeOK, messageVars, consumerVars, funnelVars
  <2>2. QED
    BY <1>3, <2>1, OtherStep DEF CloseChat, messageVars
<1>4. CASE QuietPasses
  <2>1. TypeOK'
    BY <1>4 DEF QuietPasses, IInv, TypeOK, messageVars, consumerVars, funnelVars
  <2>2. QED
    BY <1>4, <2>1, OtherStep DEF QuietPasses, messageVars
<1>5. CASE ScheduledStepRuns
  <2>1. engaged' \in BOOLEAN /\ scheduled' \in BOOLEAN
    BY <1>5, Zenon DEF ScheduledStepRuns, IInv, TypeOK
  <2>2. UNCHANGED <<messageVars, chat, quiet, consumerVars, faults, ran, overtaken>>
    BY <1>5 DEF ScheduledStepRuns
  <2>3. TypeOK'
    BY <2>1, <2>2 DEF IInv, TypeOK, messageVars, consumerVars
  <2>4. QED
    BY <2>2, <2>3, OtherStep DEF messageVars
<1>6. CASE \E c \in Consumers : RunSegment(c) \/ DeferRest(c) \/ Finish(c) \/ Fail(c)
  BY <1>6, RunSegmentStep, DeferRestStep, FinishStep, FailStep
<1>7. CASE \E c \in Consumers, m \in Messages : BeginInput(c, m) \/ BeginStart(c, m)
  BY <1>7, BeginStep
<1>8. CASE UNCHANGED vars
  <2>1. TypeOK'
    BY <1>8 DEF vars, messageVars, consumerVars, funnelVars, IInv, TypeOK
  <2>2. QED
    BY <1>8, <2>1, OtherStep DEF vars, messageVars
<1>9. QED
  BY <1>1, <1>2, <1>3, <1>4, <1>6, <1>7, <1>8, <1>5 DEF Next

-----------------------------------------------------------------------------
\* The inductive invariant holds in every state: what consumers have claimed, what
\* ran and what the dispatches say agree.
THEOREM SpecIInv == Spec => []IInv
BY InitIInv, NextIInv, PTL DEF Spec

\* Every variable keeps its type, and two consumers never claim the same message.
THEOREM SpecTypeOK == Spec => []TypeOK
<1>1. IInv => TypeOK
  BY DEF IInv
<1>2. QED
  BY <1>1, SpecIInv, PTL

\* No message is given to the funnel twice, however many consumers take bursts,
\* starts and deferred rests of the same chat, and whatever fails.
THEOREM SpecRunAtMostOnce == Spec => []RunAtMostOnce
<1>1. IInv => RunAtMostOnce
  BY DEF IInv, RanInv, RunAtMostOnce
<1>2. QED
  BY <1>1, SpecIInv, PTL

\* No claim is forgotten: a claimed message runs, unless its chat is closed or a
\* human has its dispatch or that of a later message.
THEOREM SpecClaimsAreKept == Spec => []ClaimsAreKept
<1>1. IInv => ClaimsAreKept
  BY DEF IInv
<1>2. QED
  BY <1>1, SpecIInv, PTL
=============================================================================
