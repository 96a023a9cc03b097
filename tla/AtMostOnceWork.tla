--------------------------- MODULE AtMostOnceWork ----------------------------
(***************************************************************************)
(* What every durable queue of this system promises about one item of      *)
(* work: it is performed at most once, it is only closed after it was      *)
(* performed, what could not be finished is parked for a human instead of  *)
(* being tried again, and only finished work is forgotten.  An item the    *)
(* queue has lost track of is still performed at most once, and nothing    *)
(* else is promised of it.  Items are independent: one step may move       *)
(* several of them.                                                        *)
(***************************************************************************)
EXTENDS Naturals

CONSTANTS
  Items,       \* the pieces of work
  Droppable,   \* items that may be closed without being performed
  Losable,     \* items the queue can lose track of
  CanReopen    \* TRUE: an operator may release parked work nobody performed

VARIABLES
  phase,       \* [Items -> Phases]
  performed    \* how often each item was carried out

Phases == {"none", "open", "closed", "parked", "gone", "adrift"}

Submit(i) ==
  phase[i] = "none" /\ phase'[i] = "open" /\ performed'[i] = performed[i]

\* Performing and closing are one transaction ...
Complete(i) ==
  /\ phase[i] = "open" /\ phase'[i] = "closed"
  /\ performed[i] = 0 /\ performed'[i] = 1

\* ... unless the item was parked while its handler was still running.
CompleteParked(i) ==
  /\ phase[i] = "parked" /\ phase'[i] = "parked"
  /\ performed[i] = 0 /\ performed'[i] = 1

\* Closed without anything to perform here (handed over to another queue).
Drop(i) ==
  i \in Droppable /\ phase[i] = "open" /\ phase'[i] = "closed" /\ performed'[i] = performed[i]

Park(i) ==
  phase[i] = "open" /\ phase'[i] = "parked" /\ performed'[i] = performed[i]

Reopen(i) ==
  /\ CanReopen
  /\ phase[i] = "parked" /\ phase'[i] = "open"
  /\ performed[i] = 0 /\ performed'[i] = 0

Forget(i) ==
  phase[i] = "closed" /\ phase'[i] = "gone" /\ performed'[i] = performed[i]

\* The queue loses track of an item ...
Lose(i) ==
  i \in Losable /\ phase[i] # "adrift" /\ phase'[i] = "adrift" /\ performed'[i] = performed[i]

\* ... which may be performed all the same, but never a second time.
CompleteAdrift(i) ==
  /\ phase[i] = "adrift" /\ phase'[i] = "adrift"
  /\ performed[i] = 0 /\ performed'[i] = 1

Rest(i) == phase'[i] = phase[i] /\ performed'[i] = performed[i]

Init ==
  /\ phase = [i \in Items |-> "none"]
  /\ performed = [i \in Items |-> 0]

Next ==
  /\ phase' \in [Items -> Phases]
  /\ performed' \in [Items -> 0..1]
  /\ \A i \in Items :
       \/ Submit(i) \/ Complete(i) \/ CompleteParked(i) \/ Drop(i)
       \/ Park(i) \/ Reopen(i) \/ Forget(i) \/ Rest(i)
       \/ Lose(i) \/ CompleteAdrift(i)

Spec == Init /\ [][Next]_<<phase, performed>>
=============================================================================
