--------------------------- MODULE MCTelegramInbox ---------------------------
(* Instances of TelegramInbox for TLC: updates 1 and 2 belong to one dialog,  *)
(* a third to another.                                                       *)
EXTENDS TelegramInbox, TLC

MCPeer == [u \in Updates |-> IF u <= 2 THEN "chat:1" ELSE "chat:2"]

WorkerSymmetry == Permutations(Workers)
=============================================================================
