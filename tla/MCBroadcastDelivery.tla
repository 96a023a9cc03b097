------------------------- MODULE MCBroadcastDelivery -------------------------
(* Values for the constants of BroadcastDelivery and its symmetry.         *)
EXTENDS BroadcastDelivery, TLC

\* Recipients are interchangeable (used for safety only); runs are not, for
\* FirstIdle picks one of them.
ChatSymmetry == Permutations(Chats)
=============================================================================
