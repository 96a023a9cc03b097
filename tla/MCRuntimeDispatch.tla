-------------------------- MODULE MCRuntimeDispatch --------------------------
(* Instances of RuntimeDispatch for TLC: loops and consumers are alike.       *)
EXTENDS RuntimeDispatch, TLC

ActorSymmetry == Permutations(Loops) \cup Permutations(Consumers)
=============================================================================
