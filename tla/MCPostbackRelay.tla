--------------------------- MODULE MCPostbackRelay ---------------------------
(* Values for the constants of PostbackRelay.                              *)
EXTENDS PostbackRelay
=============================================================================
