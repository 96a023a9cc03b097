--------------------------- MODULE MCDebouncedInput ---------------------------
(* Values for the constants of DebouncedInput.                             *)
EXTENDS DebouncedInput
=============================================================================
