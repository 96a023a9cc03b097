------------------------- MODULE MCScheduledMessages -------------------------
(* Values for the constants of ScheduledMessages.                          *)
EXTENDS ScheduledMessages
=============================================================================
