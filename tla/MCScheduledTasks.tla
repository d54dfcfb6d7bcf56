--------------------------- MODULE MCScheduledTasks ---------------------------
(* ScheduledTasks with two runs of which retention keeps one.                *)
EXTENDS ScheduledTasks
=============================================================================
