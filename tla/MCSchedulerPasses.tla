------------------------- MODULE MCSchedulerPasses -------------------------
(* Three issues over two tiers, the upper one drop-everything. *)
EXTENDS SchedulerPasses
=============================================================================
