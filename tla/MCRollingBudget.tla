-------------------------- MODULE MCRollingBudget --------------------------
(* Two lanes over one ledger. *)
EXTENDS RollingBudget
=============================================================================
