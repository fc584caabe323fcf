----------------------------- MODULE MCRouting -----------------------------
(* Two tables that share a level, and none; one level has no label in the *)
(* repo, and one label is of no level.                                     *)
EXTENDS Routing

CONSTANTS small, large, huge, typo

MCNames == {small, large, huge, typo}
MCLabels == {small, large, typo}
MCTables == { [levels |-> {small, large, huge}, default |-> large],
              [levels |-> {large}, default |-> large] }
=============================================================================
