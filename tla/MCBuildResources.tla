-------------------------- MODULE MCBuildResources --------------------------
(* Two build tasks; an hour is four ticks, the skew one, the timeout two. *)
EXTENDS BuildResources
=============================================================================
