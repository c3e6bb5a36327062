----------------------------- MODULE MCHookLane -----------------------------
(* HookLane for TLC.                                                       *)
EXTENDS HookLane

=============================================================================
