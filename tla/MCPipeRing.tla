----------------------------- MODULE MCPipeRing -----------------------------
(* PipeRing for TLC: producers that may fill the ring and producers that   *)
(* must leave one cell for others, as ordinary and reserved commands do.   *)
EXTENDS PipeRing

Reserves == {0, 1}

=============================================================================
