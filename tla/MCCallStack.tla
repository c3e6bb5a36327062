----------------------------- MODULE MCCallStack -----------------------------
(* CallStack for TLC.                                                      *)
EXTENDS CallStack

=============================================================================
