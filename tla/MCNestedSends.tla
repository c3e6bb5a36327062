--------------------------- MODULE MCNestedSends ---------------------------
(* NestedSends for TLC.                                                    *)
EXTENDS NestedSends

=============================================================================
