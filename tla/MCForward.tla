----------------------------- MODULE MCForward -----------------------------
(* A plain keyboard and a keyboard with pointer buttons share key "a".     *)
EXTENDS Forward

Plugged == [plain |-> {"a"}, combined |-> {"a", "b"}]

=============================================================================
