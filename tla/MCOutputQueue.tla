--------------------------- MODULE MCOutputQueue ---------------------------
(* OutputQueue for TLC: the connections are of the first user.            *)
EXTENDS OutputQueue

OneUser == [c \in Conns |-> CHOOSE u \in Users : TRUE]

=============================================================================
