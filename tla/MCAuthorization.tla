-------------------------- MODULE MCAuthorization --------------------------
EXTENDS Authorization

\* Every client runs the same application.
OneApp == [c \in Leases |-> "app"]
Singly == {{s} : s \in Scopes}
=============================================================================
