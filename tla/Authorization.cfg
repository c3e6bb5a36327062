SPECIFICATION FairSpec
CONSTANTS
  Threads = 2
  MaxJobs = 2
  Leases = {"lease"}
  Revokers = {"rpc"}
  Apps = {"app"}
  App <- OneApp
  Scopes = {"monitor"}
  Asked = {{"monitor"}}
  Withdrawn <- Singly
  MaxConnections = 3
  MaxRequests = 1
  MaxTrouble = 2
INVARIANTS StaleGrantsKnown RevokeWins NoJobForgotten RefsBalanced
PROPERTIES RevocationLands AuthorizationEnds ShutdownEnds
CHECK_DEADLOCK FALSE
