\* Two connections for one permit, two active tenants, configurations at the edges
\* of what is accepted, and a shutdown at any moment; one client may stop reading.
SPECIFICATION HostSpec
CONSTANTS
  Callers <- TwoConns
  Limit = 1
  UsizeMax = 3
  Configs <- MCConfigs
  Requests <- MCRequests
  HostRank <- MCHostRank
  Readers <- ReadingConns
  MaxEvents = 1
  MaxRequests = 2
INVARIANTS HostTypeOK PermitsAreConnections ReadyServes FlushedAtStop
PROPERTIES ImplementsPool RoutedByName Drains
CHECK_DEADLOCK FALSE
