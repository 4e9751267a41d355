\* Restarts: clients submit in the order of their created_at, the process ends
\* between any two store transactions, twice, and one write fails anywhere.
SPECIFICATION Spec
CONSTANTS
  Users <- TwoUsers
  Relay <- MCRelay
  Roles <- NoRoles
  Metas <- OneMeta
  Times = {1, 2, 3}
  SourceIds <- HighId
  GenId <- MCGenId
  Owners <- MCOwners
  Admins <- NoAdmins
  PublicJoin = TRUE
  InvitesEnabled = FALSE
  MemberCap = 1
  Kinds <- RecoveryKinds
  InOrder = TRUE
  FlushOnWrite = TRUE
  SnapshotInterrupted = FALSE
  MaxSources = 3
  MaxCrashes = 2
  MaxFaults = 1
INVARIANTS
  AckedIsComplete
  LiveMatchesRebuild
  MembershipFollowsRequests
