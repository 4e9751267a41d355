\* The process ends while it rewrites the projection table over an older checkpoint.
SPECIFICATION Spec
CONSTANTS
  Users <- TwoUsers
  Relay <- MCRelay
  Roles <- NoRoles
  Metas <- OneMeta
  Times = {1, 2}
  SourceIds <- LowId
  GenId <- MCGenId
  Owners <- MCOwners
  Admins <- NoAdmins
  PublicJoin = TRUE
  InvitesEnabled = FALSE
  MemberCap = 1
  Kinds <- MembershipKinds
  InOrder = TRUE
  FlushOnWrite = FALSE
  SnapshotInterrupted = TRUE
  MaxSources = 2
  MaxCrashes = 1
  MaxFaults = 0
INVARIANT RebuildAssertion
