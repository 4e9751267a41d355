\* Clients with clocks that differ: an event with an earlier created_at.
SPECIFICATION Spec
CONSTANTS
  Users <- TwoUsers
  Relay <- MCRelay
  Roles <- NoRoles
  Metas <- OneMeta
  Times = {1, 2, 3}
  SourceIds <- LowId
  GenId <- MCGenId
  Owners <- MCOwners
  Admins <- NoAdmins
  PublicJoin = TRUE
  InvitesEnabled = FALSE
  MemberCap = 2
  Kinds <- MembershipKinds
  InOrder = FALSE
  FlushOnWrite = FALSE
  SnapshotInterrupted = FALSE
  MaxSources = 3
  MaxCrashes = 0
  MaxFaults = 0
INVARIANT ReopenSucceeds
