\* Client clocks that differ, several events in a second, and the deletion of
\* events and of the group in any order of created_at, with a crash.
SPECIFICATION Spec
CONSTANTS
  Users <- TwoUsers
  Relay <- MCRelay
  Roles <- NoRoles
  Metas <- OneMeta
  Times = {1, 2}
  SourceIds <- BothIds
  GenId <- MCGenId
  Owners <- MCOwners
  Admins <- NoAdmins
  PublicJoin = TRUE
  InvitesEnabled = FALSE
  MemberCap = 1
  Kinds <- DisorderKinds
  InOrder = FALSE
  FlushOnWrite = FALSE
  SnapshotInterrupted = FALSE
  MaxSources = 3
  MaxCrashes = 1
  MaxFaults = 0
INVARIANTS DeletedStaysHidden MembersAreLatest StoredOnce
PROPERTIES NoWriteAfterTombstone OutboxNeverRegresses
