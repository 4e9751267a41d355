\* Liveness across a crash, also of the recovery itself, clean restarts and a
\* move of the tenant by portable backup.
SPECIFICATION MovedSpec
CONSTANTS
  Users <- TwoUsers
  Relay <- MCRelay
  Roles <- OwnerRole
  Metas <- OneMeta
  Times = {1, 2, 3}
  SourceIds <- HighId
  GenId <- MCGenId
  Owners <- MCOwners
  Admins <- NoAdmins
  PublicJoin = TRUE
  InvitesEnabled = FALSE
  MemberCap = 1
  Kinds <- RecoveryKinds
  InOrder = TRUE
  FlushOnWrite = FALSE
  SnapshotInterrupted = FALSE
  MaxSources = 3
  MaxCrashes = 1
  MaxFaults = 0
INVARIANTS TypeOK ReopenSucceeds
PROPERTIES EffectsEventuallyStored Reopens
