\* Two command processes beside a relay that writes two events, one of which
\* may replace the other; policy limits that some logs exceed; two faults.
SPECIFICATION Spec
CONSTANTS
  v1 = v1
  v2 = v2
  note = note
  here = here
  elsewhere = elsewhere
  t1 = t1
  t2 = t2
  p1 = p1
  p2 = p2
  Events <- MCEvents
  Replaces <- MCReplaces
  Size <- MCSize
  Urls <- BothUrls
  Tenants <- TwoTenants
  Tenant = t1
  BackupEnabled <- TwoTenants
  ExportEnabled <- OneTenant
  Procs <- TwoProcs
  MaxEventCount = 2
  MaxLineBytes = 2
  MaxBackupBytes = 3
  MaxWrites = 3
  MaxCommands = 2
  MaxFaults = 2
SYMMETRY Symmetry
INVARIANTS PortableIsWhole RestoredIsBackup UnpackedIsUsable ExportIsWhole
PROPERTY FinishedStays
CHECK_DEADLOCK FALSE
