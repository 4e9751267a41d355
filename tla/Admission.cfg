\* Two connections and two messages, each at one of two times, in any order of the times.
SPECIFICATION Spec
CONSTANTS
  MaxU32 = 1000000
  MaxU64 = 4000000
  Limits <- MCLimits
  GroupIdMax = 5
  GroupTagsMax = 2
  KindsMax = 2
  Decimal <- MCDecimal
  Keys <- MCKeys
  RuleOf <- MCRuleOf
  Readings = {0, 2}
  Connections <- MCConnections
  IpOf <- MCIpOf
  KeysOf <- MCKeysOf
  ChallengeOf <- MCChallengeOf
  Inputs <- MCInputs
  Signed <- MCSigned
  HookRejects <- MCHookRejects
  Auth <- MCAuth
  GroupsEnabled = TRUE
  InitialLog <- MCInitialLog
  MaxMessages = 2
  MaxFaults = 1
INVARIANTS BurstBound NoBorrowedIdentity OnlyAuthorsStore AcceptedIsStored MetricsAddUp
CHECK_DEADLOCK FALSE
