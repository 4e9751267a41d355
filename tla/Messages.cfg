\* Every text of a small language of queries, over a store with a public, a private and a
\* deleted group.
SPECIFICATION Spec
CONSTANTS
  MaxU32 = 1000000
  MaxU64 = 4000000
  Limits <- MCLimits
  GroupIdMax = 5
  GroupTagsMax = 2
  KindsMax = 2
  Decimal <- MCDecimal
  Inputs <- MCInputs
  Store <- MCStore
  HashRank <- MCHashRank
  Groups <- MCGroups
  DeletedEvents <- MCDeleted
  Admins <- MCAdmins
  Auths <- MCAuths
  HookSets <- MCHookSets
  QueryConfig <- MCQueryConfig
INVARIANTS ParsersAgree WrittenReadsBack AnswerIsNewest CountIsExact HooksCannotLeak AnswerBounded
CHECK_DEADLOCK FALSE
