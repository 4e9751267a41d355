\* A REQ under the id of an open subscription is refused.
SPECIFICATION Spec
CONSTANTS
  Sessions <- TwoSessions
  Publishers <- Second
  Subscribers <- First
  Readers <- First
  Topics <- AllTopics
  SubIds <- OneSub
  BusCapacity = 1
  QueueCapacity = 3
  MaxSubs = 1
  MaxHostSubs = 2
  MaxEvents = 1
  MaxCommands = 2
  MaxFaults = 0
INVARIANT ClosedIsClosed
