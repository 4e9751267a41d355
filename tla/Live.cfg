\* One session publishes to the private group and changes its members, another
\* subscribes; the channel holds one offset, and one store operation may fail.
SPECIFICATION Spec
CONSTANTS
  Sessions <- TwoSessions
  Publishers <- Second
  Subscribers <- First
  Readers <- First
  Topics <- GroupTopic
  SubIds <- OneSub
  BusCapacity = 1
  QueueCapacity = 2
  MaxSubs = 1
  MaxHostSubs = 1
  MaxEvents = 3
  MaxCommands = 2
  MaxFaults = 1
INVARIANTS NoGap OnlyReaders
