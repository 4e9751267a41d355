\* One session publishes, both subscribe, at the limits of the connection and the host;
\* the client that publishes may stop reading.
SPECIFICATION FairSpec
CONSTANTS
  Sessions <- TwoSessions
  Publishers <- Second
  Subscribers <- TwoSessions
  Readers <- First
  Topics <- PublicTopic
  SubIds <- TwoSubs
  BusCapacity = 1
  QueueCapacity = 2
  MaxSubs = 1
  MaxHostSubs = 1
  MaxEvents = 2
  MaxCommands = 2
  MaxFaults = 0
INVARIANTS TypeOK PermitsMatch
PROPERTY CatchesUp
