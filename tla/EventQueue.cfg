CONSTANTS
  Slow = Slow
  Service = Service
  Task <- MCTask
  Publisher <- MCPublisher
  Poller = Service
  Priority <- MCPriority
  Size = 4
  MaxEvents = 6
SPECIFICATION FairSpec
INVARIANTS
  SlotExclusive
PROPERTIES
  EventsKept
  ImplementsFifo
  Drained
