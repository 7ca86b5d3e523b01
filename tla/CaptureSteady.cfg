SPECIFICATION RecyclingSpec
CONSTANTS
  N = 4
  Faults = {}
  MaxCount = 4
INVARIANTS
  OneOwner
  HandleMatchesSlot
  TicketsConserved
  DriverNeverStarves
PROPERTIES
  EveryBufferDelivered
