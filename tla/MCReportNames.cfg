SPECIFICATION RSpec
CONSTANTS
  Size = 3
  Loads <- MCLoads
  MaxEvents = 2
  LongLabels = {1}
  Counters <- MCCounters
  Capacities = {0, 3}
  Namings <- MCNamings
INVARIANT
  NamesArrive
