SPECIFICATION RFairSpec
CONSTANTS
  Size = 3
  Loads <- MCLoads
  MaxEvents = 2
  LongLabels = {1}
  Counters <- MCCounters
  Capacities = {0, 3}
  Namings <- MCNamings
INVARIANTS
  TypeOK
  GatheredOnce
  NothingLeft
  ReportOrdered
  ExportReadsBack
PROPERTIES
  Collects
  CollectsAll
