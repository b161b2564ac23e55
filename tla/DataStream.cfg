SPECIFICATION FairSpec
CONSTANTS
  p1 = p1 p2 = p2 r1 = r1
  Producers = {p1, p2}
  Replayers = {r1}
  JournalCapacity = 2
  Window = 1
  MaxSeq = 3
  MaxFaults = 1
INVARIANTS TypeOK OutputOrdered SkippedOnlyByWindow ReadIsKept
PROPERTIES ReplayReaches SendCompletes
CHECK_DEADLOCK FALSE
