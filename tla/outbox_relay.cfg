CONSTANTS
  r1 = r1  r2 = r2  j1 = j1  j2 = j2
  Event = {1, 2, 3}  JourneyOf <- TwoJourneys
  Relay = {r1, r2}  BatchLimit = 2  MaxFaults = 2
SPECIFICATION FairSpec
CHECK_DEADLOCK FALSE
INVARIANTS RelayTypeOK
PROPERTIES StreamSpec EveryEventStreams
