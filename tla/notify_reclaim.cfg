CONSTANTS
  w1 = w1  w2 = w2  w3 = w3  j1 = j1
  Event = {1, 2}  JourneyOf <- OneJourney
  Poller = {w1, w2}  Reclaimer = {w3}
  BatchSize = 2  MaxStream = 3  MaxFaults = 2
SPECIFICATION FairSpec
CHECK_DEADLOCK FALSE
INVARIANTS ConsumerTypeOK  PushedOnce
PROPERTIES EveryEventNotified
