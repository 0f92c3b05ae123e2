CONSTANTS
  a1 = a1  a2 = a2  k1 = k1  d1 = d1  NoAttempt = NoAttempt
  Attempt = {a1, a2}  Key = {k1}  Driver = {d1}
  KeyOf <- OneKey  DriverOf <- OneDriver
  Faults = {"crash", "save"}  MaxUpdates = 2
SPECIFICATION FairSpec
CHECK_DEADLOCK FALSE
INVARIANTS JourneyTypeOK LiveIsBacked SameJourneyForKey
PROPERTIES LegalLifecycle ApprovedEnds SlotsReturn
