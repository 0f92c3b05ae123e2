CONSTANTS
  c1 = c1  c2 = c2  c3 = c3  s1 = s1  s2 = s2
  k1 = k1  k2 = k2  k3 = k3  j1 = j1  j2 = j2  j3 = j3  NoCall = NoCall
  Segment = {s1, s2}  Key = {k1, k2}  Journey = {j1, j2, j3}  Call = {c1, c2, c3}
  MaxSlots = 2  Buffer = 2
  Request <- RetryAndRival
  InitCapacity <- TwoCars
  CapacityValues = {4}  ClosureDurations = {}
  OrphanThreshold = 0  Horizon = 3  MaxTxRetries = 1
  Faults = {"crash", "db", "ambiguous", "retry"}
SPECIFICATION Spec
CHECK_DEADLOCK FALSE
INVARIANTS TypeOK OneReservationPerKey ReservedIsBacked
PROPERTY BookingSpec
