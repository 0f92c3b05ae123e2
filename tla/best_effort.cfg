\* Availability: one check, one journey in one window.  Push: two drivers with
\* two devices, one notification.  Routes: two calls, two trips under one key
\* and one from a place to itself.  Graph: four nodes, up to five roads.
CONSTANTS
  Reader = {"r1"}
  Holder = {"j1"}
  AvailWindow = {"w1"}
  WindowOf <- MCWindowOf
  Meets <- MCMeets
  EventType = {"journey.booked", "journey.expired"}
  Level = {"normal"}
  RoomFor <- MCRoom
  AvailTTL = 1
  MaxFlight = 1
  MaxLag = 1
  MaxTries = 2
  MaxAvailTime = 4
  MaxAvailFaults = 1
  PushDriver = {"d1", "d2"}
  Device = {"t1", "t2"}
  Note = {"n1"}
  DriverOf <- MCDriverOf
  MaxAttempts = 2
  MaxRows = 2
  MaxPushFaults = 1
  RouteCall = {"c1", "c2"}
  Trip = {"t1", "t2", "home"}
  SamePlace = {"home"}
  CacheKeyOf <- MCKey
  Drive = {"by A", "by B", "by C", "none"}
  Drives <- MCDrives
  RoadSegment = {"A", "B", "C"}
  Steps <- MCSteps
  Points <- MCPoints
  MaxRouteFaults = 1
  MapNode = {"a", "b", "c", "d"}
  Road = {"ab", "bc", "cd", "ac", "bd"}
  Ends <- MCEnds
  Minutes = {1, 3}
  BuiltIn <- MCBuiltIn
SPECIFICATION EffortSpec
CHECK_DEADLOCK FALSE
INVARIANTS
  EffortTypeOK
  AnswersAreFresh
  DeliveryStatusIsTrue
  RouteIsWhole
  RouteIsShortest
PROPERTIES
  EndedComesBack
  PushEnds
