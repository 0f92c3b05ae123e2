---------------------------- MODULE MCBestEffort ----------------------------
(***************************************************************************)
(* An instance for TLC of four parts that share no state and answer as     *)
(* well as they can when something fails: the availability check with the  *)
(* release consumer, the delivery of push notifications, the routes        *)
(* between points and those on the city graph.  In a behaviour one of      *)
(* them moves, and of the availability check's segment either the slots    *)
(* change or the closures, of which an answer has a field each.            *)
(***************************************************************************)
EXTENDS Availability, PushDelivery, RouteService, ShortestRoute

VARIABLE focus   \* the part that moves
effortVars == <<availVars, pushVars, routeVars, shortestVars, focus>>

\* An entry that an overlapping window's invalidation misses lives on like one
\* whose invalidation failed, so one window is enough.
MCWindowOf == [j \in Holder |-> "w1"]
MCMeets == [w \in AvailWindow |-> AvailWindow]
MCRoom == [l \in Level |-> 1]
MCDriverOf == [n \in Note |-> "d1"]

\* The first drive has two runs of road A around one of road B, and times on
\* both sides of a half minute; the second has a single point, the last no step.
Step(a, n) == [segment |-> a, seconds |-> n]
MCSteps == [d \in Drive |->
  CASE d = "by A" -> <<Step("A", 20), Step("A", 80), Step("B", 90), Step("A", 40)>>
    [] d = "by B" -> <<Step("B", 89)>>
    [] d = "by C" -> <<Step("C", 30)>>
    [] OTHER -> <<>>]
MCPoints == [d \in Drive |-> IF d = "by B" THEN 1 ELSE 3]
MCDrives == [t \in Trip |-> CASE t = "t1" -> {"by A", "by B"} [] t = "t2" -> {"by C", "none"} [] OTHER -> {}]
MCKey == [t \in Trip |-> IF t = "home" THEN "k2" ELSE "k1"]

\* A square with one diagonal.
MCEnds == [r \in Road |->
  CASE r = "ab" -> <<"a", "b">> [] r = "bc" -> <<"b", "c">> [] r = "cd" -> <<"c", "d">>
    [] r = "ac" -> <<"a", "c">> [] OTHER -> <<"b", "d">>]
MCBuiltIn == [r \in {"ab", "bc"} |-> 1]

EffortInit ==
  /\ AvailInit /\ PushInit /\ RouteInit /\ ShortestInit
  /\ focus \in {"slots", "closures", "push", "routes", "graph"}
  /\ focus # "graph" => rows = <<>>
  /\ focus # "push" => fcmClient
  /\ focus \notin {"slots", "closures"} => redisOn

EffortNext ==
  /\ UNCHANGED focus
  /\ \/ /\ focus \in {"slots", "closures"} /\ AvailNext
        /\ UNCHANGED shut \/ focus = "closures"
        /\ UNCHANGED holding \/ focus = "slots"
        /\ UNCHANGED <<pushVars, routeVars, shortestVars>>
     \/ /\ focus = "push" /\ PushNext
        /\ UNCHANGED <<availVars, routeVars, shortestVars>>
     \/ /\ focus = "routes" /\ RouteNext
        /\ UNCHANGED <<availVars, pushVars, shortestVars>>
     \/ /\ focus = "graph" /\ ShortestNext
        /\ UNCHANGED <<availVars, pushVars, routeVars>>

\* While other parts move, windows that never end are no unfairness; there are
\* no deliveries then to be fair to.
EffortFairness == (focus \in {"slots", "closures"} => AvailFairness) /\ PushFairness

EffortSpec == EffortInit /\ [][EffortNext]_effortVars /\ EffortFairness

\* Every part keeps its types; two drivers never hold one device at a time.
EffortTypeOK == AvailTypeOK /\ PushTypeOK /\ RouteTypeOK /\ ShortestTypeOK
=============================================================================
