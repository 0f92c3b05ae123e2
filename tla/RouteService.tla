---------------------------- MODULE RouteService ----------------------------
(***************************************************************************)
(* Routes between two points: POST /routes/compute of the map service,     *)
(* which keeps the routes of OSRM in its database and registers their      *)
(* segments with the capacity service, and the cache of its answers in     *)
(* the journey service.                                                    *)
(*                                                                         *)
(* A trip is an origin and a destination, rounded to four decimals; a      *)
(* drive is one answer of OSRM.  Durations are in seconds.                 *)
(***************************************************************************)
EXTENDS Integers, SequencesExt

CONSTANTS
  RouteCall,   \* calls for a route
  Trip,        \* origins and destinations, the two of one place included
  SamePlace,   \* the trips from a place to itself
  CacheKeyOf,  \* the key of each trip, rounded to three decimals, in the journey cache
  Drive,       \* answers of OSRM
  Drives,      \* the drives OSRM may answer for a trip
  RoadSegment, \* ids of segments
  Steps,       \* the steps of each drive: [segment, seconds]
  Points,      \* how many points the geometry of each drive has
  MaxRouteFaults

ASSUME RouteServiceAssumption ==
  /\ Trip # {} /\ SamePlace \subseteq Trip
  /\ Drives \in [Trip -> SUBSET Drive]
  /\ \A d \in Drive : Steps[d] \in Seq([segment : RoadSegment, seconds : Nat])
  /\ Points \in [Drive -> Nat] /\ MaxRouteFaults \in Nat

VARIABLES
  routes,       \* map.routes and map.route_segments, by trip
  stretch,      \* map.intercity_segments: the drive whose coordinates a segment has
  registered,   \* the segments the capacity service knows
  routeCache,   \* the answers in the journey service's Redis, by key
  route,        \* the calls: [stage, trip, live, path, answer]
  unregistered, \* history: segments of which a registration failed
  routeFaults

routeDb == <<routes, stretch>>
routeVars == <<routeDb, registered, routeCache, route, unregistered, routeFaults>>

NoPath == "no path"
NoAnswerYet == [seconds |-> 0, path |-> NoPath, segments |-> <<>>]
NoRoute == [here |-> FALSE, answer |-> NoAnswerYet]
NoRouteCall == [stage |-> "idle", trip |-> CHOOSE t \in Trip : TRUE, drive |-> NoPath, answer |-> NoAnswerYet]

RouteFault == routeFaults < MaxRouteFaults /\ routeFaults' = routeFaults + 1
NoRouteFault == UNCHANGED routeFaults
SetRoute(c, s) == route' = [route EXCEPT ![c] = s]
At(c, stage) == route[c].stage = stage
Go(c, stage) == SetRoute(c, [route[c] EXCEPT !.stage = stage])

-----------------------------------------------------------------------------
(* From an answer of OSRM to the segments of a route. *)

\* Steps along one road become one.
Collapse(s, step) ==
  IF s # <<>> /\ Last(s).segment = step.segment
  THEN [s EXCEPT ![Len(s)].seconds = @ + step.seconds]
  ELSE Append(s, step)
CollapseSteps(d) ==
  LET upTo[i \in 0 .. Len(Steps[d])] ==
        IF i = 0 THEN <<>> ELSE Collapse(upTo[i - 1], Steps[d][i])
  IN upTo[Len(Steps[d])]

\* Rounded to the nearest minute, never less than one.
DurationSecondsToMinutes(n) == IF n < 90 THEN 1 ELSE (n + 30) \div 60

MapRouteStepsToSegments(d) ==
  [i \in DOMAIN CollapseSteps(d) |->
     [segment |-> CollapseSteps(d)[i].segment,
      minutes |-> DurationSecondsToMinutes(CollapseSteps(d)[i].seconds)]]

Seconds(d) == FoldLeft(LAMBDA n, step : n + step.seconds, 0, Steps[d])
PathOf(d) == IF Points[d] < 2 THEN NoPath ELSE d
SegmentIds(s) == {s[i].segment : i \in DOMAIN s}

-----------------------------------------------------------------------------

\* JourneyService.CreateJourney looks its cache up; an error is a miss.
CacheGet(c, t) ==
  LET entry == routeCache[CacheKeyOf[t]] IN
  /\ At(c, "idle")
  /\ \/ /\ entry.here /\ NoRouteFault
        /\ SetRoute(c, [NoRouteCall EXCEPT !.stage = "cached", !.trip = t, !.answer = entry.answer])
     \/ /\ IF entry.here THEN RouteFault ELSE NoRouteFault
        /\ SetRoute(c, [NoRouteCall EXCEPT !.stage = IF t \in SamePlace THEN "failed" ELSE "header",
                                           !.trip = t])
  /\ UNCHANGED <<routeDb, registered, routeCache, unregistered>>

\* loadCachedDynamicRoute is two statements and no transaction.
LoadHeader(c) ==
  LET row == routes[route[c].trip] IN
  /\ At(c, "header")
  /\ \/ /\ row.here /\ NoRouteFault
        /\ SetRoute(c, [route[c] EXCEPT !.stage = "segments",
                                        !.answer = [row.answer EXCEPT !.segments = <<>>]])
     \/ Go(c, "osrm") /\ IF row.here THEN RouteFault ELSE NoRouteFault
  /\ UNCHANGED <<routeDb, registered, routeCache, unregistered>>

LoadSegments(c) ==
  LET segments == routes[route[c].trip].answer.segments IN
  /\ At(c, "segments")
  /\ \/ /\ segments # <<>> /\ NoRouteFault
        /\ SetRoute(c, [route[c] EXCEPT !.stage = IF route[c].answer.path = NoPath
                                                  THEN "path" ELSE "register",
                                        !.answer.segments = segments])
     \/ /\ IF segments = <<>> THEN NoRouteFault ELSE RouteFault
        /\ SetRoute(c, [route[c] EXCEPT !.stage = "osrm", !.answer = NoAnswerYet])
  /\ UNCHANGED <<routeDb, registered, routeCache, unregistered>>

\* A cached route without a path asks OSRM for one.
ComputeLiveRoutePath(c) ==
  /\ At(c, "path")
  /\ \/ \E d \in Drives[route[c].trip] :
          /\ NoRouteFault
          /\ SetRoute(c, [route[c] EXCEPT !.stage = IF PathOf(d) = NoPath THEN "register" ELSE "store path",
                                          !.answer.path = PathOf(d)])
     \/ RouteFault /\ Go(c, "register")
  /\ UNCHANGED <<routeDb, registered, routeCache, unregistered>>

PersistCachedRoutePath(c) ==
  /\ At(c, "store path") /\ Go(c, "register")
  /\ \/ NoRouteFault /\ routes' = [routes EXCEPT ![route[c].trip].answer.path = route[c].answer.path]
     \/ RouteFault /\ UNCHANGED routes
  /\ UNCHANGED <<stretch, registered, routeCache, unregistered>>

\* GeoClient.GetRoute, the best of OSRM's routes.
GetRouteFromOsrm(c) ==
  /\ At(c, "osrm")
  /\ \/ \E d \in Drives[route[c].trip] :
          /\ NoRouteFault
          /\ IF Steps[d] = <<>> THEN Go(c, "failed")
             ELSE SetRoute(c, [route[c] EXCEPT
                    !.stage = "register", !.drive = d,
                    !.answer = [seconds |-> Seconds(d), path |-> PathOf(d),
                                segments |-> MapRouteStepsToSegments(d)]])
     \/ RouteFault /\ Go(c, "failed")
  /\ UNCHANGED <<routeDb, registered, routeCache, unregistered>>

\* ensureCapacitySegments; a failure is logged.  A stored route is then touched
\* and returned, one from OSRM is persisted.
EnsureCapacitySegments(c) ==
  LET ids == SegmentIds(route[c].answer.segments) IN
  /\ At(c, "register") /\ Go(c, IF route[c].drive = NoPath THEN "computed" ELSE "persist")
  /\ \/ NoRouteFault /\ registered' = registered \cup ids /\ UNCHANGED unregistered
     \/ RouteFault /\ unregistered' = unregistered \cup ids /\ UNCHANGED registered
  /\ UNCHANGED <<routeDb, routeCache>>

\* The rows of a route that is computed again take the place of the old ones.
\* Mutant: rows are overwritten one by one and none is deleted.
OverwriteSegments(old, new) == new \o SubSeq(old, Len(new) + 1, Len(old))
ReplaceSegments(old, new) == new

\* One serializable transaction; a failure is logged.
PersistDynamicRoute(c) ==
  LET t == route[c].trip
      new == route[c].answer IN
  /\ At(c, "persist") /\ Go(c, "computed")
  /\ \/ /\ NoRouteFault
        /\ routes' = [routes EXCEPT ![t] = [here |-> TRUE,
             answer |-> [new EXCEPT !.segments = ReplaceSegments(routes[t].answer.segments, new.segments)]]]
        /\ stretch' = [s \in DOMAIN stretch \cup SegmentIds(new.segments) |->
                         IF s \in SegmentIds(new.segments) THEN route[c].drive ELSE stretch[s]]
     \/ RouteFault /\ UNCHANGED routeDb
  /\ UNCHANGED <<registered, routeCache, unregistered>>

\* Back in the journey service, or the answer is lost on the way.
CacheSet(c) ==
  LET key == CacheKeyOf[route[c].trip] IN
  /\ At(c, "computed")
  /\ \/ NoRouteFault /\ Go(c, "served")
        /\ routeCache' = [routeCache EXCEPT ![key] = [here |-> TRUE, answer |-> route[c].answer]]
     \/ RouteFault /\ UNCHANGED routeCache /\ (Go(c, "served") \/ Go(c, "failed"))
  /\ UNCHANGED <<routeDb, registered, unregistered>>

RouteExpires(key) ==
  /\ routeCache[key].here /\ routeCache' = [routeCache EXCEPT ![key] = NoRoute]
  /\ UNCHANGED <<routeDb, registered, route, unregistered, routeFaults>>

EndRouteCall(c) ==
  /\ route[c].stage \in {"cached", "served", "failed"} /\ SetRoute(c, NoRouteCall)
  /\ UNCHANGED <<routeDb, registered, routeCache, unregistered, routeFaults>>

-----------------------------------------------------------------------------

RouteInit ==
  /\ routes = [t \in Trip |-> NoRoute] /\ stretch = <<>>
  /\ registered = {} /\ unregistered = {}
  /\ routeCache = [k \in {CacheKeyOf[t] : t \in Trip} |-> NoRoute]
  /\ route = [c \in RouteCall |-> NoRouteCall] /\ routeFaults = 0

RouteNext ==
  \/ \E c \in RouteCall :
       \/ \E t \in Trip : CacheGet(c, t)
       \/ LoadHeader(c) \/ LoadSegments(c) \/ ComputeLiveRoutePath(c)
       \/ PersistCachedRoutePath(c) \/ GetRouteFromOsrm(c) \/ EnsureCapacitySegments(c)
       \/ PersistDynamicRoute(c) \/ CacheSet(c) \/ EndRouteCall(c)
  \/ \E key \in DOMAIN routeCache : RouteExpires(key)

RouteSpec == RouteInit /\ [][RouteNext]_routeVars

-----------------------------------------------------------------------------

RouteTypeOK ==
  /\ \A t \in Trip : routes[t].here => routes[t].answer.segments # <<>>
  /\ DOMAIN stretch \subseteq UNION {SegmentIds(Steps[d]) : d \in Drive}
  /\ registered \cup unregistered \subseteq UNION {SegmentIds(Steps[d]) : d \in Drive}
  /\ \A c \in RouteCall :
       /\ route[c].trip \in Trip /\ route[c].drive \in Drive \cup {NoPath}
       /\ route[c].answer.path \in Drive \cup {NoPath}
  /\ routeFaults \in 0 .. MaxRouteFaults

\* The seconds gone by at the end of each step.
Elapsed(d) ==
  LET at[i \in 0 .. Len(Steps[d])] == IF i = 0 THEN 0 ELSE at[i - 1] + Steps[d][i].seconds
  IN at

\* n seconds are m minutes, to the nearest, or less than one.
InMinutes(m, n) == m >= 1 /\ (m > 1 => 60 * m - 30 <= n) /\ n < 60 * m + 30

\* The reference: the steps of a drive fall into stretches, a segment each; the
\* road changes from one to the next, and nothing is left out.
AreStretches(segments, d) ==
  \E ends \in [DOMAIN segments -> 1 .. Len(Steps[d])] :
    LET Start(k) == IF k = 1 THEN 0 ELSE ends[k - 1] IN
    /\ ends[Len(segments)] = Len(Steps[d])
    /\ \A k \in DOMAIN segments :
         /\ Start(k) < ends[k]
         /\ \A i \in Start(k) + 1 .. ends[k] : Steps[d][i].segment = segments[k].segment
         /\ k > 1 => segments[k].segment # segments[k - 1].segment
         /\ InMinutes(segments[k].minutes, Elapsed(d)[ends[k]] - Elapsed(d)[Start(k)])

\* Whatever is recomputed, cached twice or persisted in between, the segments a
\* journey is booked over are all the roads of one drive for its trip (or for
\* a trip with the same cache key), in order and with their full time, and the
\* capacity service knows them unless registering them failed
\* (computeDynamicRoute, RedisRouteCache).
RouteIsWhole ==
  \A c \in RouteCall : route[c].stage \in {"served", "cached"} =>
    LET segments == route[c].answer.segments IN
    /\ segments # <<>>
    /\ \E t \in Trip : /\ CacheKeyOf[t] = CacheKeyOf[route[c].trip]
                       /\ \E d \in Drives[t] : AreStretches(segments, d)
    /\ SegmentIds(segments) \subseteq registered \cup unregistered
=============================================================================
