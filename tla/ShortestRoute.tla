---------------------------- MODULE ShortestRoute ----------------------------
(***************************************************************************)
(* The city graph of the map service: loaded from the database when the    *)
(* process starts, or the built-in one if that fails, and the fastest      *)
(* route between two of its nodes.                                         *)
(*                                                                         *)
(* A road is one row of map.segments and runs both ways.  Go ranges over a *)
(* map in any order, so of two nodes at the same distance either is next.  *)
(***************************************************************************)
EXTENDS Integers, Sequences, FiniteSets

CONSTANTS
  MapNode,     \* the nodes
  Road,        \* roads
  Ends,        \* the two nodes of each road
  Minutes,     \* traversal times
  BuiltIn      \* the hardcoded roads and their times

\* A time for some of the roads.
Graphs == UNION {[R -> Minutes] : R \in SUBSET Road}

ASSUME ShortestRouteAssumption ==
  /\ Ends \in [Road -> MapNode \X MapNode]
  /\ Minutes \subseteq Nat /\ BuiltIn \in Graphs
  /\ IsFiniteSet(MapNode)

VARIABLES
  rows,        \* the rows of map.segments
  graph,       \* the graph of the store
  search,      \* [stage, origin, destination, total]
  distances,   \* -1 where no route is known
  visited,
  previous,    \* the edge by which each node was reached
  pathEdges    \* the route, from the end

graphVars == <<rows, graph>>
shortestVars == <<graphVars, search, distances, visited, previous, pathEdges>>

EdgesOf(g) ==
  UNION {{[road |-> r, from |-> Ends[r][1], to |-> Ends[r][2], minutes |-> g[r]],
          [road |-> r, from |-> Ends[r][2], to |-> Ends[r][1], minutes |-> g[r]]} : r \in DOMAIN g}
NoEdge == [road |-> "none"]
NoSearch == [stage |-> "idle", origin |-> CHOOSE n \in MapNode : TRUE,
             destination |-> CHOOSE n \in MapNode : TRUE, total |-> -1]
SetStage(s) == search' = [search EXCEPT !.stage = s]

-----------------------------------------------------------------------------

\* An error, a table without rows.
LoadFromDB ==
  /\ search.stage = "start" /\ SetStage("idle")
  /\ rows # <<>> /\ graph' = rows
  /\ UNCHANGED <<rows, distances, visited, previous, pathEdges>>

UseFallback ==
  /\ search.stage = "start" /\ SetStage("idle")
  /\ graph' = BuiltIn
  /\ UNCHANGED <<rows, distances, visited, previous, pathEdges>>

\* GetRoute refuses equal nodes; calculateShortestRoute sets its maps up.
GetRoute(o, d) ==
  /\ search.stage = "idle" /\ o # d
  /\ search' = [stage |-> "search", origin |-> o, destination |-> d, total |-> -1]
  /\ distances' = [n \in MapNode |-> IF n = o THEN 0 ELSE -1]
  /\ visited' = {} /\ previous' = [n \in MapNode |-> NoEdge] /\ pathEdges' = <<>>
  /\ UNCHANGED graphVars

\* Mutant: the first node that is not visited, near or far.
AnyUnvisited == {n \in MapNode \ visited : distances[n] # -1}
ClosestUnvisited ==
  LET open == {n \in MapNode \ visited : distances[n] # -1} IN
  {n \in open : \A m \in open : distances[n] <= distances[m]}

OutgoingEdges(n) == {e \in EdgesOf(graph) : e.from = n}

\* The edges from n are tried in the order of the rows; between the same two
\* nodes a shorter one replaces the one before.
Relax(n) ==
  LET Shorter(m) == {e \in OutgoingEdges(n) :
                       e.to = m /\ (distances[m] = -1 \/ distances[n] + e.minutes < distances[m])}
      Best(m) == CHOOSE e \in Shorter(m) : \A f \in Shorter(m) : e.minutes <= f.minutes IN
  /\ distances' = [m \in MapNode |-> IF Shorter(m) = {} THEN distances[m]
                                     ELSE distances[n] + Best(m).minutes]
  /\ previous' = [m \in MapNode |-> IF Shorter(m) = {} THEN previous[m] ELSE Best(m)]

\* One round of the search.
Visit(n) ==
  /\ search.stage = "search" /\ n \in ClosestUnvisited /\ n # search.destination
  /\ visited' = visited \cup {n} /\ Relax(n)
  /\ UNCHANGED <<graphVars, search, pathEdges>>

\* The destination is next, or nothing is left.
EndSearch ==
  /\ search.stage = "search"
  /\ ClosestUnvisited = {} \/ search.destination \in ClosestUnvisited
  /\ LET total == distances[search.destination] IN
     search' = [search EXCEPT !.stage = IF total = -1 THEN "not found" ELSE "walk", !.total = total]
  /\ UNCHANGED <<graphVars, distances, visited, previous, pathEdges>>

WalkBack ==
  LET at == IF pathEdges = <<>> THEN search.destination ELSE Head(pathEdges).from IN
  /\ search.stage = "walk"
  /\ IF at = search.origin THEN SetStage("found") /\ UNCHANGED pathEdges
     ELSE IF previous[at] = NoEdge THEN SetStage("not found") /\ UNCHANGED pathEdges
     ELSE pathEdges' = <<previous[at]>> \o pathEdges /\ UNCHANGED search
  /\ UNCHANGED <<graphVars, distances, visited, previous>>

-----------------------------------------------------------------------------

ShortestInit ==
  /\ rows \in Graphs /\ graph = <<>> /\ search = [NoSearch EXCEPT !.stage = "start"]
  /\ distances = [n \in MapNode |-> -1] /\ visited = {}
  /\ previous = [n \in MapNode |-> NoEdge] /\ pathEdges = <<>>

ShortestNext ==
  \/ LoadFromDB \/ UseFallback
  \/ \E o, d \in MapNode : GetRoute(o, d)
  \/ \E n \in MapNode : Visit(n)
  \/ EndSearch \/ WalkBack

ShortestSpec == ShortestInit /\ [][ShortestNext]_shortestVars

-----------------------------------------------------------------------------

ShortestTypeOK ==
  /\ rows \in Graphs /\ graph \in Graphs
  /\ search.stage \in {"start", "idle", "search", "walk", "found", "not found"}
  /\ distances \in [MapNode -> Int] /\ visited \subseteq MapNode
  /\ previous \in [MapNode -> EdgesOf(graph) \cup {NoEdge}]
  /\ pathEdges \in Seq(EdgesOf(graph))

\* The reference: where one can be, and after how many minutes, when k roads
\* at most have been taken from o.
Reached(o) ==
  LET within[k \in Nat] ==
        IF k = 0 THEN {<<o, 0>>}
        ELSE within[k - 1] \cup
             UNION {{<<e.to, a[2] + e.minutes>> : e \in {x \in EdgesOf(graph) : x.from = a[1]}}
                      : a \in within[k - 1]}
  IN within

\* The minutes gone by at the end of each road of a chain.
Clock(p) ==
  LET at[i \in 0 .. Len(p)] == IF i = 0 THEN 0 ELSE at[i - 1] + p[i].minutes
  IN at

\* The answer of GET /map/route is a chain of roads from origin to destination
\* that adds up to the total, no other way is faster, and there is none when
\* the answer is "route not found" (calculateShortestRoute).
RouteIsShortest ==
  LET ways == Reached(search.origin)[Cardinality(MapNode)]
      p == pathEdges IN
  /\ search.stage = "found" =>
       /\ p # <<>> /\ p[1].from = search.origin /\ p[Len(p)].to = search.destination
       /\ \A i \in 1 .. Len(p) - 1 : p[i].to = p[i + 1].from
       /\ Clock(p)[Len(p)] = search.total
       /\ \A a \in ways : a[1] = search.destination => search.total <= a[2]
  /\ search.stage = "not found" => \A a \in ways : a[1] # search.destination
=============================================================================
