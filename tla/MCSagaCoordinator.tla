-------------------------- MODULE MCSagaCoordinator --------------------------
(***************************************************************************)
(* Small instances of SagaCoordinator: c1 and its retry c2 cross from      *)
(* segment s1 (region 1) to s2 (region 2); c3 competes for s2 only, on the *)
(* single region path.                                                     *)
(***************************************************************************)
EXTENDS SagaCoordinator, TLC

CONSTANTS c1, c2, c3, s1, s2, k1, k2, j1, j2, j3

Trip(s, a, b) == [seg |-> s, start |-> a, end |-> b]
Ask(k, j, p, n, is) ==
  [key |-> k, journey |-> j, priority |-> p, slots |-> n, items |-> is]

CrossingAndRival ==
  (c1 :> Ask(k1, j1, "normal", 2, <<Trip(s1, 0, 1), Trip(s2, 0, 2)>>) @@
   c2 :> Ask(k1, j2, "normal", 2, <<Trip(s1, 0, 1), Trip(s2, 0, 2)>>) @@
   c3 :> Ask(k2, j3, "max", 2, <<Trip(s2, 1, 2)>>))

\* The two crossing calls alone.
CrossingAndRetry == [c \in Call |-> CrossingAndRival[c]]

OneCar == [s \in Segment |-> 2]
TwoRegions == [s \in Segment |-> IF s = s1 THEN 1 ELSE 2]

=============================================================================
