----------------------------- MODULE MCReserveTx -----------------------------
(***************************************************************************)
(* Small instances of ReserveTx.  Slots are halves: a car takes 2, a truck *)
(* 6, a capacity of 4 is two cars, the emergency buffer of one slot is 2.  *)
(***************************************************************************)
EXTENDS ReserveTx, TLC

CONSTANTS c1, c2, c3, s1, s2, k1, k2, k3, j1, j2, j3

Trip(s, a, b) == [seg |-> s, start |-> a, end |-> b]
Ask(k, j, p, n, is) ==
  [key |-> k, journey |-> j, priority |-> p, slots |-> n, items |-> is]

\* A first attempt, its retry under a journey id of its own, and another driver who wants the same segment.
RetryAndRival ==
  (c1 :> Ask(k1, j1, "normal", 2, <<Trip(s1, 0, 2), Trip(s2, 1, 3)>>) @@
   c2 :> Ask(k1, j2, "normal", 2, <<Trip(s1, 0, 2), Trip(s2, 1, 3)>>) @@
   c3 :> Ask(k2, j3, "normal", 2, <<Trip(s1, 1, 3)>>))

\* A car and a motorcycle with normal priority and an emergency car.
EmergencyMix ==
  (c1 :> Ask(k1, j1, "normal", 2, <<Trip(s1, 0, 1)>>) @@
   c2 :> Ask(k2, j2, "normal", 1, <<Trip(s1, 0, 2)>>) @@
   c3 :> Ask(k3, j3, "max", 2, <<Trip(s1, 0, 2), Trip(s2, 0, 1)>>))

\* A route that leaves a road and comes back to it within the window padding.
Loop ==
  (c1 :> Ask(k1, j1, "normal", 2, <<Trip(s1, 0, 2), Trip(s2, 1, 2), Trip(s1, 1, 3)>>) @@
   c2 :> Ask(k2, j2, "normal", 2, <<Trip(s1, 0, 2)>>) @@
   c3 :> Ask(k2, j3, "normal", 2, <<Trip(s1, 0, 2)>>))

TwoCars == [s \in Segment |-> 4]
OneUnregistered == [s \in Segment |-> IF s = s2 THEN 0 ELSE 4]

=============================================================================
