---------------------------- MODULE MCOutboxRelay ----------------------------
(***************************************************************************)
(* Two relays and three events: 1 and 3 of one journey, 2 of another.      *)
(***************************************************************************)
EXTENDS OutboxRelay

CONSTANTS r1, r2, j1, j2

TwoJourneys == [e \in Event |-> IF e = 2 THEN j2 ELSE j1]

=============================================================================
