-------------------------- MODULE MCJourneyBooking --------------------------
(***************************************************************************)
(* Small instances of JourneyBooking: an attempt and its retry with the    *)
(* same key.                                                               *)
(***************************************************************************)
EXTENDS JourneyBooking

CONSTANTS a1, a2, k1, d1

OneKey == [a \in Attempt |-> k1]
OneDriver == [a \in Attempt |-> d1]

=============================================================================
