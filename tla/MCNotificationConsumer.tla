----------------------- MODULE MCNotificationConsumer -----------------------
(***************************************************************************)
(* Two workers that read and one that reclaims.                            *)
(***************************************************************************)
EXTENDS NotificationConsumer

CONSTANTS w1, w2, w3, j1

OneJourney == [e \in Event |-> j1]

=============================================================================
