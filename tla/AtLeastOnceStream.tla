-------------------------- MODULE AtLeastOnceStream --------------------------
(***************************************************************************)
(* What consumers of journey.events may rely on: an event reaches the      *)
(* stream only after it was committed and after every earlier event of its *)
(* journey; it may be there several times.  Events are numbered in the     *)
(* order of their creation; those of different journeys may be committed   *)
(* out of that order.                                                      *)
(***************************************************************************)
EXTENDS Naturals, Sequences, SequencesExt

CONSTANTS
  Event,      \* a finite set of numbers
  JourneyOf   \* the journey of each event

ASSUME EventAssumption == Event \subseteq Nat

VARIABLES
  outbox,  \* the events committed so far
  stream   \* the Redis stream journey.events

streamVars == <<outbox, stream>>

Streamed == ToSet(stream)
EarlierOf(e) == {d \in Event : JourneyOf[d] = JourneyOf[e] /\ d < e}

\* A journey changes its status only after its last change was committed.
Enqueue(e) ==
  /\ e \notin outbox /\ EarlierOf(e) \subseteq outbox
  /\ outbox' = outbox \cup {e}
  /\ UNCHANGED stream

Publish(e) ==
  /\ e \in outbox /\ EarlierOf(e) \subseteq Streamed
  /\ stream' = Append(stream, e)
  /\ UNCHANGED outbox

StreamInit == outbox = {} /\ stream = <<>>

StreamNext == \E e \in Event : Enqueue(e) \/ Publish(e)

StreamSpec == StreamInit /\ [][StreamNext]_streamVars

=============================================================================
