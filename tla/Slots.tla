-------------------------------- MODULE Slots --------------------------------
(***************************************************************************)
(* Reserve requests, the reservation rows they ask for, and slot counting. *)
(*                                                                         *)
(* A reservation row is named by the reserve call that inserted it and its *)
(* position in that call's list, so the columns of a row are those of the  *)
(* call's request, and the id generated for the call's reservation is the  *)
(* call itself.  A window is a half-open interval of the integers; slots   *)
(* are counted in halves (motorcycle 1, car 2, van 3, truck 6).            *)
(***************************************************************************)
EXTENDS Integers, FiniteSets, Sequences

CONSTANTS
  Segment,   \* road segments, registered or not
  Key,       \* idempotency keys
  Journey,   \* journey ids
  Call,      \* reserve calls: each first attempt and each retry is one
  Request,   \* the body of each call
  MaxSlots,  \* the weight of the heaviest vehicle, in half slots
  Buffer     \* emergencyCapacityBufferSlot, in half slots

Item == [seg: Segment, start: Int, end: Int]

ASSUME SlotsAssumption ==
  /\ IsFiniteSet(Call)
  /\ MaxSlots \in Nat /\ Buffer \in Nat
  /\ Request \in [Call -> [key: Key, journey: Journey,
                           priority: {"normal", "max"},
                           slots: 1..MaxSlots, items: Seq(Item)]]

KeyOf(c) == Request[c].key
RowsOf(c) == [call: {c}, item: DOMAIN Request[c].items]
Row == UNION {RowsOf(c) : c \in Call}

ItemOf(r) == Request[r.call].items[r.item]
SlotsOf(r) == Request[r.call].slots
PriorityOf(r) == Request[r.call].priority
JourneyOf(r) == Request[r.call].journey

\* Mutant: a window that began before w is missed.
StartsWithin(v, w) == v.start >= w.start /\ v.start < w.end

Overlap(v, w) == v.start < w.end /\ v.end > w.start

\* SUM(slots_used) over a set of rows: the number of (row, half slot) pairs.
Units(R) == {u \in R \X (1..MaxSlots) : u[2] <= SlotsOf(u[1])}
SlotSum(R) == Cardinality(Units(R))

\* Normal requests may not take the last Buffer half slots of a segment.
EffectiveCapacity(cap, priority) ==
  IF priority = "max" THEN cap
  ELSE IF Buffer > cap THEN 0 ELSE cap - Buffer

\* The rows of R on segment s whose window contains instant t.
Occupying(R, s, t) ==
  {r \in R : ItemOf(r).seg = s /\ ItemOf(r).start <= t /\ t < ItemOf(r).end}

\* The load of a segment only ever rises at the start of a window.
Instants == {ItemOf(r).start : r \in Row}

\* No request books one segment twice for overlapping windows.
DisjointItems ==
  \A c \in Call : \A r, q \in RowsOf(c) :
    r # q /\ ItemOf(r).seg = ItemOf(q).seg => ~Overlap(ItemOf(r), ItemOf(q))

=============================================================================
