---------------------------- MODULE AtomicBooking ----------------------------
(***************************************************************************)
(* What a reserve promises its caller: a call is granted all of its rows   *)
(* at once or none, at most once for an idempotency key until the key is   *)
(* forgotten, and only if the slots it takes then fit, at every instant of *)
(* its windows, under the limit its priority may use.  Rows are given back *)
(* in any order, and limits may change at any time.                        *)
(***************************************************************************)
EXTENDS Slots

VARIABLES
  limit,  \* the capacity of each segment
  held,   \* the rows now granted
  used    \* the keys a grant was made for

bookingVars == <<limit, held, used>>

Fits(R, r) ==
  LET it == ItemOf(r) IN
  \A t \in it.start..(it.end - 1) :
    SlotSum(Occupying(R, it.seg, t)) <= EffectiveCapacity(limit[it.seg], PriorityOf(r))

Grant(c) ==
  /\ KeyOf(c) \notin used
  /\ held' = held \cup RowsOf(c)
  /\ used' = used \cup {KeyOf(c)}
  /\ \A r \in RowsOf(c) : Fits(held', r)
  /\ UNCHANGED limit

Drop ==
  /\ held' \subseteq held
  /\ UNCHANGED <<limit, used>>

Forget ==
  /\ used' \subseteq used
  /\ UNCHANGED <<limit, held>>

Relimit ==
  /\ limit' \in [Segment -> Nat]
  /\ UNCHANGED <<held, used>>

BookingInit ==
  /\ limit \in [Segment -> Nat]
  /\ held = {}
  /\ used = {}

BookingNext ==
  \/ \E c \in Call : Grant(c)
  \/ Drop \/ Forget \/ Relimit

BookingSpec == BookingInit /\ [][BookingNext]_bookingVars

=============================================================================
