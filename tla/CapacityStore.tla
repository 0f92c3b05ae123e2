---------------------------- MODULE CapacityStore ----------------------------
(***************************************************************************)
(* The capacity service's database: segments, reservation rows, closures   *)
(* and the idempotency cache, with the operations other than Reserve that  *)
(* change it (admin updates, release events, the cleanup job, expiry).     *)
(***************************************************************************)
EXTENDS Slots

CONSTANTS
  NoCall,           \* the reservation id of an answer that has none
  InitCapacity,     \* max_capacity at the start, 0 for an unregistered segment
  CapacityValues,   \* the capacities an admin may set (a bound)
  ClosureDurations, \* the durations of closures an admin may create (a bound)
  OrphanThreshold,  \* how long after its window a row becomes an orphan
  Horizon           \* the last instant of the clock (a bound)

ASSUME StoreAssumption ==
  /\ NoCall \notin Call
  /\ OrphanThreshold \in Nat /\ Horizon \in Nat
  /\ InitCapacity \in [Segment -> Nat]
  /\ CapacityValues \subseteq Nat \ {0}
  /\ ClosureDurations \subseteq Nat \ {0}

VARIABLES
  capacity,         \* max_capacity of each segment, 0 while unregistered
  defaultCapacity,  \* settings.default_segment_max_capacity
  closures,         \* the active closures of each segment
  active,           \* the rows whose status is 'active'
  released,         \* the rows whose status is 'released'
  idem,             \* idempotency_cache by key
  now,              \* the clock
  peak,             \* history: the highest capacity each segment ever had
  purged            \* history: the keys whose entry was ever deleted

ledger == <<active, released>>
network == <<capacity, defaultCapacity, closures, peak>>
cache == <<idem, purged>>
storeVars == <<network, ledger, cache, now>>

-----------------------------------------------------------------------------
\* The capacity check.

ActiveOverlapping(s, w) ==
  {r \in active : ItemOf(r).seg = s /\ Overlap(ItemOf(r), w)}

\* Mutant: any free slot will do, however heavy the vehicle.
AdmitsIfAnyFree(r) ==
  LET it == ItemOf(r) IN
  /\ it.start < it.end
  /\ capacity[it.seg] > 0
  /\ EffectiveCapacity(capacity[it.seg], PriorityOf(r))
       - SlotSum(ActiveOverlapping(it.seg, it)) > 0

\* Mutant: the emergency buffer is open to everyone.
AdmitsIntoBuffer(r) ==
  LET it == ItemOf(r) IN
  /\ it.start < it.end
  /\ capacity[it.seg] - SlotSum(ActiveOverlapping(it.seg, it)) >= SlotsOf(r)

\* The checks both reserve transactions make for one row, in their order:
\* invalid_time_window, unknown_segment, segment_closed, at_capacity.
Admits(r) ==
  LET it == ItemOf(r) IN
  /\ it.start < it.end
  /\ capacity[it.seg] > 0
  /\ \A w \in closures[it.seg] : ~Overlap(w, it)
  /\ EffectiveCapacity(capacity[it.seg], PriorityOf(r))
       - SlotSum(ActiveOverlapping(it.seg, it)) >= SlotsOf(r)

\* Mutant: only the first row of the request gets stored.
InsertFirst(R) ==
  /\ active' = active \cup {r \in R : r.item = 1}
  /\ UNCHANGED released

Insert(R) ==
  /\ active' = active \cup R
  /\ UNCHANGED released

Release(R) ==
  /\ active' = active \ R
  /\ released' = released \cup (active \cap R)

-----------------------------------------------------------------------------
\* The idempotency cache.

NoEntry == [status |-> "absent", rsv |-> NoCall, fresh |-> FALSE]
Entry(status, rsv) == [status |-> status, rsv |-> rsv, fresh |-> TRUE]

\* GetByKey finds an entry only while expires_at > NOW().
Hit(k) == idem[k].fresh

\* replayFromCache
Replay(k) == [status |-> idem[k].status, rsv |-> idem[k].rsv]

InsertOnConflictIgnore(k, e) ==
  /\ idem' = IF idem[k].status = "absent" THEN [idem EXCEPT ![k] = e] ELSE idem
  /\ UNCHANGED purged

-----------------------------------------------------------------------------
\* The operations on the database that are not part of Reserve.

\* An event of journey j, cancelled, completed or expired, is consumed.
ReleaseByJourneyID(j) ==
  /\ \E r \in active : JourneyOf(r) = j
  /\ Release({r \in active : JourneyOf(r) = j})
  /\ UNCHANGED <<network, cache, now>>

\* Mutant: the comparison of the query is the wrong way round.
OrphansSwapped == {r \in active : now - OrphanThreshold < ItemOf(r).end}

\* The cleanup job's query; it looks at windows, not at journeys.
Orphans == {r \in active : ItemOf(r).end < now - OrphanThreshold}

ReleaseOrphans ==
  /\ Orphans # {}
  /\ Release(Orphans)
  /\ UNCHANGED <<network, cache, now>>

\* A closure starts now; the reservations it overlaps are left as they are.
CreateClosure(s, d) ==
  LET w == [start |-> now, end |-> now + d] IN
  /\ capacity[s] > 0
  /\ \A v \in closures[s] : ~Overlap(v, w)
  /\ closures' = [closures EXCEPT ![s] = @ \cup {w}]
  /\ UNCHANGED <<capacity, defaultCapacity, peak, ledger, cache, now>>

\* Every UPDATE or INSERT of max_capacity; the history variable follows it.
SetCapacities(cap) ==
  /\ capacity' = cap
  /\ peak' = [s \in Segment |-> IF cap[s] > peak[s] THEN cap[s] ELSE peak[s]]
  /\ UNCHANGED <<closures, ledger, cache, now>>

\* The new capacity may be below what is already reserved.
UpdateSegmentCapacity(s, v) ==
  /\ capacity[s] > 0
  /\ SetCapacities([capacity EXCEPT ![s] = v])
  /\ UNCHANGED defaultCapacity

UpdateDefaultSegmentCapacity(v) ==
  /\ defaultCapacity' = v
  /\ UNCHANGED <<capacity, closures, peak, ledger, cache, now>>

\* One transaction; ON CONFLICT DO NOTHING leaves a registered segment alone.
RegisterSegments(S) ==
  /\ \E s \in S : capacity[s] = 0
  /\ SetCapacities([s \in Segment |->
       IF s \in S /\ capacity[s] = 0 THEN defaultCapacity ELSE capacity[s]])
  /\ UNCHANGED defaultCapacity

\* A day passes: readers no longer see the entry, the primary key still does.
\* The modules that know the calls in flight say when this may happen.
ExpireEntry(k) ==
  /\ Hit(k)
  /\ idem' = [idem EXCEPT ![k].fresh = FALSE]
  /\ UNCHANGED <<purged, network, ledger, now>>

\* The hourly job deletes every expired entry.
Expired == {k \in Key : idem[k].status # "absent" /\ ~idem[k].fresh}

PurgeExpired ==
  /\ Expired # {}
  /\ idem' = [k \in Key |-> IF k \in Expired THEN NoEntry ELSE idem[k]]
  /\ purged' = purged \cup Expired
  /\ UNCHANGED <<network, ledger, now>>

Tick ==
  /\ now < Horizon
  /\ now' = now + 1
  /\ UNCHANGED <<network, ledger, cache>>

StoreInit ==
  /\ capacity = InitCapacity
  /\ peak = InitCapacity
  /\ defaultCapacity \in CapacityValues
  /\ closures = [s \in Segment |-> {}]
  /\ active = {} /\ released = {}
  /\ idem = [k \in Key |-> NoEntry]
  /\ purged = {}
  /\ now = 0

\* What happens to the database whatever the calls in flight do.
StoreNext ==
  \/ ReleaseOrphans
  \/ \E s \in Segment, d \in ClosureDurations : CreateClosure(s, d)
  \/ \E s \in Segment, v \in CapacityValues : UpdateSegmentCapacity(s, v)
  \/ \E v \in CapacityValues : UpdateDefaultSegmentCapacity(v)
  \/ \E S \in SUBSET Segment : RegisterSegments(S)
  \/ PurgeExpired
  \/ Tick

-----------------------------------------------------------------------------
StoreTypeOK ==
  /\ capacity \in [Segment -> Nat]
  /\ peak \in [Segment -> Nat]
  /\ defaultCapacity \in CapacityValues
  /\ closures \in [Segment -> SUBSET [start: Int, end: Int]]
  /\ active \in SUBSET Row
  /\ released \in SUBSET Row
  /\ idem \in [Key -> [status: {"absent", "reserved", "failed"},
                       rsv: Call \cup {NoCall}, fresh: BOOLEAN]]
  /\ purged \in SUBSET Key
  /\ now \in Nat

\* The slots the rows of R take from segment s at instant t.
Load(R, s, t) == SlotSum(Occupying(R, s, t))

\* A row whose reservation was answered: it was inserted, whatever became of it.
Stored == active \cup released

=============================================================================
