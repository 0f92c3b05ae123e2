--------------------------- MODULE Capacity_proofs ---------------------------
(***************************************************************************)
(* Theorems about the single region path, for any number of calls, keys,   *)
(* journeys and segments, any requests, capacities, buffer and faults.     *)
(*                                                                         *)
(* First facts about slot sums: sums of finite sets of rows are natural    *)
(* numbers, grow with the set, and grow by no more than the weight of a    *)
(* row that is added.                                                      *)
(*                                                                         *)
(* Type correctness is proved action by action.  The safety theorems and   *)
(* the refinement rest on one lemma, StepEffects: a step either commits a  *)
(* call or is Quiet, that is, inserts no rows.                             *)
(*                                                                         *)
(* No segment is over-subscribed and normal traffic leaves the emergency   *)
(* buffer, provided that no request books a segment twice for overlapping  *)
(* windows; and, on the same condition, the single region path implements  *)
(* AtomicBooking.  The condition is needed: the transaction checks all its *)
(* rows before it inserts any (MCReserveTx, reserve_loop.cfg).             *)
(***************************************************************************)
EXTENDS ReserveTx, FiniteSetTheorems, TLAPS

-----------------------------------------------------------------------------
(* Slot sums. *)

\* What the table of requests says of one row.
LEMMA RowType ==
  ASSUME NEW r \in Row
  PROVE  /\ r.call \in Call
         /\ r \in RowsOf(r.call)
         /\ ItemOf(r) \in Item
         /\ SlotsOf(r) \in 1..MaxSlots
         /\ PriorityOf(r) \in {"normal", "max"}
PROOF
<1>1. PICK c \in Call : r \in RowsOf(c)
  BY DEF Row
<1>2. r.call = c /\ r.item \in DOMAIN Request[c].items
  BY <1>1 DEF RowsOf
<1>3. Request[c] \in [key: Key, journey: Journey, priority: {"normal", "max"},
                      slots: 1..MaxSlots, items: Seq(Item)]
  BY SlotsAssumption
<1>4. Request[c].items[r.item] \in Item
  BY <1>2, <1>3
<1> QED
  BY <1>1, <1>2, <1>3, <1>4 DEF ItemOf, SlotsOf, PriorityOf

\* A request has finitely many rows.
LEMMA RowsOfFinite ==
  ASSUME NEW c \in Call
  PROVE  IsFiniteSet(RowsOf(c))
PROOF
<1> DEFINE n == Len(Request[c].items)
           f == [i \in 1..n |-> [call |-> c, item |-> i]]
<1>1. Request[c].items \in Seq(Item)
  BY SlotsAssumption
<1>2. n \in Nat /\ DOMAIN Request[c].items = 1..n
  BY <1>1
<1>3. \A i \in 1..n : f[i] \in RowsOf(c)
  BY <1>2 DEF RowsOf
<1>4. f \in Surjection(1..n, RowsOf(c))
  <2>1. f \in [1..n -> RowsOf(c)]
    BY <1>3
  <2>2. ASSUME NEW r \in RowsOf(c)
        PROVE  r.item \in 1..n /\ f[r.item] = r
    BY <1>2 DEF RowsOf
  <2> QED
    BY <2>1, <2>2 DEF Surjection
<1>5. IsFiniteSet(1..n)
  BY <1>2, FS_Interval
<1> QED
  BY <1>4, <1>5, FS_Surjection

\* So have all requests together.
LEMMA RowFinite ==
  ASSUME NEW R \in SUBSET Row
  PROVE  IsFiniteSet(R)
PROOF
<1> DEFINE T == {RowsOf(c) : c \in Call}
           f == [c \in Call |-> RowsOf(c)]
<1>1. f \in Surjection(Call, T)
  BY DEF Surjection
<1>2. IsFiniteSet(T)
  BY <1>1, SlotsAssumption, FS_Surjection
<1>3. \A S \in T : IsFiniteSet(S)
  BY RowsOfFinite
<1>4. IsFiniteSet(Row)
  BY <1>2, <1>3, FS_UNION DEF Row
<1> QED
  BY <1>4, FS_Subset

\* Slot sums are natural numbers.
LEMMA SlotSumType ==
  ASSUME NEW R \in SUBSET Row
  PROVE  IsFiniteSet(Units(R)) /\ SlotSum(R) \in Nat
PROOF
<1>0. IsFiniteSet(1..MaxSlots)
  BY SlotsAssumption, FS_Interval
<1>1. IsFiniteSet(R \X (1..MaxSlots))
  BY <1>0, RowFinite, FS_Product
<1>2. IsFiniteSet(Units(R))
  BY <1>1, FS_Subset DEF Units
<1> QED
  BY <1>2, FS_CardinalityType DEF SlotSum

\* A smaller set of rows takes no more slots.
LEMMA SlotSumMonotone ==
  ASSUME NEW Q \in SUBSET Row, NEW R \in SUBSET Q
  PROVE  SlotSum(R) <= SlotSum(Q)
PROOF
<1>1. Units(R) \subseteq Units(Q)
  BY DEF Units
<1> QED
  BY <1>1, SlotSumType, FS_Subset DEF SlotSum

\* A row adds at most its weight.
LEMMA SlotSumAdd ==
  ASSUME NEW R \in SUBSET Row, NEW q \in Row
  PROVE  SlotSum(R \cup {q}) <= SlotSum(R) + SlotsOf(q)
PROOF
<1> DEFINE W == {q} \X (1..SlotsOf(q))
<1>1. SlotsOf(q) \in 1..MaxSlots /\ MaxSlots \in Nat
  BY RowType, SlotsAssumption
<1>2. IsFiniteSet({q}) /\ Cardinality({q}) = 1
  BY FS_Singleton
<1>3. IsFiniteSet(1..SlotsOf(q)) /\ Cardinality(1..SlotsOf(q)) = SlotsOf(q)
  BY <1>1, FS_Interval
<1>4. IsFiniteSet(W) /\ Cardinality(W) = SlotsOf(q)
  <2>1. IsFiniteSet(W) /\ Cardinality(W) = Cardinality({q}) * Cardinality(1..SlotsOf(q))
    BY <1>2, <1>3, FS_Product
  <2> QED
    BY <1>1, <1>2, <1>3, <2>1
<1>5. Units(R \cup {q}) \subseteq Units(R) \cup W
  BY <1>1 DEF Units
<1>6. IsFiniteSet(Units(R)) /\ SlotSum(R) \in Nat
  BY SlotSumType
<1>7. /\ IsFiniteSet(Units(R) \cup W)
      /\ Cardinality(Units(R) \cup W) <= SlotSum(R) + SlotsOf(q)
  <2>1. /\ IsFiniteSet(Units(R) \cup W)
        /\ Cardinality(Units(R) \cup W) = Cardinality(Units(R)) + Cardinality(W)
                                            - Cardinality(Units(R) \cap W)
    BY <1>4, <1>6, FS_Union
  <2>2. Cardinality(Units(R) \cap W) \in Nat
    BY <1>6, FS_Intersection, FS_CardinalityType
  <2> QED
    BY <1>1, <1>4, <1>6, <2>1, <2>2 DEF SlotSum
<1>8. R \cup {q} \in SUBSET Row
  OBVIOUS
<1>9. SlotSum(R \cup {q}) \in Nat
  BY <1>8, SlotSumType
<1>10. SlotSum(R \cup {q}) <= Cardinality(Units(R) \cup W)
  BY <1>5, <1>7, FS_Subset DEF SlotSum
<1> QED
  BY <1>1, <1>6, <1>7, <1>9, <1>10, FS_CardinalityType

\* The occupants of an instant among part of the rows are fewer.
LEMMA OccupyingMonotone ==
  ASSUME NEW Q \in SUBSET Row, NEW R \in SUBSET Q, NEW s, NEW t
  PROVE  /\ Occupying(Q, s, t) \in SUBSET Row
         /\ SlotSum(Occupying(R, s, t)) <= SlotSum(Occupying(Q, s, t))
PROOF
<1>1. Occupying(Q, s, t) \in SUBSET Row /\ Occupying(R, s, t) \in SUBSET Occupying(Q, s, t)
  BY DEF Occupying
<1> QED
  BY <1>1, SlotSumMonotone

-----------------------------------------------------------------------------
(* The transaction. *)

Locations == {"start", "tx", "refused", "replay", "done", "crashed"}

-----------------------------------------------------------------------------
\* Type correctness.

LEMMA GotoType ==
  ASSUME TypeOK, NEW c \in Call, NEW l \in Locations, Goto(c, l), StoreTypeOK'
  PROVE  TypeOK'
PROOF
  BY DEF TypeOK, Locations, Goto

LEMMA ReturnType ==
  ASSUME TypeOK, NEW c \in Call, NEW a \in Answer, Return(c, a), StoreTypeOK'
  PROVE  TypeOK'
PROOF
  BY DEF TypeOK, Return

LEMMA UnchangedType ==
  ASSUME StoreTypeOK, UNCHANGED storeVars
  PROVE  StoreTypeOK'
PROOF
  BY DEF StoreTypeOK, storeVars, network, ledger, cache

\* Every answer the code composes is an answer.
LEMMA AnswerType ==
  ASSUME TypeOK, NEW c \in Call
  PROVE  /\ KeyOf(c) \in Key
         /\ Replay(KeyOf(c)) \in Answer /\ Reserved(c) \in Answer
         /\ Error \in Answer /\ Invalid \in Answer /\ Failed \in Answer
PROOF
<1>1. KeyOf(c) \in Key
  BY SlotsAssumption DEF KeyOf
<1>2. idem[KeyOf(c)] \in [status: {"absent", "reserved", "failed"},
                          rsv: Call \cup {NoCall}, fresh: BOOLEAN]
  BY <1>1 DEF TypeOK, StoreTypeOK
<1>3. Replay(KeyOf(c)) \in Answer
  BY <1>2 DEF Replay, Answer
<1> QED
  BY <1>1, <1>3 DEF Answer, Reserved, Error, Invalid, Failed

LEMMA RowsOfType ==
  ASSUME NEW c \in Call
  PROVE  RowsOf(c) \in SUBSET Row
PROOF
  BY DEF Row

\* A step of a call.
LEMMA StepType ==
  ASSUME TypeOK, NEW c \in Call, Step(c)
  PROVE  TypeOK'
PROOF
<1> USE DEF Locations
<1>0. StoreTypeOK
  BY DEF TypeOK
<1>1. CASE Reserve(c)
  <2>1. StoreTypeOK'
    BY <1>0, <1>1, UnchangedType DEF Reserve
  <2>2. \/ Return(c, Invalid) \/ Return(c, Replay(KeyOf(c)))
        \/ Goto(c, "tx") \/ Return(c, Error)
    BY <1>1 DEF Reserve
  <2> QED
    BY <2>1, <2>2, AnswerType, GotoType, ReturnType
<1>2. CASE RecheckReplays(c)
  BY <1>0, <1>2, UnchangedType, AnswerType, ReturnType DEF RecheckReplays
<1>3. CASE Refuse(c)
  BY <1>0, <1>3, UnchangedType, GotoType DEF Refuse
<1>4. CASE Commit(c)
  <2>1. StoreTypeOK'
    <3>1. UNCHANGED <<network, purged, now, released>> /\ active' = active \cup RowsOf(c)
      BY <1>4 DEF Commit, Insert
    <3>2. idem' = [idem EXCEPT ![KeyOf(c)] = Entry("reserved", c)]
      BY <1>4 DEF Commit
    <3>3. Entry("reserved", c) \in [status: {"absent", "reserved", "failed"},
                                    rsv: Call \cup {NoCall}, fresh: BOOLEAN]
      BY DEF Entry
    <3> QED
      BY <1>0, <3>1, <3>2, <3>3, RowsOfType DEF StoreTypeOK, network
  <2>2. Return(c, Reserved(c)) \/ Return(c, Error)
    BY <1>4 DEF Commit
  <2> QED
    BY <2>1, <2>2, AnswerType, ReturnType
<1>5. CASE UniqueViolation(c)
  BY <1>0, <1>5, UnchangedType, GotoType DEF UniqueViolation
<1>6. CASE Restart(c)
  <2>1. StoreTypeOK'
    BY <1>0, <1>6, UnchangedType DEF Restart
  <2>2. CASE tries[c] < MaxTxRetries
    <3>1. tries' = [tries EXCEPT ![c] = @ + 1] /\ UNCHANGED <<pc, answer>>
      BY <1>6, <2>2 DEF Restart
    <3>2. tries[c] + 1 \in 0..MaxTxRetries
      BY <2>2, TxAssumption DEF TypeOK
    <3> QED
      BY <2>1, <3>1, <3>2 DEF TypeOK
  <2>3. CASE ~(tries[c] < MaxTxRetries)
    BY <1>6, <2>1, <2>3, AnswerType, ReturnType DEF Restart
  <2> QED
    BY <2>2, <2>3
<1>7. CASE TxError(c)
  BY <1>0, <1>7, UnchangedType, AnswerType, ReturnType DEF TxError
<1>8. CASE RecordRefusal(c)
  <2>1. Entry("failed", NoCall) \in [status: {"absent", "reserved", "failed"},
                                     rsv: Call \cup {NoCall}, fresh: BOOLEAN]
    BY DEF Entry
  <2>2. UNCHANGED <<network, ledger, now>> /\ purged' = purged
    BY <1>8 DEF RecordRefusal, InsertOnConflictIgnore, cache
  <2>3. idem' = idem \/ idem' = [idem EXCEPT ![KeyOf(c)] = Entry("failed", NoCall)]
    BY <1>8 DEF RecordRefusal, InsertOnConflictIgnore, cache
  <2>4. StoreTypeOK'
    BY <1>0, <2>1, <2>2, <2>3 DEF StoreTypeOK, network, ledger
  <2> QED
    BY <1>8, <2>4, AnswerType, ReturnType DEF RecordRefusal
<1>9. CASE ReplayWinner(c)
  <2>1. StoreTypeOK'
    BY <1>0, <1>9, UnchangedType DEF ReplayWinner
  <2>2. Return(c, Replay(KeyOf(c))) \/ Return(c, Error)
    BY <1>9 DEF ReplayWinner
  <2> QED
    BY <2>1, <2>2, AnswerType, ReturnType
<1> QED
  BY <1>1, <1>2, <1>3, <1>4, <1>5, <1>6, <1>7, <1>8, <1>9 DEF Step

\* A release of rows, whatever asks for it.
LEMMA ReleaseType ==
  ASSUME StoreTypeOK, NEW R, Release(R), UNCHANGED <<network, cache, now>>
  PROVE  StoreTypeOK'
PROOF
  BY DEF StoreTypeOK, Release, network, cache

\* A write to max_capacity.
LEMMA SetCapacitiesType ==
  ASSUME StoreTypeOK, NEW cap \in [Segment -> Nat], SetCapacities(cap),
         UNCHANGED defaultCapacity
  PROVE  StoreTypeOK'
PROOF
<1>1. \A s \in Segment : (IF cap[s] > peak[s] THEN cap[s] ELSE peak[s]) \in Nat
  BY DEF StoreTypeOK
<1>2. peak' \in [Segment -> Nat]
  BY <1>1 DEF SetCapacities
<1> QED
  BY <1>2 DEF StoreTypeOK, SetCapacities, ledger, cache

\* What an admin, the cleanup job or the clock does to the store.
LEMMA StoreStepType ==
  ASSUME StoreTypeOK, StoreNext
  PROVE  StoreTypeOK'
PROOF
<1>1. CASE ReleaseOrphans
  BY <1>1, ReleaseType DEF ReleaseOrphans
<1>2. ASSUME NEW s \in Segment, NEW d \in ClosureDurations, CreateClosure(s, d)
      PROVE  StoreTypeOK'
  <2>1. [start |-> now, end |-> now + d] \in [start: Int, end: Int]
    BY StoreAssumption DEF StoreTypeOK
  <2>2. closures' \in [Segment -> SUBSET [start: Int, end: Int]]
    BY <1>2, <2>1 DEF StoreTypeOK, CreateClosure
  <2> QED
    BY <1>2, <2>2 DEF StoreTypeOK, CreateClosure, ledger, cache
<1>3. ASSUME NEW s \in Segment, NEW v \in CapacityValues, UpdateSegmentCapacity(s, v)
      PROVE  StoreTypeOK'
  <2>1. v \in Nat
    BY StoreAssumption
  <2>2. [capacity EXCEPT ![s] = v] \in [Segment -> Nat]
    BY <2>1 DEF StoreTypeOK
  <2> QED
    BY <1>3, <2>2, SetCapacitiesType DEF UpdateSegmentCapacity
<1>4. ASSUME NEW v \in CapacityValues, UpdateDefaultSegmentCapacity(v)
      PROVE  StoreTypeOK'
  BY <1>4 DEF StoreTypeOK, UpdateDefaultSegmentCapacity, ledger, cache
<1>5. ASSUME NEW S \in SUBSET Segment, RegisterSegments(S)
      PROVE  StoreTypeOK'
  <2> DEFINE cap == [s \in Segment |->
                       IF s \in S /\ capacity[s] = 0 THEN defaultCapacity ELSE capacity[s]]
  <2>1. defaultCapacity \in Nat
    BY StoreAssumption DEF StoreTypeOK
  <2>2. cap \in [Segment -> Nat]
    BY <2>1 DEF StoreTypeOK
  <2>3. SetCapacities(cap) /\ UNCHANGED defaultCapacity
    BY <1>5 DEF RegisterSegments
  <2> HIDE DEF cap
  <2> QED
    BY <2>2, <2>3, SetCapacitiesType
<1>6. CASE PurgeExpired
  <2>1. NoEntry \in [status: {"absent", "reserved", "failed"},
                     rsv: Call \cup {NoCall}, fresh: BOOLEAN]
    BY DEF NoEntry
  <2>2. Expired \in SUBSET Key
    BY DEF Expired
  <2> QED
    BY <1>6, <2>1, <2>2 DEF StoreTypeOK, PurgeExpired, network, ledger
<1>7. CASE Tick
  BY <1>7 DEF StoreTypeOK, Tick, network, ledger, cache
<1> QED
  BY <1>1, <1>2, <1>3, <1>4, <1>5, <1>6, <1>7 DEF StoreNext

LEMMA NextType ==
  ASSUME TypeOK, [Next]_vars
  PROVE  TypeOK'
PROOF
<1>0. StoreTypeOK
  BY DEF TypeOK
<1> USE DEF Locations
<1>1. ASSUME NEW c \in Call, Step(c)
      PROVE  TypeOK'
  BY <1>1, StepType
<1>2. ASSUME NEW c \in Call, Crash(c)
      PROVE  TypeOK'
  BY <1>0, <1>2, UnchangedType, GotoType DEF Crash
<1>3. ASSUME NEW k \in Key, ExpireIdle(k)
      PROVE  TypeOK'
  <2>1. UNCHANGED <<purged, network, ledger, now, txVars>>
    BY <1>3 DEF ExpireIdle, ExpireEntry
  <2>2. idem' = [idem EXCEPT ![k].fresh = FALSE]
    BY <1>3 DEF ExpireIdle, ExpireEntry
  <2> QED
    BY <2>1, <2>2 DEF TypeOK, StoreTypeOK, network, ledger, txVars
<1>4. ASSUME NEW j \in Journey, JourneyEnds(j)
      PROVE  TypeOK'
  <2>1. StoreTypeOK'
    BY <1>0, <1>4, ReleaseType DEF JourneyEnds, ReleaseByJourneyID
  <2> QED
    BY <1>4, <2>1 DEF TypeOK, JourneyEnds, txVars
<1>5. CASE StoreNext /\ UNCHANGED txVars
  <2>1. StoreTypeOK'
    BY <1>0, <1>5, StoreStepType
  <2> QED
    BY <1>5, <2>1 DEF TypeOK, txVars
<1>6. CASE UNCHANGED vars
  BY <1>0, <1>6, UnchangedType DEF TypeOK, vars, txVars
<1> QED
  BY <1>1, <1>2, <1>3, <1>4, <1>5, <1>6 DEF Next

LEMMA InitType ==
  ASSUME Init
  PROVE  TypeOK
PROOF
<1>1. StoreTypeOK
  BY StoreAssumption DEF Init, StoreInit, StoreTypeOK, NoEntry
<1>2. NoAnswer \in Answer
  BY DEF NoAnswer, Answer
<1> QED
  BY <1>1, <1>2, TxAssumption DEF Init, TypeOK

\* The store and the calls stay well formed; in particular no call restarts
\* its transaction more than MaxTxRetries times.
THEOREM TypeCorrect == Spec => []TypeOK
PROOF
  BY InitType, NextType, PTL DEF Spec

-----------------------------------------------------------------------------
\* What a step that is not a commit does.

\* The status of a cache entry: kept with its reservation, set to failed where
\* there was none, or deleted on record.
EntryKept(k) ==
  \/ idem'[k].status = idem[k].status /\ idem'[k].rsv = idem[k].rsv
  \/ idem[k].status = "absent" /\ idem'[k].status = "failed"
  \/ idem'[k].status = "absent" /\ k \in purged'

\* An answer: kept, not a reservation, or what the cache holds.
AnswerKept(c) ==
  \/ answer'[c] = answer[c]
  \/ answer'[c].status # "reserved"
  \/ answer'[c] = Replay(KeyOf(c))

LedgerKept == UNCHANGED <<active, released>>
NetworkKept == UNCHANGED <<capacity, peak>>
CacheKept == UNCHANGED <<idem, purged>>
AnswersKept == \A c \in Call : AnswerKept(c)

\* Rows are only released, which leaves them stored.
OnlyReleases ==
  /\ active' \subseteq active /\ Stored' = Stored
  /\ NetworkKept /\ CacheKept

\* Capacities change and their peaks follow.
OnlyCapacities ==
  /\ \A s \in Segment : peak[s] <= peak'[s] /\ capacity'[s] <= peak'[s]
  /\ LedgerKept /\ CacheKept

\* Entries are added for refusals, expire or are deleted.
OnlyEntries ==
  /\ purged \subseteq purged'
  /\ \A k \in Key : EntryKept(k)
  /\ LedgerKept /\ NetworkKept

Quiet == (OnlyReleases \/ OnlyCapacities \/ OnlyEntries) /\ AnswersKept

LEMMA UnchangedQuiet ==
  ASSUME UNCHANGED storeVars
  PROVE  OnlyReleases
PROOF
  BY DEF storeVars, network, ledger, cache, OnlyReleases, Stored, NetworkKept, CacheKept

LEMMA ReleaseQuiet ==
  ASSUME NEW R, Release(R), UNCHANGED <<network, cache>>
  PROVE  OnlyReleases
PROOF
  BY DEF Release, network, cache, OnlyReleases, Stored, NetworkKept, CacheKept

\* An answer that is no reservation or is taken from the cache.
LEMMA ReturnKeeps ==
  ASSUME TypeOK, NEW c \in Call, NEW a \in Answer, Return(c, a),
         a.status # "reserved" \/ a = Replay(KeyOf(c))
  PROVE  AnswersKept
PROOF
  BY DEF TypeOK, Return, AnswersKept, AnswerKept

LEMMA StepEffects ==
  ASSUME TypeOK, NEW c \in Call, Step(c)
  PROVE  Commit(c) \/ Quiet
PROOF
<1>0. StoreTypeOK
  BY DEF TypeOK
<1>1. Error.status # "reserved" /\ Failed.status # "reserved" /\ Invalid.status # "reserved"
  BY DEF Error, Failed, Invalid
<1>2. ASSUME NEW l, Goto(c, l)
      PROVE  AnswersKept
  BY <1>2 DEF Goto, AnswersKept, AnswerKept
<1>3. CASE RecordRefusal(c)
  <2>1. LedgerKept /\ NetworkKept /\ purged' = purged
    BY <1>3 DEF RecordRefusal, InsertOnConflictIgnore, network, ledger, cache,
                LedgerKept, NetworkKept
  <2>2. idem' = idem \/ (/\ idem[KeyOf(c)].status = "absent"
                         /\ idem' = [idem EXCEPT ![KeyOf(c)] = Entry("failed", NoCall)])
    BY <1>3 DEF RecordRefusal, InsertOnConflictIgnore, cache
  <2>3. \A k \in Key : EntryKept(k)
    BY <1>0, <2>2 DEF EntryKept, Entry, StoreTypeOK
  <2> QED
    BY <1>1, <1>3, <2>1, <2>3, AnswerType, ReturnKeeps DEF RecordRefusal, Quiet, OnlyEntries
<1>4. ASSUME ~Commit(c), ~RecordRefusal(c)
      PROVE  OnlyReleases
  <2>1. UNCHANGED storeVars
    BY <1>4 DEF Step, Reserve, RecheckReplays, Refuse, UniqueViolation, Restart, TxError,
                ReplayWinner
  <2> QED
    BY <2>1, UnchangedQuiet
<1>5. ASSUME ~Commit(c), ~RecordRefusal(c)
      PROVE  AnswersKept
  <2>1. \/ Return(c, Invalid) \/ Return(c, Error) \/ Return(c, Replay(KeyOf(c)))
        \/ \E l \in Locations : Goto(c, l)
        \/ answer' = answer
    BY <1>5 DEF Step, Reserve, RecheckReplays, Refuse, UniqueViolation, Restart, TxError,
                ReplayWinner, Locations
  <2>2. CASE answer' = answer
    BY <2>2 DEF AnswersKept, AnswerKept
  <2> QED
    BY <1>1, <1>2, <2>1, <2>2, AnswerType, ReturnKeeps
<1> QED
  BY <1>3, <1>4, <1>5 DEF Quiet

LEMMA SetCapacitiesQuiet ==
  ASSUME StoreTypeOK, NEW cap \in [Segment -> Nat], SetCapacities(cap)
  PROVE  OnlyCapacities
PROOF
<1>1. \A s \in Segment : peak[s] \in Nat /\ cap[s] \in Nat
  BY DEF StoreTypeOK
<1>2. \A s \in Segment : peak'[s] = (IF cap[s] > peak[s] THEN cap[s] ELSE peak[s])
  BY DEF SetCapacities
<1>3. \A s \in Segment : peak[s] <= peak'[s] /\ capacity'[s] <= peak'[s]
  BY <1>1, <1>2 DEF SetCapacities
<1> QED
  BY <1>3 DEF SetCapacities, OnlyCapacities, LedgerKept, CacheKept, ledger, cache

LEMMA StoreStepEffects ==
  ASSUME StoreTypeOK, StoreNext
  PROVE  OnlyReleases \/ OnlyCapacities \/ OnlyEntries
PROOF
<1>1. CASE ReleaseOrphans
  BY <1>1, ReleaseQuiet DEF ReleaseOrphans
<1>2. ASSUME NEW s \in Segment, NEW d \in ClosureDurations, CreateClosure(s, d)
      PROVE  OnlyReleases
  BY <1>2 DEF CreateClosure, ledger, cache, OnlyReleases, Stored, NetworkKept, CacheKept
<1>3. ASSUME NEW s \in Segment, NEW v \in CapacityValues, UpdateSegmentCapacity(s, v)
      PROVE  OnlyCapacities
  <2>1. [capacity EXCEPT ![s] = v] \in [Segment -> Nat]
    BY StoreAssumption DEF StoreTypeOK
  <2> QED
    BY <1>3, <2>1, SetCapacitiesQuiet DEF UpdateSegmentCapacity
<1>4. ASSUME NEW v \in CapacityValues, UpdateDefaultSegmentCapacity(v)
      PROVE  OnlyReleases
  BY <1>4 DEF UpdateDefaultSegmentCapacity, ledger, cache, OnlyReleases, Stored,
              NetworkKept, CacheKept
<1>5. ASSUME NEW S \in SUBSET Segment, RegisterSegments(S)
      PROVE  OnlyCapacities
  <2> DEFINE cap == [s \in Segment |->
                       IF s \in S /\ capacity[s] = 0 THEN defaultCapacity ELSE capacity[s]]
  <2>1. defaultCapacity \in Nat
    BY StoreAssumption DEF StoreTypeOK
  <2>2. cap \in [Segment -> Nat]
    BY <2>1 DEF StoreTypeOK
  <2>3. SetCapacities(cap)
    BY <1>5 DEF RegisterSegments
  <2> HIDE DEF cap
  <2> QED
    BY <2>2, <2>3, SetCapacitiesQuiet
<1>6. CASE PurgeExpired
  <2>1. LedgerKept /\ NetworkKept /\ purged \subseteq purged'
    BY <1>6 DEF PurgeExpired, LedgerKept, NetworkKept, ledger, network
  <2>2. \A k \in Key : EntryKept(k)
    BY <1>6 DEF PurgeExpired, EntryKept, NoEntry
  <2> QED
    BY <2>1, <2>2 DEF OnlyEntries
<1>7. CASE Tick
  BY <1>7 DEF Tick, network, ledger, cache, OnlyReleases, Stored, NetworkKept, CacheKept
<1> QED
  BY <1>1, <1>2, <1>3, <1>4, <1>5, <1>6, <1>7 DEF StoreNext

\* Every step of the specification commits a call or is quiet.
LEMMA NextEffects ==
  ASSUME TypeOK, [Next]_vars
  PROVE  (\E c \in Call : Commit(c)) \/ Quiet
PROOF
<1>0. StoreTypeOK
  BY DEF TypeOK
<1>1. ASSUME UNCHANGED answer
      PROVE  AnswersKept
  BY <1>1 DEF AnswersKept, AnswerKept
<1>2. ASSUME NEW c \in Call, Step(c)
      PROVE  Commit(c) \/ Quiet
  BY <1>2, StepEffects
<1>3. ASSUME NEW c \in Call, Crash(c)
      PROVE  Quiet
  BY <1>1, <1>3, UnchangedQuiet DEF Crash, Goto, Quiet
<1>4. ASSUME NEW k \in Key, ExpireIdle(k)
      PROVE  Quiet
  <2>1. LedgerKept /\ NetworkKept /\ purged' = purged /\ UNCHANGED answer
    BY <1>4 DEF ExpireIdle, ExpireEntry, txVars, network, ledger, LedgerKept, NetworkKept
  <2>2. idem' = [idem EXCEPT ![k].fresh = FALSE]
    BY <1>4 DEF ExpireIdle, ExpireEntry
  <2>3. \A x \in Key : EntryKept(x)
    BY <1>0, <2>2 DEF EntryKept, StoreTypeOK
  <2> QED
    BY <1>1, <2>1, <2>3 DEF Quiet, OnlyEntries
<1>5. ASSUME NEW j \in Journey, JourneyEnds(j)
      PROVE  Quiet
  BY <1>1, <1>5, ReleaseQuiet DEF JourneyEnds, ReleaseByJourneyID, txVars, Quiet
<1>6. CASE StoreNext /\ UNCHANGED txVars
  BY <1>0, <1>1, <1>6, StoreStepEffects DEF txVars, Quiet
<1>7. CASE UNCHANGED vars
  BY <1>1, <1>7, UnchangedQuiet DEF vars, txVars, Quiet
<1> QED
  BY <1>2, <1>3, <1>4, <1>5, <1>6, <1>7 DEF Next

-----------------------------------------------------------------------------
\* One reservation per key, and answers backed by rows.

\* A key whose rows were ever stored has an entry, or had one that was deleted;
\* an entry that says reserved names a stored reservation of its key, and so
\* does every answer.  Without the first conjunct a commit could follow one
\* of the same key; without the second a replay could answer anything.
KeysInv ==
  /\ TypeOK
  /\ \A r \in Stored : idem[KeyOf(r.call)].status # "absent" \/ KeyOf(r.call) \in purged
  /\ OneReservationPerKey
  /\ \A k \in Key : idem[k].status = "reserved" =>
       /\ idem[k].rsv # NoCall /\ KeyOf(idem[k].rsv) = k
       /\ RowsOf(idem[k].rsv) \subseteq Stored
  /\ ReservedIsBacked

\* What a commit does, for those who need not know why it was allowed.
LEMMA CommitEffects ==
  ASSUME TypeOK, NEW c \in Call, Commit(c)
  PROVE  /\ idem[KeyOf(c)].status = "absent"
         /\ active' = active \cup RowsOf(c) /\ Stored' = Stored \cup RowsOf(c)
         /\ idem' = [idem EXCEPT ![KeyOf(c)] = Entry("reserved", c)]
         /\ NetworkKept /\ purged' = purged
         /\ \A d \in Call : \/ answer'[d] = answer[d]
                            \/ answer'[d].status # "reserved"
                            \/ d = c /\ answer'[d] = Reserved(c)
PROOF
<1>1. Return(c, Reserved(c)) \/ Return(c, Error)
  BY DEF Commit
<1>2. \A d \in Call : \/ answer'[d] = answer[d]
                      \/ answer'[d].status # "reserved"
                      \/ d = c /\ answer'[d] = Reserved(c)
  BY <1>1 DEF TypeOK, Return, Error
<1> QED
  BY <1>2 DEF Commit, Insert, Stored, network, NetworkKept

LEMMA CommitKeepsKeys ==
  ASSUME KeysInv, NEW c \in Call, Commit(c)
  PROVE  KeysInv'
PROOF
<1>0. TypeOK /\ TypeOK' /\ KeyOf(c) \in Key
  BY NextType, AnswerType DEF KeysInv, Next, Step
<1>1. /\ idem[KeyOf(c)].status = "absent"
      /\ Stored' = Stored \cup RowsOf(c)
      /\ purged' = purged
  BY <1>0, CommitEffects
<1>2. idem' = [idem EXCEPT ![KeyOf(c)] = Entry("reserved", c)]
  BY <1>0, CommitEffects
<1>3. /\ idem'[KeyOf(c)].status = "reserved" /\ idem'[KeyOf(c)].rsv = c
      /\ \A k \in Key \ {KeyOf(c)} : idem'[k] = idem[k]
  BY <1>0, <1>2 DEF TypeOK, StoreTypeOK, Entry
<1>4. \A r \in RowsOf(c) : r.call = c
  BY DEF RowsOf
<1>5. \A r \in Stored : r.call \in Call /\ KeyOf(r.call) \in Key
  BY <1>0, RowType, AnswerType DEF Stored, TypeOK, StoreTypeOK
<1>6. (\A r \in Stored : idem[KeyOf(r.call)].status # "absent" \/ KeyOf(r.call) \in purged)'
  BY <1>1, <1>3, <1>4, <1>5 DEF KeysInv
<1>7. OneReservationPerKey'
  BY <1>1, <1>4, <1>5 DEF KeysInv, OneReservationPerKey
<1>8. (\A k \in Key : idem[k].status = "reserved" =>
         /\ idem[k].rsv # NoCall /\ KeyOf(idem[k].rsv) = k
         /\ RowsOf(idem[k].rsv) \subseteq Stored)'
  BY <1>1, <1>3, StoreAssumption DEF KeysInv
<1>9. ReservedIsBacked'
  <2>1. SUFFICES ASSUME NEW d \in Call, answer'[d].status = "reserved"
                 PROVE  /\ answer'[d].rsv # NoCall
                        /\ KeyOf(answer'[d].rsv) = KeyOf(d)
                        /\ RowsOf(answer'[d].rsv) \subseteq Stored'
    BY DEF ReservedIsBacked
  <2>2. answer'[d] = answer[d] \/ (d = c /\ answer'[d] = Reserved(c))
    BY <1>0, <2>1, CommitEffects
  <2> QED
    BY <1>1, <2>1, <2>2, StoreAssumption DEF KeysInv, ReservedIsBacked, Reserved
<1> QED
  BY <1>0, <1>6, <1>7, <1>8, <1>9 DEF KeysInv

LEMMA QuietKeepsKeys ==
  ASSUME KeysInv, TypeOK', Quiet
  PROVE  KeysInv'
PROOF
<1>1. Stored' = Stored /\ purged \subseteq purged'
  BY DEF Quiet, OnlyReleases, OnlyCapacities, OnlyEntries, LedgerKept, CacheKept, Stored
<1>2. \A k \in Key : EntryKept(k)
  BY DEF Quiet, OnlyReleases, OnlyCapacities, OnlyEntries, CacheKept, EntryKept
<1>3. \A r \in Stored : KeyOf(r.call) \in Key
  BY RowType, AnswerType DEF Stored, KeysInv, TypeOK, StoreTypeOK
<1>4. (\A r \in Stored : idem[KeyOf(r.call)].status # "absent" \/ KeyOf(r.call) \in purged)'
  BY <1>1, <1>2, <1>3 DEF KeysInv, EntryKept
<1>5. OneReservationPerKey'
  BY <1>1 DEF KeysInv, OneReservationPerKey
<1>6. (\A k \in Key : idem[k].status = "reserved" =>
         /\ idem[k].rsv # NoCall /\ KeyOf(idem[k].rsv) = k
         /\ RowsOf(idem[k].rsv) \subseteq Stored)'
  BY <1>1, <1>2 DEF KeysInv, EntryKept
<1>7. ReservedIsBacked'
  <2>1. SUFFICES ASSUME NEW d \in Call, answer'[d].status = "reserved"
                 PROVE  /\ answer'[d].rsv # NoCall
                        /\ KeyOf(answer'[d].rsv) = KeyOf(d)
                        /\ RowsOf(answer'[d].rsv) \subseteq Stored'
    BY DEF ReservedIsBacked
  <2>2. answer'[d] = answer[d] \/ answer'[d] = Replay(KeyOf(d))
    BY <2>1 DEF Quiet, AnswersKept, AnswerKept
  <2>3. KeyOf(d) \in Key
    BY AnswerType DEF KeysInv
  <2> QED
    BY <1>1, <2>1, <2>2, <2>3 DEF KeysInv, ReservedIsBacked, Replay
<1> QED
  BY <1>4, <1>5, <1>6, <1>7 DEF KeysInv

THEOREM KeysInvariant == Spec => []KeysInv
PROOF
<1>1. Init => KeysInv
  <2> SUFFICES ASSUME Init PROVE KeysInv
    OBVIOUS
  <2>1. Stored = {} /\ \A k \in Key : idem[k].status = "absent"
    BY DEF Init, StoreInit, Stored, NoEntry
  <2>2. \A c \in Call : answer[c].status = "none"
    BY DEF Init, NoAnswer
  <2> QED
    BY <2>1, <2>2, InitType DEF KeysInv, OneReservationPerKey, ReservedIsBacked
<1>2. KeysInv /\ [Next]_vars => KeysInv'
  <2> SUFFICES ASSUME KeysInv, [Next]_vars PROVE KeysInv'
    OBVIOUS
  <2>1. TypeOK /\ TypeOK'
    BY NextType DEF KeysInv
  <2> QED
    BY <2>1, NextEffects, CommitKeepsKeys, QuietKeepsKeys
<1> QED
  BY <1>1, <1>2, PTL DEF Spec

\* A key books once unless its cache entry was deleted in between, for every
\* interleaving of any number of calls, retries and faults.
THEOREM KeyBooksOnce == Spec => []OneReservationPerKey
PROOF
<1>1. KeysInv => OneReservationPerKey
  BY DEF KeysInv
<1> QED
  BY <1>1, KeysInvariant, PTL

\* Every "reserved" answer names a reservation of the key whose rows are all in
\* the store.
THEOREM AnswersAreBacked == Spec => []ReservedIsBacked
PROOF
<1>1. KeysInv => ReservedIsBacked
  BY DEF KeysInv
<1> QED
  BY <1>1, KeysInvariant, PTL

-----------------------------------------------------------------------------
(* Capacity, and the refinement. *)

NormalOf(R) == {r \in R : PriorityOf(r) = "normal"}

\* The capacity that a commit checks never exceeds its peak, and the loads
\* stay under the peak at every instant, not only where a window starts.
LoadsOK ==
  /\ \A s \in Segment : capacity[s] <= peak[s]
  /\ \A s \in Segment, t \in Int :
       /\ Load(active, s, t) <= peak[s]
       /\ Load(NormalOf(active), s, t) <= EffectiveCapacity(peak[s], "normal")

LoadInv == TypeOK /\ LoadsOK

-----------------------------------------------------------------------------
\* A larger capacity leaves more to use, and the buffer only takes from it.
LEMMA EffectiveCapacityMonotone ==
  ASSUME NEW m \in Nat, NEW n \in Nat, m <= n, NEW p \in {"normal", "max"}
  PROVE  /\ EffectiveCapacity(m, p) \in Nat
         /\ EffectiveCapacity(m, p) <= EffectiveCapacity(n, p)
         /\ EffectiveCapacity(m, p) <= m
PROOF
  BY SlotsAssumption DEF EffectiveCapacity

\* A load is a natural number and shrinks with its rows.
LEMMA LoadMonotone ==
  ASSUME NEW Q \in SUBSET Row, NEW R \in SUBSET Q, NEW s, NEW t
  PROVE  /\ Load(R, s, t) \in Nat /\ Load(Q, s, t) \in Nat
         /\ Load(R, s, t) <= Load(Q, s, t)
PROOF
<1>1. Occupying(Q, s, t) \in SUBSET Row /\ Occupying(R, s, t) \in SUBSET Row
  BY DEF Occupying
<1> QED
  BY <1>1, SlotSumType, OccupyingMonotone DEF Load

\* An admitted call fits: once all of its rows are inserted, whatever instant
\* one of them occupies is loaded at most to the limit of the call's priority.
\* At that instant only rows the check of this row counted are active, and
\* no second row of the call, since its rows are disjoint.
LEMMA AdmittedFits ==
  ASSUME StoreTypeOK, DisjointItems, NEW c \in Call, NEW r \in RowsOf(c), Admits(r),
         NEW t \in Int, ItemOf(r).start <= t, t < ItemOf(r).end
  PROVE  Load(active \cup RowsOf(c), ItemOf(r).seg, t)
           <= EffectiveCapacity(capacity[ItemOf(r).seg], PriorityOf(r))
PROOF
<1> DEFINE s == ItemOf(r).seg
           A == ActiveOverlapping(s, ItemOf(r))
           O == Occupying(active \cup RowsOf(c), s, t)
<1>1. r \in Row /\ ItemOf(r) \in Item /\ SlotsOf(r) \in Nat /\ PriorityOf(r) \in {"normal", "max"}
  BY RowsOfType, RowType, SlotsAssumption
<1>2. active \in SUBSET Row /\ RowsOf(c) \in SUBSET Row /\ capacity[s] \in Nat
  BY <1>1, RowsOfType DEF StoreTypeOK, Item
<1>3. A \in SUBSET Row
  BY <1>2 DEF ActiveOverlapping
<1>4. O \subseteq A \cup {r}
  <2>1. SUFFICES ASSUME NEW q \in O, q # r
                 PROVE  q \in A
    OBVIOUS
  <2>2. /\ q \in active \cup RowsOf(c) /\ ItemOf(q).seg = s
        /\ ItemOf(q).start <= t /\ t < ItemOf(q).end
    BY DEF Occupying
  <2>3. ItemOf(q) \in Item
    BY <1>2, <2>2, RowType
  <2>4. Overlap(ItemOf(q), ItemOf(r)) /\ Overlap(ItemOf(r), ItemOf(q))
    BY <1>1, <2>2, <2>3 DEF Overlap, Item
  <2>5. q \notin RowsOf(c)
    BY <2>1, <2>2, <2>4 DEF DisjointItems
  <2> QED
    BY <2>2, <2>4, <2>5 DEF ActiveOverlapping
<1>5. O \in SUBSET Row /\ A \cup {r} \in SUBSET Row
  BY <1>1, <1>2, <1>3 DEF Occupying
<1>6. SlotSum(O) \in Nat /\ SlotSum(A) \in Nat /\ SlotSum(A \cup {r}) \in Nat
  BY <1>3, <1>5, SlotSumType
<1>7. SlotSum(O) <= SlotSum(A \cup {r})
  BY <1>4, <1>5, SlotSumMonotone
<1>8. SlotSum(A \cup {r}) <= SlotSum(A) + SlotsOf(r)
  BY <1>1, <1>3, SlotSumAdd
<1>9. EffectiveCapacity(capacity[s], PriorityOf(r)) - SlotSum(A) >= SlotsOf(r)
  BY DEF Admits
<1>10. EffectiveCapacity(capacity[s], PriorityOf(r)) \in Nat
  BY <1>1, <1>2, EffectiveCapacityMonotone
<1>11. Load(active \cup RowsOf(c), s, t) = SlotSum(O)
  BY DEF Load
<1> HIDE DEF O, A, s
<1>12. Load(active \cup RowsOf(c), s, t) <= EffectiveCapacity(capacity[s], PriorityOf(r))
  BY <1>1, <1>6, <1>7, <1>8, <1>9, <1>10, <1>11
<1> QED
  BY <1>12 DEF s

-----------------------------------------------------------------------------
\* Some rows of a call are inserted, each admitted: all of them, or those of a
\* region.
LEMMA InsertKeepsLoads ==
  ASSUME StoreTypeOK, LoadsOK, DisjointItems, NEW c \in Call, NEW R \in SUBSET RowsOf(c),
         \A r \in R : Admits(r), active' = active \cup R,
         NEW s \in Segment, NEW t \in Int
  PROVE  /\ Load(active', s, t) <= peak[s]
         /\ Load(NormalOf(active'), s, t) <= EffectiveCapacity(peak[s], "normal")
PROOF
<1>1. /\ active \in SUBSET Row /\ capacity[s] \in Nat /\ peak[s] \in Nat
      /\ capacity[s] <= peak[s]
  BY DEF LoadsOK, StoreTypeOK
<1>2. /\ active' \in SUBSET (active \cup RowsOf(c))
      /\ active \cup RowsOf(c) \in SUBSET Row /\ active' \in SUBSET Row
  BY <1>1, RowsOfType
<1>3. /\ Load(active', s, t) \in Nat /\ Load(NormalOf(active'), s, t) \in Nat
      /\ Load(NormalOf(active'), s, t) <= Load(active', s, t)
      /\ Load(active \cup RowsOf(c), s, t) \in Nat
      /\ Load(active', s, t) <= Load(active \cup RowsOf(c), s, t)
  BY <1>2, LoadMonotone DEF NormalOf
<1>4. CASE Occupying(R, s, t) = {}
  <2>1. Occupying(active', s, t) = Occupying(active, s, t)
    BY <1>4 DEF Occupying
  <2>2. Occupying(NormalOf(active'), s, t) = Occupying(NormalOf(active), s, t)
    BY <1>4 DEF Occupying, NormalOf
  <2> QED
    BY <2>1, <2>2 DEF Load, LoadsOK
<1>5. ASSUME NEW r \in Occupying(R, s, t)
      PROVE  /\ Load(active', s, t) <= peak[s]
             /\ Load(NormalOf(active'), s, t) <= EffectiveCapacity(peak[s], "normal")
  <2>1. r \in R /\ ItemOf(r).seg = s /\ ItemOf(r).start <= t /\ t < ItemOf(r).end
    BY DEF Occupying
  <2>2. PriorityOf(r) \in {"normal", "max"}
    BY <2>1, RowsOfType, RowType
  <2>3. Load(active \cup RowsOf(c), s, t) <= EffectiveCapacity(capacity[s], PriorityOf(r))
    BY <2>1, AdmittedFits
  <2>4. /\ EffectiveCapacity(capacity[s], PriorityOf(r)) \in Nat
        /\ EffectiveCapacity(peak[s], PriorityOf(r)) \in Nat
        /\ EffectiveCapacity(capacity[s], PriorityOf(r))
             <= EffectiveCapacity(peak[s], PriorityOf(r))
        /\ EffectiveCapacity(peak[s], PriorityOf(r)) <= peak[s]
    BY <1>1, <2>2, EffectiveCapacityMonotone
  <2>5. Load(active', s, t) <= EffectiveCapacity(capacity[s], PriorityOf(r))
    BY <1>3, <2>3, <2>4
  <2>6. Load(active', s, t) <= peak[s]
    BY <1>1, <1>3, <2>4, <2>5
  <2>7. CASE PriorityOf(r) = "normal"
    BY <1>3, <2>4, <2>5, <2>6, <2>7
  <2>8. CASE PriorityOf(r) = "max"
    <3>1. \A q \in R : PriorityOf(q) = "max"
      BY <2>1, <2>8 DEF PriorityOf, RowsOf
    <3>2. NormalOf(active') = NormalOf(active)
      BY <3>1 DEF NormalOf
    <3> QED
      BY <2>6, <3>2 DEF LoadsOK
  <2> QED
    BY <2>2, <2>7, <2>8
<1> QED
  BY <1>4, <1>5

\* Peaks follow the capacities.
PeaksFollow == \A s \in Segment : peak[s] <= peak'[s] /\ capacity'[s] <= peak'[s]

\* No row becomes active.
LEMMA ReleaseKeepsLoads ==
  ASSUME StoreTypeOK, StoreTypeOK', LoadsOK, active' \subseteq active,
         NetworkKept \/ PeaksFollow
  PROVE  LoadsOK'
PROOF
<1>1. /\ active \in SUBSET Row
      /\ \A s \in Segment : /\ peak[s] \in Nat /\ peak'[s] \in Nat /\ peak[s] <= peak'[s]
                            /\ capacity'[s] <= peak'[s]
  BY DEF LoadsOK, StoreTypeOK, NetworkKept, PeaksFollow
<1>2. ASSUME NEW s \in Segment, NEW t \in Int
      PROVE  /\ Load(active', s, t) <= peak'[s]
             /\ Load(NormalOf(active'), s, t) <= EffectiveCapacity(peak'[s], "normal")
  <2>1. /\ Load(active', s, t) \in Nat /\ Load(active, s, t) \in Nat
        /\ Load(active', s, t) <= Load(active, s, t)
    BY <1>1, LoadMonotone
  <2>2. NormalOf(active) \in SUBSET Row /\ NormalOf(active') \in SUBSET NormalOf(active)
    BY <1>1 DEF NormalOf
  <2>3. /\ Load(NormalOf(active'), s, t) \in Nat /\ Load(NormalOf(active), s, t) \in Nat
        /\ Load(NormalOf(active'), s, t) <= Load(NormalOf(active), s, t)
    BY <2>2, LoadMonotone
  <2>4. /\ EffectiveCapacity(peak[s], "normal") \in Nat
        /\ EffectiveCapacity(peak'[s], "normal") \in Nat
        /\ EffectiveCapacity(peak[s], "normal") <= EffectiveCapacity(peak'[s], "normal")
    BY <1>1, EffectiveCapacityMonotone
  <2>5. /\ Load(active, s, t) <= peak[s]
        /\ Load(NormalOf(active), s, t) <= EffectiveCapacity(peak[s], "normal")
    BY DEF LoadsOK
  <2> QED
    BY <1>1, <2>1, <2>3, <2>4, <2>5
<1> QED
  BY <1>1, <1>2 DEF LoadsOK, Load, NormalOf

\* A step on the store that admits some rows of a call, or none.
LEMMA StepKeepsLoads ==
  ASSUME StoreTypeOK, StoreTypeOK', LoadsOK, DisjointItems,
         \/ active' \subseteq active /\ (NetworkKept \/ PeaksFollow)
         \/ /\ NetworkKept
            /\ \E c \in Call : \E R \in SUBSET RowsOf(c) :
                 (\A r \in R : Admits(r)) /\ active' = active \cup R
  PROVE  LoadsOK'
PROOF
<1>1. CASE active' \subseteq active /\ (NetworkKept \/ PeaksFollow)
  BY <1>1, ReleaseKeepsLoads
<1>2. ASSUME NetworkKept, NEW c \in Call, NEW R \in SUBSET RowsOf(c),
             \A r \in R : Admits(r), active' = active \cup R
      PROVE  LoadsOK'
  <2>1. \A s \in Segment, t \in Int :
          /\ Load(active', s, t) <= peak[s]
          /\ Load(NormalOf(active'), s, t) <= EffectiveCapacity(peak[s], "normal")
    BY <1>2, InsertKeepsLoads
  <2>2. capacity' = capacity /\ peak' = peak
    BY <1>2 DEF NetworkKept
  <2> QED
    BY <2>1, <2>2 DEF LoadsOK, Load, NormalOf
<1> QED
  BY <1>1, <1>2

LEMMA LoadsInit ==
  ASSUME Init
  PROVE  LoadInv
PROOF
<1>1. /\ active = {} /\ \A s \in Segment : capacity[s] <= peak[s]
      /\ \A s \in Segment : peak[s] \in Nat
  BY StoreAssumption DEF Init, StoreInit
<1>2. \A s \in Segment, t \in Int : Load({}, s, t) = 0
  <2>1. \A s, t : Units(Occupying({}, s, t)) = {}
    BY DEF Occupying, Units
  <2> QED
    BY <2>1, FS_EmptySet DEF Load, SlotSum
<1>3. NormalOf(active) = {}
  BY <1>1 DEF NormalOf
<1>4. \A s \in Segment : 0 <= peak[s] /\ 0 <= EffectiveCapacity(peak[s], "normal")
  BY <1>1, EffectiveCapacityMonotone
<1> QED
  BY <1>1, <1>2, <1>3, <1>4, InitType DEF LoadInv, LoadsOK

THEOREM LoadInvariant ==
  ASSUME DisjointItems
  PROVE  Spec => []LoadInv
PROOF
<1>1. Init => LoadInv
  BY LoadsInit
<1>2. LoadInv /\ [Next]_vars => LoadInv'
  <2> SUFFICES ASSUME LoadInv, [Next]_vars PROVE LoadInv'
    OBVIOUS
  <2>1. TypeOK /\ TypeOK'
    BY NextType DEF LoadInv
  <2>2. StoreTypeOK /\ StoreTypeOK'
    BY <2>1 DEF TypeOK
  <2>3. CASE Quiet
    <3>1. active' \subseteq active /\ (NetworkKept \/ PeaksFollow)
      BY <2>3 DEF Quiet, OnlyReleases, OnlyCapacities, OnlyEntries, LedgerKept, PeaksFollow
    <3> QED
      BY <2>1, <2>2, <3>1, StepKeepsLoads DEF LoadInv
  <2>4. ASSUME NEW c \in Call, Commit(c)
        PROVE  LoadInv'
    <3>1. NetworkKept /\ active' = active \cup RowsOf(c) /\ \A r \in RowsOf(c) : Admits(r)
      BY <2>1, <2>4, CommitEffects DEF Commit
    <3> QED
      BY <2>1, <2>2, <3>1, StepKeepsLoads DEF LoadInv
  <2> QED
    BY <2>1, <2>3, <2>4, NextEffects
<1> QED
  BY <1>1, <1>2, PTL DEF Spec

LEMMA InstantsType ==
  Instants \subseteq Int
PROOF
  BY RowType DEF Instants, Item

\* The active rows of a segment never exceed the largest capacity it had.
THEOREM NeverOverSubscribed ==
  ASSUME DisjointItems
  PROVE  Spec => []NoOverSubscription
PROOF
<1>1. LoadInv => NoOverSubscription
  BY InstantsType DEF LoadInv, LoadsOK, NoOverSubscription
<1> QED
  BY <1>1, LoadInvariant, PTL

\* Normal bookings leave the last Buffer half slots to emergencies.
THEOREM BufferStaysFree ==
  ASSUME DisjointItems
  PROVE  Spec => []BufferIsKept
PROOF
<1>1. LoadInv => BufferIsKept
  BY InstantsType DEF LoadInv, LoadsOK, BufferIsKept, NormalOf
<1> QED
  BY <1>1, LoadInvariant, PTL

-----------------------------------------------------------------------------
\* The refinement: a commit is a Grant, a release a Drop, a write to
\* max_capacity a Relimit, a deletion of entries a Forget; the rest stutters.

UsedKeys == {k \in Key : idem[k].status = "reserved"}

\* The instance reads requests and counts slots as this module does.
LEMMA SameVocabulary ==
  /\ \A c : Booking!KeyOf(c) = KeyOf(c) /\ Booking!RowsOf(c) = RowsOf(c)
  /\ \A r : /\ Booking!ItemOf(r) = ItemOf(r) /\ Booking!SlotsOf(r) = SlotsOf(r)
            /\ Booking!PriorityOf(r) = PriorityOf(r)
  /\ \A R : Booking!SlotSum(R) = SlotSum(R)
  /\ \A n, p : Booking!EffectiveCapacity(n, p) = EffectiveCapacity(n, p)
  /\ \A R, s, t : Booking!Occupying(R, s, t) = Occupying(R, s, t)
PROOF
<1>1. \A r : /\ Booking!ItemOf(r) = ItemOf(r) /\ Booking!SlotsOf(r) = SlotsOf(r)
             /\ Booking!PriorityOf(r) = PriorityOf(r)
  BY DEF Booking!ItemOf, ItemOf, Booking!SlotsOf, SlotsOf, Booking!PriorityOf, PriorityOf
<1>2. \A R : Booking!SlotSum(R) = SlotSum(R)
  <2>1. \A R : Booking!Units(R) = Units(R)
    BY <1>1 DEF Booking!Units, Units
  <2>2. \A S : Booking!Cardinality(S) = Cardinality(S)
    BY DEF Booking!Cardinality, Cardinality
  <2> QED
    BY <2>1, <2>2 DEF Booking!SlotSum, SlotSum
<1>3. \A R, s, t : Booking!Occupying(R, s, t) = Occupying(R, s, t)
  BY <1>1 DEF Booking!Occupying, Occupying
<1>4. \A n, p : Booking!EffectiveCapacity(n, p) = EffectiveCapacity(n, p)
  BY DEF Booking!EffectiveCapacity, EffectiveCapacity
<1> QED
  BY <1>1, <1>2, <1>3, <1>4 DEF Booking!KeyOf, KeyOf, Booking!RowsOf, RowsOf

LEMMA CommitGrants ==
  ASSUME TypeOK, DisjointItems, NEW c \in Call, Commit(c)
  PROVE  Booking!Grant(c)
PROOF
<1>1. KeyOf(c) \in Key /\ KeyOf(c) \notin UsedKeys
  BY AnswerType, CommitEffects DEF UsedKeys
<1>2. active' = active \cup RowsOf(c) /\ capacity' = capacity
  BY CommitEffects DEF NetworkKept
<1>3. UsedKeys' = UsedKeys \cup {KeyOf(c)}
  <2>1. idem' = [idem EXCEPT ![KeyOf(c)] = Entry("reserved", c)]
    BY CommitEffects
  <2>2. /\ idem'[KeyOf(c)].status = "reserved"
        /\ \A k \in Key \ {KeyOf(c)} : idem'[k] = idem[k]
    BY <1>1, <2>1 DEF TypeOK, StoreTypeOK, Entry
  <2> QED
    BY <1>1, <2>2 DEF UsedKeys
<1>4. ASSUME NEW r \in RowsOf(c), NEW t \in ItemOf(r).start..(ItemOf(r).end - 1)
      PROVE  SlotSum(Occupying(active', ItemOf(r).seg, t))
               <= EffectiveCapacity(capacity'[ItemOf(r).seg], PriorityOf(r))
  <2>1. ItemOf(r) \in Item
    BY RowsOfType, RowType
  <2>2. t \in Int /\ ItemOf(r).start <= t /\ t < ItemOf(r).end
    BY <2>1 DEF Item
  <2>3. Admits(r)
    BY DEF Commit
  <2>4. Load(active \cup RowsOf(c), ItemOf(r).seg, t)
          <= EffectiveCapacity(capacity[ItemOf(r).seg], PriorityOf(r))
    BY <2>2, <2>3, AdmittedFits DEF TypeOK
  <2> QED
    BY <1>2, <2>4 DEF Load
<1>5. \A r \in RowsOf(c) : Booking!Fits(active', r)
  BY <1>2, <1>4, SameVocabulary DEF Booking!Fits
<1> QED
  BY <1>1, <1>2, <1>3, <1>5, SameVocabulary DEF Booking!Grant, UsedKeys

LEMMA QuietKeepsPromise ==
  ASSUME TypeOK, TypeOK', Quiet
  PROVE  Booking!Drop \/ Booking!Relimit \/ Booking!Forget
PROOF
<1>1. CASE OnlyReleases
  BY <1>1 DEF OnlyReleases, NetworkKept, CacheKept, Booking!Drop
<1>2. CASE OnlyCapacities
  BY <1>2 DEF OnlyCapacities, LedgerKept, CacheKept, Booking!Relimit, TypeOK, StoreTypeOK
<1>3. CASE OnlyEntries
  BY <1>3 DEF OnlyEntries, LedgerKept, NetworkKept, EntryKept, Booking!Forget
<1> QED
  BY <1>1, <1>2, <1>3 DEF Quiet

\* The single region path implements AtomicBooking: all rows or none, once for
\* a key until it is forgotten, never beyond the limit of the moment.
THEOREM ImplementsAtomicBooking ==
  ASSUME DisjointItems
  PROVE  Spec => BookingSpec
PROOF
<1>1. Init => Booking!BookingInit
  BY StoreAssumption DEF Init, StoreInit, NoEntry, Booking!BookingInit
<1>2. TypeOK /\ TypeOK' /\ [Next]_vars => [Booking!BookingNext]_(Booking!bookingVars)
  <2> SUFFICES ASSUME TypeOK, TypeOK', [Next]_vars
               PROVE  Booking!BookingNext
    OBVIOUS
  <2> QED
    BY NextEffects, CommitGrants, QuietKeepsPromise DEF Booking!BookingNext
<1> QED
  BY <1>1, <1>2, TypeCorrect, PTL DEF Spec, BookingSpec, Booking!BookingSpec
=============================================================================
