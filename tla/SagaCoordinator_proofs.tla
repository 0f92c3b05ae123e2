----------------------- MODULE SagaCoordinator_proofs -----------------------
(***************************************************************************)
(* Theorems about reserve calls across regions, for any number of calls,   *)
(* keys, segments and regions, beside single region calls, with any faults.*)
(* A key's calls are retries of one request: all of them cross or none.    *)
(***************************************************************************)
EXTENDS SagaCoordinator, Capacity_proofs

-----------------------------------------------------------------------------
(* Types *)

Places == Locations \cup {"lookup", "recover", "create", "region", "persist", "commit",
                          "entry", "short", "broken", "undo short", "undo broken"}

CallTypes ==
  /\ pc \in [Call -> Places] /\ tries \in [Call -> 0 .. MaxTxRetries]
  /\ answer \in [Call -> Answer]

RecordTypes ==
  /\ saga \in [Key -> SagaRecord] /\ found \in [Call -> SagaRecord]
  /\ booked \in [Call -> Nat] /\ undo \in [Call -> Nat]

LEMMA SagaTypeParts == SagaTypeOK <=> StoreTypeOK /\ CallTypes /\ RecordTypes
BY DEF SagaTypeOK, CallTypes, RecordTypes, Places, Locations

LEMMA SagaTypePartsNext == SagaTypeOK' <=> StoreTypeOK' /\ CallTypes' /\ RecordTypes'
BY DEF SagaTypeOK, CallTypes, RecordTypes, Places, Locations

LEMMA MoveTyped ==
  ASSUME CallTypes, NEW c \in Call,
         \/ \E l \in Places : Goto(c, l)
         \/ \E a \in Answer : Return(c, a)
  PROVE  CallTypes'
<1>1. ASSUME NEW l \in Places, Goto(c, l) PROVE CallTypes' BY <1>1 DEF CallTypes, Goto
<1>2. ASSUME NEW a \in Answer, Return(c, a) PROVE CallTypes'
  BY <1>2 DEF CallTypes, Return, Places, Locations
<1> QED BY <1>1, <1>2

\* What the answers of a call are made of.
LEMMA AnswersTyped ==
  ASSUME StoreTypeOK, NEW c \in Call
  PROVE  /\ KeyOf(c) \in Key
         /\ {Replay(KeyOf(c)), Reserved(c), Error, Invalid, Failed} \subseteq Answer
<1>1. KeyOf(c) \in Key BY SlotsAssumption DEF KeyOf
<1>2. idem[KeyOf(c)] \in [status: {"absent", "reserved", "failed"},
                          rsv: Call \cup {NoCall}, fresh: BOOLEAN]
  BY <1>1 DEF StoreTypeOK
<1>3. Replay(KeyOf(c)) \in Answer BY <1>2 DEF Replay, Answer
<1>4. {Reserved(c), Error, Invalid, Failed} \subseteq Answer
  BY DEF Answer, Reserved, Error, Invalid, Failed
<1> QED BY <1>1, <1>3, <1>4

\* A cache entry written by a call.
LEMMA EntryTyped ==
  ASSUME StoreTypeOK, NEW c \in Call, NEW st \in {"reserved", "failed"}, NEW v \in Call \cup {NoCall},
         InsertOnConflictIgnore(KeyOf(c), Entry(st, v)) \/ UNCHANGED cache,
         UNCHANGED <<network, ledger, now>>
  PROVE  StoreTypeOK'
<1>1. Entry(st, v) \in [status: {"absent", "reserved", "failed"},
                        rsv: Call \cup {NoCall}, fresh: BOOLEAN]
  BY DEF Entry
<1>2. idem' = idem \/ idem' = [idem EXCEPT ![KeyOf(c)] = Entry(st, v)]
  BY DEF InsertOnConflictIgnore, cache
<1>3. purged' = purged BY DEF InsertOnConflictIgnore, cache
<1> QED BY <1>1, <1>2, <1>3 DEF StoreTypeOK, network, ledger

\* The record of a key as the operations write it.
LEMMA RecordTyped ==
  ASSUME RecordTypes, NEW c \in Call, NEW n \in Nat,
         NEW st \in {"PENDING", "COMMITTED", "COMPENSATED", "FAILED"},
         \/ UpdateStepsAndStatus(c, n, st)
         \/ saga' = [saga EXCEPT ![KeyOf(c)] = Saga(c, st, n)]
         \/ saga' = saga
  PROVE  saga' \in [Key -> SagaRecord]
<1>0. KeyOf(c) \in Key BY SlotsAssumption DEF KeyOf
<1>1. saga[KeyOf(c)] \in SagaRecord BY <1>0 DEF RecordTypes
<1>2. [status |-> st, owner |-> saga[KeyOf(c)].owner, steps |-> n, fresh |-> saga[KeyOf(c)].fresh]
        \in SagaRecord
  BY <1>1 DEF SagaRecord
<1>3. Saga(c, st, n) \in SagaRecord BY DEF Saga, SagaRecord
<1> QED BY <1>2, <1>3 DEF RecordTypes, UpdateStepsAndStatus

LEMMA InsertTyped ==
  ASSUME StoreTypeOK, NEW c \in Call, NEW R \in SUBSET RowsOf(c), Insert(R),
         UNCHANGED <<network, cache, now>>
  PROVE  StoreTypeOK'
BY RowsOfType DEF StoreTypeOK, Insert, network, cache

LEMMA UndoTyped ==
  ASSUME StoreTypeOK, RecordTypes, NEW c \in Call, NEW o, CompensateStep(c, o)
  PROVE  StoreTypeOK' /\ RecordTypes'
<1>1. UNCHANGED ledger \/ Release(RowsOf(o)) BY DEF CompensateStep
<1>2. UNCHANGED <<network, cache, now>> BY DEF CompensateStep
<1>3. StoreTypeOK' BY <1>1, <1>2, ReleaseType, UnchangedType DEF storeVars
<1>4. undo' = [undo EXCEPT ![c] = undo[c] - 1] /\ undo[c] - 1 \in Nat
  BY DEF CompensateStep, RecordTypes
<1> QED BY <1>3, <1>4 DEF RecordTypes, CompensateStep

LEMMA SagaStepTyped ==
  ASSUME SagaTypeOK, NEW c \in Call, SagaStep(c)
  PROVE  SagaTypeOK'
<1> USE DEF Places, Locations
<1>0. StoreTypeOK /\ CallTypes /\ RecordTypes BY SagaTypeParts
<1>k. KeyOf(c) \in Key BY SlotsAssumption DEF KeyOf
<1>a. {Replay(KeyOf(c)), Reserved(c), Error, Invalid, Failed} \subseteq Answer BY <1>0, AnswersTyped
<1>b. booked[c] \in Nat BY <1>0 DEF RecordTypes
<1>s. UNCHANGED storeVars => StoreTypeOK' BY <1>0, UnchangedType
<1>r. UNCHANGED sagaVars => RecordTypes' BY <1>0 DEF sagaVars, RecordTypes
<1>n. NoSaga \in SagaRecord BY DEF NoSaga, SagaRecord
<1> SUFFICES StoreTypeOK' /\ CallTypes' /\ RecordTypes' BY SagaTypePartsNext
<1>1. CASE SagaReserve(c)
  BY <1>0, <1>1, <1>a, <1>s, <1>r, MoveTyped DEF SagaReserve
<1>2. CASE GetByIdempotencyKey(c)
  <2> DEFINE s == IF saga[KeyOf(c)].fresh THEN saga[KeyOf(c)] ELSE NoSaga
  <2>1. s \in SagaRecord BY <1>0, <1>k, <1>n DEF RecordTypes
  <2>2. s.steps \in Nat BY <2>1 DEF SagaRecord
  <2>3. /\ found' = found \/ found' = [found EXCEPT ![c] = s]
        /\ undo' = undo \/ undo' = [undo EXCEPT ![c] = s.steps]
        /\ saga' = saga /\ booked' = booked
    BY <1>2 DEF GetByIdempotencyKey
  <2>4. RecordTypes' BY <1>0, <2>1, <2>2, <2>3 DEF RecordTypes
  <2>5. CallTypes' BY <1>0, <1>2, <1>a, MoveTyped DEF GetByIdempotencyKey
  <2> QED BY <1>2, <1>s, <2>4, <2>5 DEF GetByIdempotencyKey
<1>3. CASE RecoverStep(c)
  BY <1>0, <1>3, UndoTyped DEF RecoverStep, txVars, CallTypes
<1>4. CASE RecoverDone(c)
  <2>1. found[c].steps \in Nat BY <1>0 DEF RecordTypes, SagaRecord
  <2>2. saga' \in [Key -> SagaRecord] BY <1>0, <1>4, <2>1, RecordTyped DEF RecoverDone
  <2> QED BY <1>0, <1>4, <1>s, <2>2, MoveTyped DEF RecoverDone, RecordTypes
<1>5. CASE Create(c)
  <2>1. saga' \in [Key -> SagaRecord] BY <1>0, <1>5, RecordTyped DEF Create
  <2>2. CallTypes' BY <1>0, <1>5, <1>a, MoveTyped DEF Create
  <2> QED BY <1>0, <1>5, <1>s, <2>1, <2>2 DEF Create, RecordTypes
<1>6. CASE RegionCommit(c)
  <2>1. RegionRows(c) \in SUBSET RowsOf(c) BY DEF RegionRows, Part
  <2>2. StoreTypeOK' BY <1>0, <1>6, <2>1, InsertTyped DEF RegionCommit
  <2>3. CallTypes' BY <1>0, <1>6, MoveTyped DEF RegionCommit
  <2>4. RecordTypes' BY <1>0, <1>6, <1>b DEF RegionCommit, RecordTypes
  <2> QED BY <2>2, <2>3, <2>4
<1>7. CASE RegionRefuse(c) BY <1>0, <1>7, <1>s, <1>r, MoveTyped DEF RegionRefuse
<1>8. CASE RegionError(c) BY <1>0, <1>8, <1>s, <1>r, MoveTyped DEF RegionError
<1>9. CASE PersistStep(c)
  <2>1. saga' \in [Key -> SagaRecord] BY <1>0, <1>9, <1>b, RecordTyped DEF PersistStep
  <2>2. CallTypes' BY <1>0, <1>9, MoveTyped DEF PersistStep
  <2> QED BY <1>0, <1>9, <1>s, <2>1, <2>2 DEF PersistStep, RecordTypes
<1>10. CASE MarkCommitted(c)
  <2>1. saga' \in [Key -> SagaRecord] BY <1>0, <1>10, <1>b, RecordTyped DEF MarkCommitted
  <2>2. CallTypes' BY <1>0, <1>10, MoveTyped DEF MarkCommitted
  <2> QED BY <1>0, <1>10, <1>s, <2>1, <2>2 DEF MarkCommitted, RecordTypes
<1>11. CASE WriteEntry(c)
  <2>1. StoreTypeOK' BY <1>0, <1>11, EntryTyped DEF WriteEntry
  <2>2. CallTypes' BY <1>0, <1>11, <1>a, MoveTyped DEF WriteEntry
  <2> QED BY <1>11, <1>r, <2>1, <2>2 DEF WriteEntry
<1>12. CASE MarkUndone(c)
  <2>1. saga' \in [Key -> SagaRecord] BY <1>0, <1>12, <1>b, RecordTyped DEF MarkUndone
  <2>2. CallTypes' BY <1>0, <1>12, MoveTyped DEF MarkUndone
  <2> QED BY <1>0, <1>12, <1>b, <1>s, <2>1, <2>2 DEF MarkUndone, RecordTypes
<1>13. CASE UndoStep(c)
  BY <1>0, <1>13, UndoTyped DEF UndoStep, txVars, CallTypes
<1>14. CASE UndoDone(c) BY <1>0, <1>14, <1>a, <1>s, <1>r, MoveTyped DEF UndoDone
<1>15. CASE ReplayWinner(c) /\ UNCHANGED sagaVars
  BY <1>0, <1>15, <1>a, <1>s, <1>r, MoveTyped DEF ReplayWinner
<1>16. CASE RecordRefusal(c) /\ UNCHANGED sagaVars
  <2>1. StoreTypeOK' BY <1>0, <1>16, EntryTyped DEF RecordRefusal
  <2>2. CallTypes' BY <1>0, <1>16, <1>a, MoveTyped DEF RecordRefusal
  <2> QED BY <1>16, <1>r, <2>1, <2>2
<1> QED BY <1>1, <1>2, <1>3, <1>4, <1>5, <1>6, <1>7, <1>8, <1>9, <1>10, <1>11, <1>12, <1>13,
           <1>14, <1>15, <1>16 DEF SagaStep

\* A step of a call within one region, beside the sagas.
LEMMA SingleStepTyped ==
  ASSUME SagaTypeOK, NEW c \in Call, Step(c), UNCHANGED sagaVars
  PROVE  SagaTypeOK'
<1> USE DEF Places, Locations
<1>0. StoreTypeOK /\ CallTypes /\ RecordTypes BY SagaTypeParts
<1>a. {Replay(KeyOf(c)), Reserved(c), Error, Invalid, Failed} \subseteq Answer BY <1>0, AnswersTyped
<1>s. UNCHANGED storeVars => StoreTypeOK' BY <1>0, UnchangedType
<1>r. RecordTypes' BY <1>0 DEF sagaVars, RecordTypes
<1> SUFFICES StoreTypeOK' /\ CallTypes' BY <1>r, SagaTypePartsNext
<1>1. CASE Reserve(c)
  <2>1. \/ Return(c, Invalid) \/ Return(c, Replay(KeyOf(c)))
        \/ Goto(c, "tx") \/ Return(c, Error)
    BY <1>1 DEF Reserve
  <2> QED BY <1>0, <1>1, <1>a, <1>s, <2>1, MoveTyped DEF Reserve
<1>2. CASE RecheckReplays(c) BY <1>0, <1>2, <1>a, <1>s, MoveTyped DEF RecheckReplays
<1>3. CASE Refuse(c) BY <1>0, <1>3, <1>s, MoveTyped DEF Refuse
<1>4. CASE Commit(c)
  <2>1. Entry("reserved", c) \in [status: {"absent", "reserved", "failed"},
                                  rsv: Call \cup {NoCall}, fresh: BOOLEAN]
    BY DEF Entry
  <2>2. StoreTypeOK' BY <1>0, <1>4, <2>1, RowsOfType DEF Commit, Insert, StoreTypeOK, network
  <2>3. CallTypes' BY <1>0, <1>4, <1>a, MoveTyped DEF Commit
  <2> QED BY <2>2, <2>3
<1>5. CASE UniqueViolation(c) BY <1>0, <1>5, <1>s, MoveTyped DEF UniqueViolation
<1>6. CASE Restart(c)
  <2>1. CASE tries[c] < MaxTxRetries
    <3>0. tries[c] \in 0 .. MaxTxRetries BY <1>0 DEF CallTypes
    <3>1. tries[c] + 1 \in 0 .. MaxTxRetries BY <2>1, <3>0, TxAssumption
    <3>2. tries' = [tries EXCEPT ![c] = tries[c] + 1] /\ UNCHANGED <<pc, answer>>
      BY <1>6, <2>1 DEF Restart
    <3>3. CallTypes' BY <1>0, <3>1, <3>2 DEF CallTypes
    <3> QED BY <1>6, <1>s, <3>3 DEF Restart
  <2>2. CASE ~(tries[c] < MaxTxRetries) BY <1>0, <1>6, <1>a, <1>s, <2>2, MoveTyped DEF Restart
  <2> QED BY <2>1, <2>2
<1>7. CASE TxError(c) BY <1>0, <1>7, <1>a, <1>s, MoveTyped DEF TxError
<1>8. CASE RecordRefusal(c)
  <2>1. StoreTypeOK' BY <1>0, <1>8, EntryTyped DEF RecordRefusal
  <2>2. CallTypes' BY <1>0, <1>8, <1>a, MoveTyped DEF RecordRefusal
  <2> QED BY <2>1, <2>2
<1>9. CASE ReplayWinner(c) BY <1>0, <1>9, <1>a, <1>s, MoveTyped DEF ReplayWinner
<1> QED BY <1>1, <1>2, <1>3, <1>4, <1>5, <1>6, <1>7, <1>8, <1>9 DEF Step

LEMMA SagaNextTyped ==
  ASSUME SagaTypeOK, [SagaNext]_allVars
  PROVE  SagaTypeOK'
<1> USE DEF Places, Locations
<1>0. StoreTypeOK /\ CallTypes /\ RecordTypes BY SagaTypeParts
<1>r. UNCHANGED sagaVars => RecordTypes' BY <1>0 DEF sagaVars, RecordTypes
<1>t. UNCHANGED txVars => CallTypes' BY <1>0 DEF txVars, CallTypes
<1>s. UNCHANGED storeVars => StoreTypeOK' BY <1>0, UnchangedType
<1>1. ASSUME NEW c \in Call, CallStep(c) PROVE SagaTypeOK'
  BY <1>1, SagaStepTyped, SingleStepTyped DEF CallStep
<1>2. ASSUME NEW k \in Key, ExpireSaga(k) PROVE SagaTypeOK'
  <2>1. StoreTypeOK'
    <3>1. idem' = [idem EXCEPT ![k].fresh = FALSE] /\ UNCHANGED <<purged, network, ledger, now>>
      BY <1>2 DEF ExpireSaga
    <3> QED BY <1>0, <3>1 DEF StoreTypeOK, network, ledger
  <2>2. saga' \in [Key -> SagaRecord]
    <3>1. saga' = [saga EXCEPT ![k].fresh = FALSE] BY <1>2 DEF ExpireSaga
    <3> QED BY <1>0, <3>1 DEF RecordTypes, SagaRecord
  <2>3. UNCHANGED <<txVars, found, booked, undo>> BY <1>2 DEF ExpireSaga
  <2> QED BY <1>0, <1>t, <2>1, <2>2, <2>3, SagaTypePartsNext DEF RecordTypes
<1>3. ASSUME NEW c \in Call, Crash(c), UNCHANGED sagaVars PROVE SagaTypeOK'
  BY <1>0, <1>3, <1>r, <1>s, MoveTyped, SagaTypePartsNext DEF Crash
<1>4. ASSUME NEW k \in Key, ExpireIdle(k), UNCHANGED sagaVars PROVE SagaTypeOK'
  <2>1. idem' = [idem EXCEPT ![k].fresh = FALSE] /\ UNCHANGED <<purged, network, ledger, now>>
    BY <1>4 DEF ExpireIdle, ExpireEntry
  <2>2. StoreTypeOK' BY <1>0, <2>1 DEF StoreTypeOK, network, ledger
  <2> QED BY <1>4, <1>r, <1>t, <2>2, SagaTypePartsNext DEF ExpireIdle
<1>5. ASSUME NEW j \in Journey, JourneyEnds(j), UNCHANGED sagaVars PROVE SagaTypeOK'
  <2>1. StoreTypeOK' BY <1>0, <1>5, ReleaseType DEF JourneyEnds, ReleaseByJourneyID
  <2> QED BY <1>5, <1>r, <1>t, <2>1, SagaTypePartsNext DEF JourneyEnds
<1>6. CASE StoreNext /\ UNCHANGED txVars /\ UNCHANGED sagaVars
  BY <1>0, <1>6, <1>r, <1>t, StoreStepType, SagaTypePartsNext
<1>7. CASE UNCHANGED allVars
  BY <1>7, <1>r, <1>s, <1>t, SagaTypePartsNext DEF allVars, vars
<1> QED BY <1>1, <1>2, <1>3, <1>4, <1>5, <1>6, <1>7 DEF SagaNext, Environment

LEMMA SagaInitTyped == SagaInit => SagaTypeOK
<1> SUFFICES ASSUME SagaInit PROVE SagaTypeOK OBVIOUS
<1>1. TypeOK BY InitType DEF SagaInit
<1>2. NoSaga \in SagaRecord BY DEF NoSaga, SagaRecord
<1>3. RecordTypes BY <1>2 DEF SagaInit, RecordTypes
<1>4. StoreTypeOK /\ CallTypes BY <1>1 DEF TypeOK, CallTypes, Places, Locations
<1> QED BY <1>3, <1>4, SagaTypeParts

\* The state of every call, record and entry is one the code knows.
THEOREM SagaTypesHold == SagaSpec => []SagaTypeOK
BY SagaInitTyped, SagaNextTyped, PTL DEF SagaSpec

-----------------------------------------------------------------------------
(* Regions in their order *)

Below(G, g) == {h \in G : h < g}
Above(G, g) == {h \in G : h > g}

LEMMA GreatestExists ==
  ASSUME NEW G \in SUBSET Nat, IsFiniteSet(G), G # {}
  PROVE  \E m \in G : \A h \in G : h <= m
<1> DEFINE T == {Above(G, x) : x \in G}
<1>1. T \subseteq FiniteSubsetsOf(G) /\ T # {}
  <2>1. ASSUME NEW x \in G PROVE Above(G, x) \in FiniteSubsetsOf(G)
    BY FS_Subset DEF Above, FiniteSubsetsOf
  <2> QED BY <2>1
<1>2. PICK A \in T : \A B \in T : <<B, A>> \notin StrictSubsetOrdering(G)
  <2>1. IsWellFoundedOn(StrictSubsetOrdering(G), FiniteSubsetsOf(G))
    BY FS_StrictSubsetOrderingWellFounded
  <2> HIDE DEF T
  <2> QED BY <1>1, <2>1, WFMin
<1>3. PICK m \in G : A = Above(G, m) OBVIOUS
<1>4. ASSUME NEW h \in G, h > m PROVE FALSE
  <2>0. ASSUME NEW x \in G, x > h PROVE x > m
    <3>1. x \in Nat /\ h \in Nat /\ m \in Nat OBVIOUS
    <3> QED BY <1>4, <2>0, <3>1
  <2>1. Above(G, h) \subseteq Above(G, m) BY <2>0 DEF Above
  <2>2. h \in Above(G, m) /\ h \notin Above(G, h) BY <1>4 DEF Above
  <2>3. <<Above(G, h), A>> \in StrictSubsetOrdering(G)
    BY <1>3, <2>1, <2>2 DEF StrictSubsetOrdering, Above
  <2> QED BY <1>2, <2>3
<1>5. \A h \in G : h <= m BY <1>4
<1> QED BY <1>5

LEMMA LeastExists ==
  ASSUME NEW G \in SUBSET Nat, IsFiniteSet(G), G # {}
  PROVE  \E m \in G : \A h \in G : m <= h
<1> DEFINE T == {Below(G, x) : x \in G}
<1>1. T \subseteq FiniteSubsetsOf(G) /\ T # {}
  <2>1. ASSUME NEW x \in G PROVE Below(G, x) \in FiniteSubsetsOf(G)
    BY FS_Subset DEF Below, FiniteSubsetsOf
  <2> QED BY <2>1
<1>2. PICK A \in T : \A B \in T : <<B, A>> \notin StrictSubsetOrdering(G)
  <2>1. IsWellFoundedOn(StrictSubsetOrdering(G), FiniteSubsetsOf(G))
    BY FS_StrictSubsetOrderingWellFounded
  <2> HIDE DEF T
  <2> QED BY <1>1, <2>1, WFMin
<1>3. PICK m \in G : A = Below(G, m) OBVIOUS
<1>4. ASSUME NEW h \in G, h < m PROVE FALSE
  <2>0. ASSUME NEW x \in G, x < h PROVE x < m
    <3>1. x \in Nat /\ h \in Nat /\ m \in Nat OBVIOUS
    <3> QED BY <1>4, <2>0, <3>1
  <2>1. Below(G, h) \subseteq Below(G, m) BY <2>0 DEF Below
  <2>2. h \in Below(G, m) /\ h \notin Below(G, h) BY <1>4 DEF Below
  <2>3. <<Below(G, h), A>> \in StrictSubsetOrdering(G)
    BY <1>3, <2>1, <2>2 DEF StrictSubsetOrdering, Below
  <2> QED BY <1>2, <2>3
<1>5. \A h \in G : m <= h BY <1>4
<1> QED BY <1>5

\* A rank that no element has is above the ranks of all: the least element
\* with a higher one has a predecessor whose rank is one less.
LEMMA RanksHaveNoGap ==
  ASSUME NEW G \in SUBSET Nat, IsFiniteSet(G), NEW n \in Nat,
         \A g \in G : Cardinality(Below(G, g)) # n
  PROVE  \A g \in G : Cardinality(Below(G, g)) < n
<1>1. \A g \in G : IsFiniteSet(Below(G, g)) /\ Cardinality(Below(G, g)) \in Nat
  <2> TAKE g \in G
  <2>1. IsFiniteSet(Below(G, g)) BY FS_Subset DEF Below
  <2> QED BY <2>1, FS_CardinalityType
<1> DEFINE H == {g \in G : Cardinality(Below(G, g)) > n}
<1>2. SUFFICES ASSUME H # {} PROVE FALSE
  BY <1>1
<1>3. PICK g \in H : \A h \in H : g <= h
  <2>1. H \in SUBSET Nat /\ IsFiniteSet(H) BY FS_Subset
  <2> HIDE DEF H
  <2> QED BY <1>2, <2>1, LeastExists
<1>4. Below(G, g) # {}
  <2>1. Cardinality({}) = 0 BY FS_EmptySet
  <2> QED BY <2>1
<1>5. PICK m \in Below(G, g) : \A h \in Below(G, g) : h <= m
  <2>1. Below(G, g) \in SUBSET Nat BY DEF Below
  <2> QED BY <1>1, <1>4, <2>1, GreatestExists
<1>6. m \in G /\ m < g BY DEF Below
<1>7. Cardinality(Below(G, m)) < n BY <1>1, <1>3, <1>6
<1>8. Below(G, g) = Below(G, m) \cup {m}
  <2>1. g \in Nat /\ m \in Nat /\ \A x \in G : x \in Nat BY <1>6
  <2>2. ASSUME NEW x \in Below(G, g) PROVE x < m \/ x = m BY <1>5, <2>1 DEF Below
  <2>3. Below(G, g) \subseteq Below(G, m) \cup {m} BY <2>2 DEF Below
  <2>4. ASSUME NEW x \in G, x < m PROVE x < g
    <3>1. x \in Nat BY <2>1
    <3> QED BY <1>6, <2>1, <2>4, <3>1
  <2>5. Below(G, m) \cup {m} \subseteq Below(G, g) BY <1>6, <2>4 DEF Below
  <2> QED BY <2>3, <2>5
<1>9. Cardinality(Below(G, g)) <= Cardinality(Below(G, m)) + 1
  <2>1. IsFiniteSet(Below(G, m)) /\ Cardinality(Below(G, m)) \in Nat BY <1>1, <1>6
  <2>2. Cardinality(Below(G, m) \cup {m}) =
          IF m \in Below(G, m) THEN Cardinality(Below(G, m)) ELSE Cardinality(Below(G, m)) + 1
    BY <2>1, FS_AddElement
  <2> QED BY <1>8, <2>1, <2>2
<1> QED BY <1>1, <1>3, <1>6, <1>7, <1>9

\* Which of the regions of its request a row lies in, counted from 0.
Rank(r) == Cardinality({g \in RegionsOf(RowsOf(r.call)) : g < RegionOf[ItemOf(r).seg]})

\* The loop over the regions ends when no row lies in the next one.
LEMMA RegionsEnd ==
  ASSUME NEW c \in Call, NEW n \in Nat, {r \in RowsOf(c) : Rank(r) = n} = {}
  PROVE  \A r \in RowsOf(c) : Rank(r) < n
<1> DEFINE G == RegionsOf(RowsOf(c))
           f == [r \in RowsOf(c) |-> RegionOf[ItemOf(r).seg]]
<1>1. \A r \in RowsOf(c) : r.call = c /\ RegionOf[ItemOf(r).seg] \in Nat
  <2>1. \A r \in RowsOf(c) : ItemOf(r).seg \in Segment BY RowsOfType, RowType DEF Item
  <2> QED BY <2>1, SagaAssumption DEF RowsOf
<1>2. G \in SUBSET Nat BY <1>1 DEF RegionsOf
<1>3. IsFiniteSet(G)
  <2>1. f \in Surjection(RowsOf(c), G) BY DEF RegionsOf, Surjection
  <2> HIDE DEF f, G
  <2> QED BY <2>1, RowsOfFinite, FS_Surjection
<1>4. \A r \in RowsOf(c) : Rank(r) = Cardinality(Below(G, RegionOf[ItemOf(r).seg]))
  BY <1>1 DEF Rank, Below
<1>5. \A g \in G : \E r \in RowsOf(c) : g = RegionOf[ItemOf(r).seg] BY DEF RegionsOf
<1>6. \A g \in G : Cardinality(Below(G, g)) # n BY <1>4, <1>5
<1>7. \A r \in RowsOf(c) : RegionOf[ItemOf(r).seg] \in G BY DEF RegionsOf
<1> HIDE DEF G
<1>8. \A g \in G : Cardinality(Below(G, g)) < n BY <1>2, <1>3, <1>6, RanksHaveNoGap
<1> QED BY <1>4, <1>7, <1>8

-----------------------------------------------------------------------------
(* The invariant *)

\* Retries send the request of the first attempt again.
RetriesAgree ==
  \A c, d \in Call : KeyOf(c) = KeyOf(d) => (CrossRegion(c) <=> CrossRegion(d))

Owning == {"region", "persist", "commit", "entry", "short", "broken", "undo short", "undo broken"}
Owns(c) == saga[KeyOf(c)].owner = c /\ saga[KeyOf(c)].status # "none"

Definite(a) == a.status \in {"reserved", "failed"}

\* The owner of the record of k answered a.
Settled(k, a) ==
  /\ saga[k].status # "none" /\ saga[k].owner \in SagaCalls
  /\ KeyOf(saga[k].owner) = k /\ answer[saga[k].owner] = a

\* Only the owner reserves and comes to an answer of its own.
OwnerActs(c) ==
  /\ pc[c] \in Owning \cup {"refused"} => Owns(c)
  /\ \A r \in Stored : r.call = c => Owns(c)
  /\ pc[c] # "tx"
  /\ answer[c].status # "none" => pc[c] = "done"
  /\ Definite(answer[c]) => Settled(KeyOf(c), answer[c])

\* What is counted as booked is stored, and all of it once there is no more.
BookedIsStored(c) ==
  /\ \A r \in RowsOf(c) : Rank(r) < booked[c] => r \in Stored
  /\ pc[c] \in {"commit", "entry"} => RowsOf(c) \subseteq Stored

\* What is stored is counted, unless a commit's answer got lost.
StoredIsBooked(c) ==
  pc[c] \in {"region", "persist", "short", "undo short"} =>
    \A r \in Stored : r.call = c => Rank(r) < booked[c]

\* A refusal leaves nothing active, when releases do what they should.
RefusedIsReleased(c) ==
  "release" \notin Faults =>
    /\ pc[c] = "undo short" => undo[c] = booked[c] \/ RowsOf(c) \cap active = {}
    /\ pc[c] = "refused" \/ (answer[c].status = "failed" /\ Owns(c)) => RowsOf(c) \cap active = {}

SagaCallOK(c) ==
  OwnerActs(c) /\ BookedIsStored(c) /\ StoredIsBooked(c) /\ RefusedIsReleased(c)

CrossKey(k) == \E c \in SagaCalls : KeyOf(c) = k

KeyOK(k) ==
  /\ CrossKey(k) /\ idem[k].status # "absent" => Settled(k, Replay(k))
  /\ saga[k].status = "COMMITTED" => RowsOf(saga[k].owner) \subseteq Stored

SagaInv ==
  /\ SagaTypeOK
  /\ \A c \in SagaCalls : SagaCallOK(c)
  /\ \A k \in Key : KeyOK(k)

LEMMA SagaInvTypes ==
  ASSUME SagaInv
  PROVE  /\ StoreTypeOK /\ CallTypes /\ RecordTypes
         /\ pc \in [Call -> Places] /\ answer \in [Call -> Answer]
         /\ saga \in [Key -> SagaRecord] /\ booked \in [Call -> Nat] /\ undo \in [Call -> Nat]
         /\ \A c \in Call : KeyOf(c) \in Key
         /\ \A c \in SagaCalls : c \in Call /\ CrossRegion(c)
<1>1. \A c \in Call : KeyOf(c) \in Key BY SlotsAssumption DEF KeyOf
<1> QED BY <1>1, SagaTypeParts DEF SagaInv, CallTypes, RecordTypes, SagaCalls

-----------------------------------------------------------------------------
(* What a step leaves to those who do not take it *)

RecordKept(k) ==
  saga[k].status = "none" \/ (saga'[k].owner = saga[k].owner /\ saga'[k].status # "none")

AnswersStay == \A d \in SagaCalls : answer[d].status # "none" => answer'[d] = answer[d]

RowsApart(c) ==
  \A r : r.call = c => (r \in Stored' <=> r \in Stored) /\ (r \in active' => r \in active)

Apart(c) ==
  /\ pc'[c] = pc[c] /\ answer'[c] = answer[c] /\ booked'[c] = booked[c] /\ undo'[c] = undo[c]
  /\ RowsApart(c)

EntryStays(k) ==
  \/ idem'[k].status = "absent"
  \/ idem'[k].status = idem[k].status /\ idem'[k].rsv = idem[k].rsv

LEMMA SettledStays ==
  ASSUME NEW k \in Key, NEW a, a.status # "none", Settled(k, a), RecordKept(k), AnswersStay
  PROVE  Settled(k, a)'
BY DEF Settled, RecordKept, AnswersStay

LEMMA ApartStays ==
  ASSUME SagaInv, NEW c \in SagaCalls, RecordKept(KeyOf(c)), AnswersStay, Apart(c)
  PROVE  SagaCallOK(c)'
<1>0. KeyOf(c) \in Key /\ SagaCallOK(c) BY SagaInvTypes DEF SagaInv
<1>1. /\ \A r : r.call = c => (r \in Stored' <=> r \in Stored) /\ (r \in active' => r \in active)
      /\ pc'[c] = pc[c] /\ answer'[c] = answer[c] /\ booked'[c] = booked[c] /\ undo'[c] = undo[c]
  BY DEF Apart, RowsApart
<1>r. \A r \in RowsOf(c) : r.call = c BY DEF RowsOf
<1>o. Owns(c) => Owns(c)' BY DEF Owns, RecordKept
<1>2. OwnerActs(c)'
  <2>1. ASSUME Definite(answer[c]) PROVE Settled(KeyOf(c), answer[c])'
    <3>1. PICK a : a = answer[c] OBVIOUS
    <3>2. a.status # "none" /\ Settled(KeyOf(c), a) BY <1>0, <2>1, <3>1 DEF Definite, SagaCallOK, OwnerActs
    <3>3. Settled(KeyOf(c), a)' BY <1>0, <3>2, SettledStays
    <3> QED BY <1>1, <3>1, <3>3 DEF Settled
  <2> QED BY <1>0, <1>1, <1>o, <2>1 DEF SagaCallOK, OwnerActs, Settled
<1>3. BookedIsStored(c)' BY <1>0, <1>1, <1>r DEF SagaCallOK, BookedIsStored, Rank
<1>4. StoredIsBooked(c)' BY <1>0, <1>1 DEF SagaCallOK, StoredIsBooked, Rank
<1>5. RefusedIsReleased(c)'
  <2>1. ASSUME answer[c].status = "failed", Owns(c)' PROVE Owns(c)
    <3>1. saga[KeyOf(c)].status # "none"
      BY <1>0, <2>1 DEF SagaCallOK, OwnerActs, Definite, Settled
    <3> QED BY <2>1, <3>1 DEF Owns, RecordKept
  <2>2. RowsOf(c) \cap active = {} => RowsOf(c) \cap active' = {} BY <1>1, <1>r
  <2> QED BY <1>0, <1>1, <2>1, <2>2 DEF SagaCallOK, RefusedIsReleased
<1> QED BY <1>2, <1>3, <1>4, <1>5 DEF SagaCallOK

LEMMA KeyStays ==
  ASSUME SagaInv, NEW k \in Key, RecordKept(k), AnswersStay, Stored \subseteq Stored',
         CrossKey(k) => EntryStays(k),
         saga'[k].status = "COMMITTED" => saga[k].status = "COMMITTED"
  PROVE  KeyOK(k)'
<1>0. KeyOK(k) BY DEF SagaInv
<1>1. ASSUME CrossKey(k), idem'[k].status # "absent" PROVE Settled(k, Replay(k))'
  <2>1. idem'[k].status = idem[k].status /\ idem'[k].rsv = idem[k].rsv BY <1>1 DEF EntryStays
  <2>2. Settled(k, Replay(k)) BY <1>0, <1>1, <2>1 DEF KeyOK
  <2>3. PICK a : a = Replay(k) OBVIOUS
  <2>4. a.status # "none"
    <3>1. idem[k].status \in {"absent", "reserved", "failed"}
      BY SagaInvTypes DEF StoreTypeOK
    <3> QED BY <2>3, <3>1 DEF Replay
  <2>5. Settled(k, a)' BY <2>2, <2>3, <2>4, SettledStays
  <2>6. Replay(k)' = a BY <2>1, <2>3 DEF Replay
  <2> QED BY <2>5, <2>6 DEF Settled
<1>2. saga'[k].status = "COMMITTED" => RowsOf(saga'[k].owner) \subseteq Stored'
  BY <1>0 DEF KeyOK, RecordKept
<1> QED BY <1>1, <1>2 DEF KeyOK, CrossKey

\* Rows that are released stay stored, and a step of a call only adds its own.
LEMMA LedgerStep ==
  ASSUME NEW c, NEW R,
         \/ UNCHANGED ledger
         \/ Release(R)
         \/ Insert(R) /\ \A r \in R : r.call = c
  PROVE  /\ Stored \subseteq Stored' /\ \A d : d # c => RowsApart(d)
         /\ ~Insert(R) => Stored' = Stored /\ active' \subseteq active
BY DEF Stored, Release, Insert, ledger, RowsApart

\* The calls that do not take a step of a saga.
LEMMA SagaStepFrame ==
  ASSUME SagaInv, NEW c \in SagaCalls, SagaStep(c)
  PROVE  /\ pc[c] # "done" /\ answer[c].status = "none"
         /\ \A d \in Call \ {c} : /\ pc'[d] = pc[d] /\ answer'[d] = answer[d]
                                  /\ booked'[d] = booked[d] /\ undo'[d] = undo[d]
         /\ \A d \in SagaCalls \ {c} : Apart(d)
         /\ AnswersStay /\ Stored \subseteq Stored'
<1>0. /\ pc \in [Call -> Places] /\ answer \in [Call -> Answer]
      /\ booked \in [Call -> Nat] /\ undo \in [Call -> Nat] /\ c \in Call
      /\ SagaCallOK(c)
  BY SagaInvTypes DEF SagaInv
<1>1. pc[c] # "done" /\ pc[c] # "tx"
  BY DEF SagaStep, SagaReserve, GetByIdempotencyKey, RecoverStep, RecoverDone, Create,
         RegionCommit, RegionRefuse, RegionError, PersistStep, MarkCommitted, WriteEntry,
         MarkUndone, UndoStep, UndoDone, ReplayWinner, RecordRefusal
<1>2. answer[c].status = "none" BY <1>0, <1>1 DEF SagaCallOK, OwnerActs
<1>3. \/ \E l : Goto(c, l)
      \/ \E a : Return(c, a)
      \/ UNCHANGED txVars
  BY DEF SagaStep, SagaReserve, GetByIdempotencyKey, RecoverStep, RecoverDone, Create,
         RegionCommit, RegionRefuse, RegionError, PersistStep, MarkCommitted, WriteEntry,
         MarkUndone, UndoStep, UndoDone, ReplayWinner, RecordRefusal
<1>4. \A d \in Call \ {c} : pc'[d] = pc[d] /\ answer'[d] = answer[d]
  BY <1>0, <1>3 DEF Goto, Return, txVars
<1>5. /\ booked' = booked \/ booked' = [booked EXCEPT ![c] = booked[c] + 1]
      /\ undo' = undo \/ \E n : undo' = [undo EXCEPT ![c] = n]
  BY DEF SagaStep, SagaReserve, GetByIdempotencyKey, RecoverStep, RecoverDone, Create,
         RegionCommit, RegionRefuse, RegionError, PersistStep, MarkCommitted, WriteEntry,
         MarkUndone, UndoStep, UndoDone, CompensateStep, sagaVars
<1>6. \A d \in Call \ {c} : booked'[d] = booked[d] /\ undo'[d] = undo[d]
  BY <1>0, <1>5
<1>7. \E R : \/ UNCHANGED ledger
             \/ Release(R)
             \/ Insert(R) /\ \A r \in R : r.call = c
  <2>1. \A r \in RegionRows(c) : r.call = c BY DEF RegionRows, Part, RowsOf
  <2> QED
    BY <2>1 DEF SagaStep, SagaReserve, GetByIdempotencyKey, RecoverStep, RecoverDone, Create,
         RegionCommit, RegionRefuse, RegionError, PersistStep, MarkCommitted, WriteEntry,
         MarkUndone, UndoStep, UndoDone, CompensateStep, ReplayWinner, RecordRefusal, storeVars
<1>8. Stored \subseteq Stored' /\ \A d : d # c => RowsApart(d) BY <1>7, LedgerStep
<1>9. \A d \in SagaCalls \ {c} : Apart(d)
  BY <1>4, <1>6, <1>8 DEF Apart, SagaCalls
<1>10. AnswersStay
  BY <1>2, <1>4 DEF AnswersStay, SagaCalls
<1> QED BY <1>1, <1>2, <1>4, <1>6, <1>8, <1>9, <1>10

\* The record a call writes is that of its key, and keeps its owner once it has
\* one.
LEMMA RecordsKept ==
  ASSUME SagaInv, NEW c \in SagaCalls, SagaStep(c)
  PROVE  /\ \A k \in Key : RecordKept(k)
         /\ \A k \in Key \ {KeyOf(c)} : saga'[k] = saga[k]
<1>0. saga \in [Key -> SagaRecord] /\ KeyOf(c) \in Key BY SagaInvTypes
<1>1. \/ saga' = saga
      \/ \E n, st : /\ st # "none"
                    /\ saga' = [saga EXCEPT ![KeyOf(c)] =
                         [status |-> st, owner |-> saga[KeyOf(c)].owner,
                          steps |-> n, fresh |-> saga[KeyOf(c)].fresh]]
      \/ /\ saga[KeyOf(c)].status = "none"
         /\ saga' = [saga EXCEPT ![KeyOf(c)] = Saga(c, "PENDING", 0)]
  BY DEF SagaStep, SagaReserve, GetByIdempotencyKey, RecoverStep, RecoverDone, Create,
         RegionCommit, RegionRefuse, RegionError, PersistStep, MarkCommitted, WriteEntry,
         MarkUndone, UndoStep, UndoDone, CompensateStep, UpdateStepsAndStatus, sagaVars
<1> QED BY <1>0, <1>1 DEF RecordKept

\* A call that goes on to a place where it neither owns nor answers.
LEMMA Wanders ==
  ASSUME SagaInv, NEW c \in SagaCalls, SagaStep(c), UNCHANGED ledger, booked' = booked,
         pc'[c] \notin Owning \cup {"refused", "tx"},
         answer'[c].status # "none" => pc'[c] = "done",
         NEW a, answer'[c] = a, Definite(a) => Settled(KeyOf(c), a)
  PROVE  SagaCallOK(c)'
<1>0. SagaCallOK(c) /\ KeyOf(c) \in Key /\ c \in Call BY SagaInvTypes DEF SagaInv
<1>1. Stored' = Stored /\ active' = active BY DEF ledger, Stored
<1>2. RecordKept(KeyOf(c)) BY <1>0, RecordsKept
<1>o. Owns(c) => Owns(c)' BY <1>2 DEF Owns, RecordKept
<1>3. OwnerActs(c)'
  <2>1. ASSUME Definite(a) PROVE Settled(KeyOf(c), a)'
    BY <1>0, <1>2, <2>1, SettledStays, SagaStepFrame DEF Definite
  <2>2. Definite(answer'[c]) => Settled(KeyOf(c), answer[c])' BY <2>1 DEF Settled
  <2> QED BY <1>0, <1>1, <1>o, <2>2 DEF SagaCallOK, OwnerActs, Definite
<1>4. BookedIsStored(c)' BY <1>0, <1>1 DEF SagaCallOK, BookedIsStored, Rank, Owning
<1>5. StoredIsBooked(c)' BY DEF StoredIsBooked, Owning
<1>6. RefusedIsReleased(c)'
  <2>1. SUFFICES ASSUME "release" \notin Faults, answer'[c].status = "failed", Owns(c)'
                 PROVE  RowsOf(c) \cap active = {}
    BY <1>1 DEF RefusedIsReleased, Owning
  <2>2. Settled(KeyOf(c), a) BY <2>1 DEF Definite
  <2>3. saga[KeyOf(c)].owner = c BY <1>2, <2>1, <2>2 DEF Settled, Owns, RecordKept
  <2>4. answer[c].status = "failed" /\ Owns(c) BY <2>1, <2>2, <2>3 DEF Settled, Owns
  <2> QED BY <1>0, <2>1, <2>4 DEF SagaCallOK, RefusedIsReleased
<1> QED BY <1>3, <1>4, <1>5, <1>6 DEF SagaCallOK

-----------------------------------------------------------------------------
(* The steps of a call across regions *)

LEMMA StoredRowsAreOwn ==
  ASSUME StoreTypeOK, NEW c \in Call
  PROVE  \A r \in Stored : r.call = c => r \in RowsOf(c)
BY RowType DEF StoreTypeOK, Stored

LEMMA RankType ==
  ASSUME NEW c \in Call, NEW r \in RowsOf(c)
  PROVE  Rank(r) \in Nat
<1> DEFINE S == {g \in RegionsOf(RowsOf(r.call)) : g < RegionOf[ItemOf(r).seg]}
           f == [q \in RowsOf(c) |-> RegionOf[ItemOf(q).seg]]
<1>1. r.call = c BY DEF RowsOf
<1>2. f \in Surjection(RowsOf(c), RegionsOf(RowsOf(c))) BY DEF RegionsOf, Surjection
<1> HIDE DEF f
<1>3. IsFiniteSet(RegionsOf(RowsOf(c))) BY <1>2, RowsOfFinite, FS_Surjection
<1>4. IsFiniteSet(S) BY <1>1, <1>3, FS_Subset
<1> QED BY <1>4, FS_CardinalityType DEF Rank

\* The next region's rows are those whose rank is the number booked.
LEMMA NextRegion ==
  ASSUME RecordTypes, NEW c \in Call
  PROVE  /\ RegionRows(c) = {r \in RowsOf(c) : Rank(r) = booked[c]}
         /\ RegionRows(c) \subseteq RowsOf(c)
<1>1. booked[c] \in Nat /\ (booked[c] + 1) - 1 = booked[c] BY DEF RecordTypes
<1>2. \A r \in RowsOf(c) : r.call = c BY DEF RowsOf
<1> QED BY <1>1, <1>2 DEF RegionRows, Part, Rank

\* The owner goes on, without an answer yet.
LEMMA OwnerGoesOn ==
  ASSUME SagaInv, NEW c \in SagaCalls, SagaStep(c), Owns(c)', answer' = answer,
         pc'[c] \in Owning \ {"undo short"}, BookedIsStored(c)', StoredIsBooked(c)'
  PROVE  SagaCallOK(c)'
<1>0. SagaCallOK(c) /\ answer[c].status = "none" BY SagaStepFrame DEF SagaInv
<1>1. OwnerActs(c)' BY <1>0 DEF OwnerActs, Definite, Owning, Owns
<1>2. RefusedIsReleased(c)' BY <1>0 DEF RefusedIsReleased, Owning
<1> QED BY <1>1, <1>2 DEF SagaCallOK

LEMMA CreateKeeps ==
  ASSUME SagaInv, NEW c \in SagaCalls, Create(c)
  PROVE  SagaCallOK(c)'
<1>t. /\ StoreTypeOK /\ RecordTypes /\ CallTypes /\ saga \in [Key -> SagaRecord]
      /\ KeyOf(c) \in Key /\ c \in Call
      /\ pc \in [Call -> Places] /\ answer \in [Call -> Answer] /\ SagaCallOK(c)
  BY SagaInvTypes DEF SagaInv
<1>s. SagaStep(c) BY DEF SagaStep
<1>1. UNCHANGED ledger /\ booked' = booked BY DEF Create, storeVars
<1>2. CASE Return(c, Error)
  <2>1. pc'[c] = "done" /\ answer'[c] = Error BY <1>2, <1>t DEF Return
  <2>2. ~Definite(Error) BY DEF Definite, Error
  <2> QED BY <1>s, <1>1, <2>1, <2>2, Wanders DEF Owning
<1>3. CASE /\ saga[KeyOf(c)].status = "none"
           /\ saga' = [saga EXCEPT ![KeyOf(c)] = Saga(c, "PENDING", 0)]
           /\ Goto(c, "region")
  <2>1. Owns(c)' BY <1>3, <1>t DEF Owns, Saga
  <2>2. pc'[c] = "region" /\ answer' = answer BY <1>3, <1>t DEF Goto
  <2>3. \A r \in Stored : r.call # c BY <1>3, <1>t DEF SagaCallOK, OwnerActs, Owns
  <2>4. Stored' = Stored BY <1>1 DEF Stored, ledger
  <2>5. BookedIsStored(c)' BY <1>1, <1>t, <2>2, <2>4 DEF SagaCallOK, BookedIsStored, Rank
  <2>6. StoredIsBooked(c)' BY <2>3, <2>4 DEF StoredIsBooked
  <2> QED BY <1>s, <2>1, <2>2, <2>5, <2>6, OwnerGoesOn DEF Owning
<1> QED BY <1>2, <1>3 DEF Create

\* The owner reserves, or finds it cannot.
LEMMA RegionKeeps ==
  ASSUME SagaInv, NEW c \in SagaCalls, RegionCommit(c) \/ RegionRefuse(c) \/ RegionError(c)
  PROVE  SagaCallOK(c)'
<1>t. /\ StoreTypeOK /\ RecordTypes /\ booked \in [Call -> Nat] /\ c \in Call
      /\ KeyOf(c) \in Key /\ pc \in [Call -> Places] /\ SagaCallOK(c)
  BY SagaInvTypes DEF SagaInv
<1>s. SagaStep(c) BY DEF SagaStep
<1>1. pc[c] = "region" BY DEF RegionCommit, RegionRefuse, RegionError
<1>2. Owns(c)'
  <2>1. Owns(c) BY <1>1, <1>t DEF SagaCallOK, OwnerActs, Owning
  <2> QED BY <1>s, <1>t, <2>1, RecordsKept DEF Owns, RecordKept
<1>3. \A r \in RowsOf(c) : r.call = c /\ Rank(r) \in Nat BY <1>t, RankType DEF RowsOf
<1>4. /\ \A r \in RowsOf(c) : Rank(r) < booked[c] => r \in Stored
      /\ \A r \in Stored : r.call = c => r \in RowsOf(c) /\ Rank(r) < booked[c]
  BY <1>1, <1>t, StoredRowsAreOwn DEF SagaCallOK, BookedIsStored, StoredIsBooked
<1>5. CASE RegionCommit(c)
  <2>1. Stored' = Stored \cup RegionRows(c)
    BY <1>5 DEF RegionCommit, Insert, Stored
  <2>2. RegionRows(c) = {r \in RowsOf(c) : Rank(r) = booked[c]} BY <1>t, NextRegion
  <2>3. CASE Goto(c, "persist") /\ booked' = [booked EXCEPT ![c] = booked[c] + 1]
    <3>1. pc'[c] = "persist" /\ answer' = answer /\ booked'[c] = booked[c] + 1
      BY <1>t, <2>3 DEF Goto
    <3>2. booked[c] \in Nat BY <1>t
    <3>3. ASSUME NEW r \in RowsOf(c) PROVE Rank(r) < booked[c] + 1 <=> Rank(r) < booked[c] \/ Rank(r) = booked[c]
      BY <1>3, <3>2
    <3>4. BookedIsStored(c)' BY <1>4, <2>1, <2>2, <3>1, <3>3 DEF BookedIsStored, Rank
    <3>5. ASSUME NEW r \in Stored', r.call = c PROVE Rank(r) < booked[c] + 1
      BY <1>4, <2>1, <2>2, <3>3, <3>5
    <3>6. StoredIsBooked(c)' BY <3>1, <3>5 DEF StoredIsBooked, Rank
    <3> QED BY <1>2, <1>s, <3>1, <3>4, <3>6, OwnerGoesOn DEF Owning
  <2>4. CASE Goto(c, "broken") /\ UNCHANGED booked
    <3>1. pc'[c] = "broken" /\ answer' = answer BY <1>t, <2>4 DEF Goto
    <3>2. BookedIsStored(c)' BY <1>4, <2>1, <2>4, <3>1 DEF BookedIsStored, Rank
    <3>3. StoredIsBooked(c)' BY <3>1 DEF StoredIsBooked
    <3> QED BY <1>2, <1>s, <3>1, <3>2, <3>3, OwnerGoesOn DEF Owning
  <2> QED BY <1>5, <2>3, <2>4 DEF RegionCommit
<1>6. CASE RegionRefuse(c) \/ RegionError(c)
  <2>1. pc'[c] \in {"short", "broken"} /\ answer' = answer
    BY <1>6, <1>t DEF RegionRefuse, RegionError, Goto
  <2>2. Stored' = Stored /\ booked' = booked
    BY <1>6 DEF RegionRefuse, RegionError, storeVars, sagaVars, ledger, Stored
  <2>3. BookedIsStored(c)' BY <1>4, <2>1, <2>2 DEF BookedIsStored, Rank
  <2>4. StoredIsBooked(c)' BY <1>4, <2>2 DEF StoredIsBooked, Rank
  <2> QED BY <1>2, <1>s, <2>1, <2>3, <2>4, OwnerGoesOn DEF Owning
<1> QED BY <1>5, <1>6

\* The owner writes its record.
LEMMA PersistKeeps ==
  ASSUME SagaInv, NEW c \in SagaCalls, PersistStep(c) \/ MarkCommitted(c)
  PROVE  SagaCallOK(c)'
<1>t. /\ StoreTypeOK /\ RecordTypes /\ booked \in [Call -> Nat] /\ c \in Call
      /\ KeyOf(c) \in Key /\ pc \in [Call -> Places] /\ SagaCallOK(c)
  BY SagaInvTypes DEF SagaInv
<1>s. SagaStep(c) BY DEF SagaStep
<1>1. pc[c] \in {"persist", "commit"} /\ Stored' = Stored /\ booked' = booked
  BY DEF PersistStep, MarkCommitted, storeVars, ledger, Stored
<1>2. Owns(c)'
  <2>1. Owns(c) BY <1>1, <1>t DEF SagaCallOK, OwnerActs, Owning
  <2> QED BY <1>s, <1>t, <2>1, RecordsKept DEF Owns, RecordKept
<1>4. CASE PersistStep(c) /\ RegionRows(c) # {}
  <2>1. pc'[c] = "region" /\ answer' = answer /\ pc[c] = "persist"
    BY <1>4, <1>t DEF PersistStep, Goto
  <2>2. BookedIsStored(c)' BY <1>1, <1>t, <2>1 DEF SagaCallOK, BookedIsStored, Rank
  <2>3. StoredIsBooked(c)' BY <1>1, <1>t, <2>1 DEF SagaCallOK, StoredIsBooked, Rank
  <2> QED BY <1>2, <1>s, <2>1, <2>2, <2>3, OwnerGoesOn DEF Owning
<1>5. CASE PersistStep(c) /\ RegionRows(c) = {}
  <2>1. pc'[c] = "commit" /\ answer' = answer BY <1>5, <1>t DEF PersistStep, Goto
  <2>2. \A r \in RowsOf(c) : Rank(r) < booked[c]
    <3>1. {r \in RowsOf(c) : Rank(r) = booked[c]} = {} BY <1>5, <1>t, NextRegion
    <3>2. PICK n \in Nat : n = booked[c] BY <1>t
    <3> QED BY <1>t, <3>1, <3>2, RegionsEnd
  <2>3. RowsOf(c) \subseteq Stored BY <1>t, <2>2 DEF SagaCallOK, BookedIsStored
  <2>4. BookedIsStored(c)' BY <1>1, <2>3 DEF BookedIsStored
  <2>5. StoredIsBooked(c)' BY <2>1 DEF StoredIsBooked
  <2> QED BY <1>2, <1>s, <2>1, <2>4, <2>5, OwnerGoesOn DEF Owning
<1>6. CASE MarkCommitted(c)
  <2>1. pc'[c] = "entry" /\ answer' = answer /\ pc[c] = "commit"
    BY <1>6, <1>t DEF MarkCommitted, Goto
  <2>2. BookedIsStored(c)' BY <1>1, <1>t, <2>1 DEF SagaCallOK, BookedIsStored, Rank
  <2>3. StoredIsBooked(c)' BY <2>1 DEF StoredIsBooked
  <2> QED BY <1>2, <1>s, <2>1, <2>2, <2>3, OwnerGoesOn DEF Owning
<1> QED BY <1>4, <1>5, <1>6

\* The owner gives up: it marks the record and releases what it holds.
LEMMA UndoKeeps ==
  ASSUME SagaInv, NEW c \in SagaCalls, MarkUndone(c) \/ UndoStep(c) \/ UndoDone(c)
  PROVE  SagaCallOK(c)'
<1>t. /\ StoreTypeOK /\ RecordTypes /\ booked \in [Call -> Nat] /\ undo \in [Call -> Nat]
      /\ c \in Call /\ KeyOf(c) \in Key /\ pc \in [Call -> Places]
      /\ answer \in [Call -> Answer] /\ SagaCallOK(c)
  BY SagaInvTypes DEF SagaInv
<1>s. SagaStep(c) BY DEF SagaStep
<1>n. answer[c].status = "none" BY <1>s, SagaStepFrame
<1>1. /\ pc[c] \in {"short", "broken", "undo short", "undo broken"}
      /\ Stored' = Stored /\ booked' = booked /\ active' \subseteq active
  BY DEF MarkUndone, UndoStep, UndoDone, CompensateStep, storeVars, sagaVars, ledger,
         Release, Stored
<1>2. Owns(c)'
  <2>1. Owns(c) BY <1>1, <1>t DEF SagaCallOK, OwnerActs, Owning
  <2> QED BY <1>s, <1>t, <2>1, RecordsKept DEF Owns, RecordKept
<1>3. ASSUME answer'[c] = answer[c], pc'[c] \in {"undo short", "undo broken", "refused"}
      PROVE  OwnerActs(c)' /\ BookedIsStored(c)'
  <2>1. OwnerActs(c)' BY <1>n, <1>2, <1>3 DEF OwnerActs, Definite, Owns
  <2>2. BookedIsStored(c)' BY <1>1, <1>3, <1>t DEF SagaCallOK, BookedIsStored, Rank
  <2> QED BY <2>1, <2>2
<1>4. CASE MarkUndone(c)
  <2>1. /\ pc'[c] = (IF pc[c] = "short" THEN "undo short" ELSE "undo broken")
        /\ answer' = answer /\ undo'[c] = booked'[c] /\ pc[c] \in {"short", "broken"}
    BY <1>1, <1>4, <1>t DEF MarkUndone, Goto
  <2>2. StoredIsBooked(c)' BY <1>1, <1>t, <2>1 DEF SagaCallOK, StoredIsBooked, Rank
  <2>3. RefusedIsReleased(c)' BY <1>n, <2>1 DEF RefusedIsReleased
  <2> QED BY <1>3, <2>1, <2>2, <2>3 DEF SagaCallOK
<1>5. CASE UndoStep(c)
  <2>1. pc' = pc /\ answer' = answer /\ pc[c] \in {"undo short", "undo broken"}
    BY <1>5 DEF UndoStep, txVars
  <2>2. StoredIsBooked(c)' BY <1>1, <1>t, <2>1 DEF SagaCallOK, StoredIsBooked, Rank
  <2>3. "release" \notin Faults => RowsOf(c) \cap active' = {}
    BY <1>5 DEF UndoStep, CompensateStep, Release
  <2>4. RefusedIsReleased(c)' BY <1>n, <2>1, <2>3 DEF RefusedIsReleased
  <2> QED BY <1>3, <2>1, <2>2, <2>4 DEF SagaCallOK
<1>6. CASE UndoDone(c) /\ pc[c] = "undo short"
  <2>1. pc'[c] = "refused" /\ answer' = answer /\ undo[c] = 0 /\ active' = active
    BY <1>6, <1>t DEF UndoDone, Goto, storeVars, ledger
  <2>2. StoredIsBooked(c)' BY <2>1 DEF StoredIsBooked
  <2>3. ASSUME "release" \notin Faults PROVE RowsOf(c) \cap active = {}
    <3>1. CASE undo[c] = booked[c]
      <4>1. \A r \in RowsOf(c) : r.call = c /\ Rank(r) \in Nat BY <1>t, RankType DEF RowsOf
      <4>2. \A r \in Stored : r.call = c => Rank(r) < 0
        BY <1>6, <1>t, <2>1, <3>1 DEF SagaCallOK, StoredIsBooked
      <4>3. ASSUME NEW r \in RowsOf(c) PROVE r \notin Stored
        BY <4>1, <4>2
      <4> QED BY <4>3 DEF Stored
    <3>2. CASE undo[c] # booked[c]
      BY <1>6, <1>t, <2>3, <3>2 DEF SagaCallOK, RefusedIsReleased
    <3> QED BY <3>1, <3>2
  <2>4. RefusedIsReleased(c)' BY <1>n, <2>1, <2>3 DEF RefusedIsReleased
  <2> QED BY <1>3, <2>1, <2>2, <2>4 DEF SagaCallOK
<1>7. CASE UndoDone(c) /\ pc[c] # "undo short"
  <2>1. pc'[c] = "done" /\ answer'[c] = Error /\ UNCHANGED ledger /\ booked' = booked
    BY <1>7, <1>t DEF UndoDone, Return, storeVars, sagaVars
  <2>2. ~Definite(Error) BY DEF Definite, Error
  <2> QED BY <1>s, <2>1, <2>2, Wanders DEF Owning
<1> QED BY <1>4, <1>5, <1>6, <1>7

\* The owner comes to its answer, which is the one it puts into the cache.
LEMMA AnswerKeeps ==
  ASSUME SagaInv, NEW c \in SagaCalls, NEW a, NEW e,
         \/ WriteEntry(c) /\ a = Reserved(c) /\ e = Entry("reserved", c)
         \/ RecordRefusal(c) /\ a = Failed /\ e = Entry("failed", NoCall) /\ UNCHANGED sagaVars
  PROVE  SagaCallOK(c)' /\ KeyOK(KeyOf(c))'
<1>t. /\ StoreTypeOK /\ RecordTypes /\ saga \in [Key -> SagaRecord] /\ c \in Call
      /\ KeyOf(c) \in Key /\ pc \in [Call -> Places] /\ answer \in [Call -> Answer]
      /\ SagaCallOK(c)
  BY SagaInvTypes DEF SagaInv
<1>s. SagaStep(c) BY DEF SagaStep
<1>1. /\ pc[c] \in {"entry", "refused"} /\ pc'[c] = "done" /\ answer'[c] = a
      /\ Stored' = Stored /\ active' = active /\ booked' = booked /\ saga' = saga
  BY <1>t DEF WriteEntry, RecordRefusal, Return, sagaVars, ledger, Stored
<1>2. Owns(c) /\ Owns(c)' BY <1>1, <1>t DEF SagaCallOK, OwnerActs, Owning, Owns
<1>3. Settled(KeyOf(c), a)' BY <1>1, <1>2 DEF Settled, Owns
<1>4. SagaCallOK(c)'
  <2>1. OwnerActs(c)' BY <1>1, <1>2, <1>3 DEF OwnerActs, Settled, Owns
  <2>2. BookedIsStored(c)' BY <1>1, <1>t DEF SagaCallOK, BookedIsStored, Rank
  <2>3. StoredIsBooked(c)' BY <1>1 DEF StoredIsBooked
  <2>4. RefusedIsReleased(c)'
    <3>1. CASE WriteEntry(c) /\ a = Reserved(c)
      BY <1>1, <3>1 DEF RefusedIsReleased, Reserved
    <3>2. CASE RecordRefusal(c)
      <4>1. pc[c] = "refused" BY <3>2 DEF RecordRefusal
      <4> QED BY <1>1, <1>t, <4>1 DEF SagaCallOK, RefusedIsReleased
    <3> QED BY <3>1, <3>2
  <2> QED BY <2>1, <2>2, <2>3, <2>4 DEF SagaCallOK
<1>5. KeyOK(KeyOf(c))'
  <2>0. /\ RecordKept(KeyOf(c)) /\ AnswersStay /\ Stored \subseteq Stored'
        /\ saga'[KeyOf(c)].status = "COMMITTED" => saga[KeyOf(c)].status = "COMMITTED"
    BY <1>1, <1>s, <1>t, RecordsKept, SagaStepFrame
  <2>1. CASE EntryStays(KeyOf(c)) BY <1>t, <2>0, <2>1, KeyStays
  <2>2. CASE ~EntryStays(KeyOf(c))
    <3>1. idem' = [idem EXCEPT ![KeyOf(c)] = e]
      <4>1. InsertOnConflictIgnore(KeyOf(c), e) \/ UNCHANGED idem
        BY DEF WriteEntry, RecordRefusal, cache
      <4> QED BY <2>2, <4>1 DEF InsertOnConflictIgnore, EntryStays
    <3>2. idem'[KeyOf(c)] = e BY <1>t, <3>1 DEF StoreTypeOK
    <3>3. Replay(KeyOf(c))' = a
      BY <3>2 DEF Replay, Entry, Reserved, Failed
    <3>4. Settled(KeyOf(c), Replay(KeyOf(c)))' BY <1>3, <3>3 DEF Settled
    <3>5. (saga[KeyOf(c)].status = "COMMITTED" => RowsOf(saga[KeyOf(c)].owner) \subseteq Stored)'
      BY <1>1, <1>t DEF SagaInv, KeyOK
    <3> QED BY <3>4, <3>5 DEF KeyOK
  <2> QED BY <2>1, <2>2
<1> QED BY <1>4, <1>5

\* The others look, undo what they found, or repeat the owner's answer.
LEMMA OthersKeep ==
  ASSUME SagaInv, NEW c \in SagaCalls,
         \/ SagaReserve(c) \/ GetByIdempotencyKey(c) \/ RecoverStep(c) \/ RecoverDone(c)
         \/ ReplayWinner(c) /\ UNCHANGED sagaVars
  PROVE  SagaCallOK(c)'
<1>t. /\ StoreTypeOK /\ c \in Call /\ KeyOf(c) \in Key /\ pc \in [Call -> Places]
      /\ answer \in [Call -> Answer] /\ SagaCallOK(c) /\ KeyOK(KeyOf(c))
  BY SagaInvTypes DEF SagaInv
<1>s. SagaStep(c) BY DEF SagaStep
<1>n. answer[c].status = "none" /\ ~Definite(answer[c])
  BY <1>s, SagaStepFrame DEF Definite
<1>1. CASE RecoverStep(c)
  <2>1. /\ pc' = pc /\ answer' = answer /\ pc[c] = "recover" /\ booked' = booked
        /\ Stored' = Stored
    BY <1>1 DEF RecoverStep, CompensateStep, txVars, Release, Stored, ledger
  <2>2. RecordKept(KeyOf(c)) BY <1>s, <1>t, RecordsKept
  <2>3. OwnerActs(c)' BY <1>n, <1>t, <2>1, <2>2 DEF SagaCallOK, OwnerActs, Owning, Owns, RecordKept
  <2>4. BookedIsStored(c)' BY <1>t, <2>1 DEF SagaCallOK, BookedIsStored, Rank
  <2>5. StoredIsBooked(c)' BY <2>1 DEF StoredIsBooked
  <2>6. RefusedIsReleased(c)' BY <1>n, <2>1 DEF RefusedIsReleased
  <2> QED BY <2>3, <2>4, <2>5, <2>6 DEF SagaCallOK
<1>2. CASE ~RecoverStep(c)
  <2>1. UNCHANGED ledger /\ booked' = booked
    BY <1>2 DEF SagaReserve, GetByIdempotencyKey, RecoverDone, ReplayWinner, storeVars, sagaVars
  <2>2. \/ \E l \in {"lookup", "replay", "recover", "create"} : Goto(c, l)
        \/ \E a \in {Error, Replay(KeyOf(c))} : Return(c, a)
    BY <1>2 DEF SagaReserve, GetByIdempotencyKey, RecoverDone, ReplayWinner
  <2>3. ASSUME NEW l \in {"lookup", "replay", "recover", "create"}, Goto(c, l)
        PROVE  SagaCallOK(c)'
    <3>1. PICK b : b = answer[c] OBVIOUS
    <3>2. pc'[c] = l /\ answer'[c] = b /\ ~Definite(b) /\ answer'[c].status = "none"
      BY <1>n, <1>t, <2>3, <3>1 DEF Goto
    <3>3. pc'[c] \notin Owning \cup {"refused", "tx"} BY <3>2 DEF Owning
    <3> QED BY <1>s, <2>1, <3>2, <3>3, Wanders
  <2>4. ASSUME NEW a \in {Error, Replay(KeyOf(c))}, Return(c, a)
        PROVE  SagaCallOK(c)'
    <3>1. pc'[c] = "done" /\ answer'[c] = a BY <1>t, <2>4 DEF Return
    <3>2. Definite(a) => Settled(KeyOf(c), a)
      BY <1>t DEF Definite, Error, Replay, KeyOK, CrossKey
    <3>3. pc'[c] \notin Owning \cup {"refused", "tx"} BY <3>1 DEF Owning
    <3> QED BY <1>s, <2>1, <3>1, <3>2, <3>3, Wanders
  <2> QED BY <2>2, <2>3, <2>4
<1> QED BY <1>1, <1>2

\* The record says COMMITTED once every region is stored.
LEMMA CommittedKeeps ==
  ASSUME SagaInv, NEW c \in SagaCalls, MarkCommitted(c)
  PROVE  KeyOK(KeyOf(c))'
<1>t. /\ StoreTypeOK /\ saga \in [Key -> SagaRecord] /\ c \in Call /\ KeyOf(c) \in Key
      /\ SagaCallOK(c) /\ KeyOK(KeyOf(c))
  BY SagaInvTypes DEF SagaInv
<1>s. SagaStep(c) BY DEF SagaStep
<1>1. Stored' = Stored /\ idem' = idem
  BY DEF MarkCommitted, storeVars, ledger, cache, Stored
<1>2. RecordKept(KeyOf(c)) /\ AnswersStay BY <1>s, <1>t, RecordsKept, SagaStepFrame
<1>3. Owns(c) /\ RowsOf(c) \subseteq Stored
  BY <1>t DEF MarkCommitted, SagaCallOK, OwnerActs, BookedIsStored, Owning
<1>4. saga'[KeyOf(c)].owner = c BY <1>2, <1>3 DEF RecordKept, Owns
<1>5. ASSUME idem[KeyOf(c)].status # "absent" PROVE Settled(KeyOf(c), Replay(KeyOf(c)))'
  <2>1. PICK b : b = Replay(KeyOf(c)) OBVIOUS
  <2>2. Settled(KeyOf(c), b) BY <1>5, <1>t, <2>1 DEF KeyOK, CrossKey
  <2>3. b.status # "none" BY <1>t, <2>1 DEF Replay, StoreTypeOK
  <2>4. Settled(KeyOf(c), b)' BY <1>2, <1>t, <2>2, <2>3, SettledStays
  <2>5. Replay(KeyOf(c))' = b BY <1>1, <2>1 DEF Replay
  <2> QED BY <2>4, <2>5 DEF Settled
<1> QED BY <1>1, <1>3, <1>4, <1>5 DEF KeyOK

\* Every other step leaves the keys alone, but for the answers (AnswerKeeps).
LEMMA KeysKept ==
  ASSUME SagaInv, NEW c \in SagaCalls, SagaStep(c), NEW k \in Key,
         k # KeyOf(c) \/ ~(MarkCommitted(c) \/ WriteEntry(c) \/ RecordRefusal(c))
  PROVE  KeyOK(k)'
<1>t. /\ StoreTypeOK /\ saga \in [Key -> SagaRecord] /\ c \in Call /\ KeyOf(c) \in Key
  BY SagaInvTypes DEF SagaInv
<1>1. RecordKept(k) /\ AnswersStay /\ Stored \subseteq Stored' BY RecordsKept, SagaStepFrame
<1>2. CASE k # KeyOf(c)
  <2>1. saga'[k] = saga[k] BY <1>2, RecordsKept
  <2>2. \/ idem' = idem
        \/ \E e : idem' = [idem EXCEPT ![KeyOf(c)] = e]
    BY DEF SagaStep, SagaReserve, GetByIdempotencyKey, RecoverStep, RecoverDone, Create,
         RegionCommit, RegionRefuse, RegionError, PersistStep, MarkCommitted, WriteEntry,
         MarkUndone, UndoStep, UndoDone, CompensateStep, ReplayWinner, RecordRefusal, storeVars,
         cache, InsertOnConflictIgnore
  <2>3. idem'[k] = idem[k] BY <1>2, <1>t, <2>2 DEF StoreTypeOK
  <2> QED BY <1>1, <2>1, <2>3, KeyStays DEF EntryStays
<1>3. CASE ~(MarkCommitted(c) \/ WriteEntry(c) \/ RecordRefusal(c))
  <2>1. idem' = idem
    BY <1>3 DEF SagaStep, SagaReserve, GetByIdempotencyKey, RecoverStep, RecoverDone, Create,
         RegionCommit, RegionRefuse, RegionError, PersistStep,
         MarkUndone, UndoStep, UndoDone, CompensateStep, ReplayWinner, storeVars, cache
  <2>2. \/ saga' = saga
        \/ \E r : r.status # "COMMITTED" /\ saga' = [saga EXCEPT ![KeyOf(c)] = r]
    BY <1>3 DEF SagaStep, SagaReserve, GetByIdempotencyKey, RecoverStep, RecoverDone, Create,
         RegionCommit, RegionRefuse, RegionError, PersistStep, UpdateStepsAndStatus, Saga,
         MarkUndone, UndoStep, UndoDone, CompensateStep, sagaVars
  <2>3. saga'[k].status = "COMMITTED" => saga[k].status = "COMMITTED" BY <1>t, <2>2
  <2> QED BY <1>1, <2>1, <2>3, KeyStays DEF EntryStays
<1> QED BY <1>2, <1>3

LEMMA SagaStepKeeps ==
  ASSUME SagaInv, NEW c \in SagaCalls, SagaStep(c)
  PROVE  SagaInv'
<1>t. c \in Call /\ KeyOf(c) \in Key /\ SagaTypeOK BY SagaInvTypes DEF SagaInv
<1>1. SagaTypeOK' BY <1>t, SagaStepTyped
<1>2. SagaCallOK(c)'
  BY CreateKeeps, RegionKeeps, PersistKeeps, UndoKeeps, AnswerKeeps, OthersKeep DEF SagaStep
<1>3. ASSUME NEW d \in SagaCalls \ {c} PROVE SagaCallOK(d)'
  <2>1. KeyOf(d) \in Key BY SagaInvTypes
  <2> QED BY <2>1, RecordsKept, SagaStepFrame, ApartStays
<1>4. ASSUME NEW k \in Key PROVE KeyOK(k)'
  <2>1. CASE k # KeyOf(c) \/ ~(MarkCommitted(c) \/ WriteEntry(c) \/ RecordRefusal(c))
    BY <2>1, KeysKept
  <2>2. CASE k = KeyOf(c) /\ MarkCommitted(c) BY <2>2, CommittedKeeps
  <2>3. CASE k = KeyOf(c) /\ WriteEntry(c) BY <2>3, AnswerKeeps
  <2>4. CASE k = KeyOf(c) /\ RecordRefusal(c)
    <3>1. UNCHANGED sagaVars
      BY <2>4 DEF SagaStep, SagaReserve, GetByIdempotencyKey, RecoverStep, RecoverDone, Create,
         RegionCommit, RegionRefuse, RegionError, PersistStep, MarkCommitted, WriteEntry,
         MarkUndone, UndoStep, UndoDone, ReplayWinner, RecordRefusal
    <3> QED BY <2>4, <3>1, AnswerKeeps
  <2> QED BY <2>1, <2>2, <2>3, <2>4
<1> QED BY <1>1, <1>2, <1>3, <1>4 DEF SagaInv, SagaCalls, CrossRegion, RegionsOf

-----------------------------------------------------------------------------
(* What happens beside the sagas *)

LEMMA BesideSagas ==
  ASSUME SagaInv, SagaTypeOK', AnswersStay, Stored \subseteq Stored',
         \A d \in SagaCalls : Apart(d),
         \A k \in Key : /\ saga'[k].status = saga[k].status /\ saga'[k].owner = saga[k].owner
                        /\ CrossKey(k) => EntryStays(k)
  PROVE  SagaInv'
<1>1. \A k \in Key : RecordKept(k) BY DEF RecordKept
<1>2. \A d \in SagaCalls : SagaCallOK(d)' BY <1>1, SagaInvTypes, ApartStays
<1>3. \A k \in Key : KeyOK(k)' BY <1>1, KeyStays
<1> QED BY <1>2, <1>3 DEF SagaInv, SagaCalls, CrossRegion, RegionsOf

\* Calls, entries and records that nothing happens to.
LEMMA StillApart ==
  ASSUME UNCHANGED <<pc, answer, booked, undo>>, Stored' = Stored, active' \subseteq active
  PROVE  /\ AnswersStay /\ Stored \subseteq Stored'
         /\ \A d \in SagaCalls : Apart(d)
BY DEF AnswersStay, Apart, RowsApart

\* A call within one region touches no key of a call across regions.
LEMMA SingleStepKeeps ==
  ASSUME RetriesAgree, SagaInv, NEW c \in Call, ~CrossRegion(c), Step(c), UNCHANGED sagaVars
  PROVE  SagaInv'
<1>t. /\ StoreTypeOK /\ SagaTypeOK /\ KeyOf(c) \in Key /\ c \notin SagaCalls
      /\ pc \in [Call -> Places] /\ answer \in [Call -> Answer]
      /\ \A d \in SagaCalls : d \in Call
  BY SagaInvTypes DEF SagaInv, SagaCalls
<1>1. SagaTypeOK' BY <1>t, SingleStepTyped
<1>2. \/ \E l : Goto(c, l)
      \/ \E a : Return(c, a)
      \/ UNCHANGED <<pc, answer>>
  BY DEF Step, Reserve, RecheckReplays, Refuse, Commit, UniqueViolation, Restart, TxError,
         RecordRefusal, ReplayWinner
<1>3. \A d \in SagaCalls : pc'[d] = pc[d] /\ answer'[d] = answer[d]
  BY <1>2, <1>t DEF Goto, Return
<1>4. UNCHANGED ledger \/ Insert(RowsOf(c))
  BY DEF Step, Reserve, RecheckReplays, Refuse, Commit, UniqueViolation, Restart, TxError,
         RecordRefusal, ReplayWinner, storeVars
<1>5. Stored \subseteq Stored' /\ \A d \in SagaCalls : RowsApart(d)
  <2>1. \A r \in RowsOf(c) : r.call = c BY DEF RowsOf
  <2> QED BY <1>4, <1>t, <2>1, LedgerStep
<1>6. \A d \in SagaCalls : Apart(d) BY <1>3, <1>5 DEF Apart, sagaVars
<1>7. AnswersStay BY <1>3 DEF AnswersStay
<1>8. ASSUME NEW k \in Key, CrossKey(k) PROVE EntryStays(k)
  <2>1. k # KeyOf(c) BY <1>8 DEF RetriesAgree, CrossKey, SagaCalls
  <2>2. \/ idem' = idem
        \/ \E e : idem' = [idem EXCEPT ![KeyOf(c)] = e]
    BY DEF Step, Reserve, RecheckReplays, Refuse, Commit, UniqueViolation, Restart, TxError,
         RecordRefusal, ReplayWinner, storeVars, cache, InsertOnConflictIgnore
  <2> QED BY <1>t, <2>1, <2>2 DEF StoreTypeOK, EntryStays
<1> QED BY <1>1, <1>5, <1>6, <1>7, <1>8, BesideSagas DEF sagaVars

LEMMA CrashKeeps ==
  ASSUME SagaInv, NEW c \in Call, Crash(c), UNCHANGED sagaVars
  PROVE  SagaInv'
<1>t. /\ pc \in [Call -> Places] /\ SagaTypeOK
      /\ \A d \in SagaCalls : d \in Call
  BY SagaInvTypes DEF SagaInv
<1>0. SagaTypeOK'
  BY <1>t, SagaNextTyped DEF SagaNext, Environment
<1>1. /\ UNCHANGED <<answer, booked, undo, saga, active, released, idem>>
      /\ pc' = [pc EXCEPT ![c] = "crashed"] /\ pc[c] # "done"
  BY DEF Crash, Goto, InFlight, storeVars, ledger, cache, sagaVars
<1>2. Stored' = Stored BY <1>1 DEF Stored
<1>3. ASSUME NEW d \in SagaCalls \ {c} PROVE Apart(d)
  BY <1>1, <1>2, <1>t DEF Apart, RowsApart
<1>4. AnswersStay /\ \A k \in Key : RecordKept(k) /\ EntryStays(k)
  BY <1>1 DEF AnswersStay, RecordKept, EntryStays
<1>5. ASSUME NEW d \in SagaCalls \ {c} PROVE SagaCallOK(d)'
  BY <1>3, <1>4, SagaInvTypes, ApartStays
<1>6. \A k \in Key : KeyOK(k)' BY <1>1, <1>2, <1>4, KeyStays
<1>7. ASSUME c \in SagaCalls PROVE SagaCallOK(c)'
  <2>1. SagaCallOK(c) /\ pc'[c] = "crashed" /\ answer[c].status = "none"
    BY <1>1, <1>7, <1>t DEF SagaInv, SagaCallOK, OwnerActs
  <2>2. OwnerActs(c)' BY <1>1, <1>2, <2>1 DEF SagaCallOK, OwnerActs, Definite, Owns, Owning
  <2>3. BookedIsStored(c)' BY <1>1, <1>2, <2>1 DEF SagaCallOK, BookedIsStored, Rank
  <2>4. StoredIsBooked(c)' BY <2>1 DEF StoredIsBooked
  <2>5. RefusedIsReleased(c)' BY <1>1, <2>1 DEF RefusedIsReleased
  <2> QED BY <2>2, <2>3, <2>4, <2>5 DEF SagaCallOK
<1> QED BY <1>0, <1>5, <1>6, <1>7 DEF SagaInv, SagaCalls, CrossRegion, RegionsOf

\* The store changes on its own: releases, closures, capacities, expiry, time.
LEMMA StoreStepKeeps ==
  ASSUME SagaInv, UNCHANGED <<pc, answer, sagaVars>>, SagaTypeOK',
         \/ StoreNext
         \/ \E j \in Journey : ReleaseByJourneyID(j)
         \/ \E k \in Key : ExpireEntry(k)
  PROVE  SagaInv'
<1>1. UNCHANGED ledger \/ \E R : Release(R)
  BY DEF StoreNext, ReleaseOrphans, CreateClosure, UpdateSegmentCapacity,
         UpdateDefaultSegmentCapacity, RegisterSegments, SetCapacities, PurgeExpired, Tick,
         ReleaseByJourneyID, ExpireEntry
<1>2. Stored' = Stored /\ active' \subseteq active BY <1>1 DEF Release, Stored, ledger
<1>3. \/ idem' = idem
      \/ PurgeExpired
      \/ \E k \in Key : idem' = [idem EXCEPT ![k].fresh = FALSE]
  BY DEF StoreNext, ReleaseOrphans, CreateClosure, UpdateSegmentCapacity,
         UpdateDefaultSegmentCapacity, RegisterSegments, SetCapacities, Tick, cache,
         ReleaseByJourneyID, ExpireEntry
<1>4. \A k \in Key : EntryStays(k)
  <2>1. StoreTypeOK BY SagaInvTypes
  <2>2. ASSUME NEW k \in Key, PurgeExpired PROVE EntryStays(k)
    BY <2>1, <2>2 DEF PurgeExpired, NoEntry, EntryStays, StoreTypeOK
  <2>3. ASSUME NEW k \in Key, NEW e \in Key, idem' = [idem EXCEPT ![e].fresh = FALSE]
        PROVE  EntryStays(k)
    BY <2>1, <2>3 DEF EntryStays, StoreTypeOK
  <2> QED BY <1>3, <2>2, <2>3 DEF EntryStays
<1>5. UNCHANGED <<pc, answer, booked, undo>> BY DEF sagaVars
<1> QED BY <1>2, <1>4, <1>5, StillApart, BesideSagas DEF sagaVars

LEMMA ExpireSagaKeeps ==
  ASSUME SagaInv, NEW k \in Key, ExpireSaga(k), SagaTypeOK'
  PROVE  SagaInv'
<1>t. StoreTypeOK /\ saga \in [Key -> SagaRecord] BY SagaInvTypes
<1>1. Stored' = Stored /\ active' \subseteq active BY DEF ExpireSaga, ledger, Stored
<1>2. UNCHANGED <<pc, answer, booked, undo>> BY DEF ExpireSaga, txVars
<1>3. /\ idem' = [idem EXCEPT ![k].fresh = FALSE]
      /\ saga' = [saga EXCEPT ![k].fresh = FALSE]
  BY DEF ExpireSaga
<1>4. \A e \in Key : EntryStays(e) BY <1>3, <1>t DEF EntryStays, StoreTypeOK
<1>5. \A e \in Key : saga'[e].status = saga[e].status /\ saga'[e].owner = saga[e].owner
  BY <1>3, <1>t DEF SagaRecord
<1> QED BY <1>1, <1>2, <1>4, <1>5, StillApart, BesideSagas

LEMMA SagaNextKeeps ==
  ASSUME RetriesAgree, SagaInv, [SagaNext]_allVars
  PROVE  SagaInv'
<1>0. SagaTypeOK' BY SagaNextTyped DEF SagaInv
<1>1. ASSUME NEW c \in Call, CallStep(c) PROVE SagaInv'
  BY <1>1, SagaStepKeeps, SingleStepKeeps DEF CallStep, SagaCalls
<1>2. ASSUME NEW k \in Key, ExpireSaga(k) PROVE SagaInv'
  BY <1>0, <1>2, ExpireSagaKeeps
<1>3. ASSUME NEW c \in Call, Crash(c), UNCHANGED sagaVars PROVE SagaInv'
  BY <1>3, CrashKeeps
<1>4. ASSUME NEW k \in Key, ExpireIdle(k), UNCHANGED sagaVars PROVE SagaInv'
  BY <1>0, <1>4, StoreStepKeeps DEF ExpireIdle, txVars
<1>5. ASSUME NEW j \in Journey, JourneyEnds(j), UNCHANGED sagaVars PROVE SagaInv'
  BY <1>0, <1>5, StoreStepKeeps DEF JourneyEnds, txVars
<1>6. CASE StoreNext /\ UNCHANGED txVars /\ UNCHANGED sagaVars
  BY <1>0, <1>6, StoreStepKeeps DEF txVars
<1>7. CASE UNCHANGED allVars
  <2>1. UNCHANGED <<pc, answer, booked, undo, saga, idem, active, released>>
    BY <1>7 DEF allVars, vars, txVars, sagaVars, storeVars, cache, ledger
  <2>2. Stored' = Stored BY <2>1 DEF Stored
  <2>3. \A k \in Key : EntryStays(k) BY <2>1 DEF EntryStays
  <2> QED BY <1>0, <2>1, <2>2, <2>3, StillApart, BesideSagas
<1> QED BY <1>1, <1>2, <1>3, <1>4, <1>5, <1>6, <1>7 DEF SagaNext, Environment

LEMMA SagaInvInit == SagaInit => SagaInv
<1> SUFFICES ASSUME SagaInit PROVE SagaInv OBVIOUS
<1>1. SagaTypeOK BY SagaInitTyped
<1>2. /\ Stored = {} /\ \A k \in Key : idem[k].status = "absent" /\ saga[k].status = "none"
      /\ \A c \in Call : pc[c] = "start" /\ answer[c].status = "none" /\ booked[c] = 0
  BY DEF SagaInit, Init, StoreInit, Stored, NoEntry, NoSaga, NoAnswer
<1>3. ASSUME NEW c \in SagaCalls PROVE SagaCallOK(c)
  <2>0. c \in Call BY DEF SagaCalls
  <2>1. OwnerActs(c) BY <1>2, <2>0 DEF OwnerActs, Owning, Definite
  <2>2. BookedIsStored(c)
    <3>1. ASSUME NEW r \in RowsOf(c) PROVE ~(Rank(r) < 0) BY <2>0, RankType
    <3> QED BY <1>2, <2>0, <3>1 DEF BookedIsStored
  <2>3. StoredIsBooked(c) BY <1>2, <2>0 DEF StoredIsBooked
  <2>4. RefusedIsReleased(c) BY <1>2, <2>0 DEF RefusedIsReleased
  <2> QED BY <2>1, <2>2, <2>3, <2>4 DEF SagaCallOK
<1>4. \A k \in Key : KeyOK(k) BY <1>2 DEF KeyOK
<1> QED BY <1>1, <1>3, <1>4 DEF SagaInv

\* Who owns a key's record and what its calls hold, counted and answered.
THEOREM SagaInvariant ==
  ASSUME RetriesAgree
  PROVE  SagaSpec => []SagaInv
<1>1. SagaInv /\ [SagaNext]_allVars => SagaInv' BY SagaNextKeeps
<1> QED BY <1>1, SagaInvInit, PTL DEF SagaSpec

\* The rows of a key of a call across regions come from that call only.
THEOREM RowsComeFromOwner ==
  ASSUME RetriesAgree
  PROVE  SagaSpec => []OneSagaPerKey
<1>1. ASSUME SagaInv PROVE OneSagaPerKey
  <2> SUFFICES ASSUME NEW r \in Stored, NEW q \in Stored, r.call \in SagaCalls,
                      KeyOf(r.call) = KeyOf(q.call)
               PROVE  r.call = q.call
    BY DEF OneSagaPerKey
  <2>1. r.call \in Call /\ q.call \in Call
    BY <1>1, SagaInvTypes, RowType DEF StoreTypeOK, Stored
  <2>2. q.call \in SagaCalls BY <2>1 DEF RetriesAgree, SagaCalls
  <2>3. Owns(r.call) /\ Owns(q.call) BY <1>1, <2>2 DEF SagaInv, SagaCallOK, OwnerActs
  <2> QED BY <2>3 DEF Owns
<1> QED BY <1>1, SagaInvariant, PTL

\* Two calls of a key never get different definite answers.
THEOREM RetriesGetOneAnswer ==
  ASSUME RetriesAgree
  PROVE  SagaSpec => []DefiniteAnswersAgree
<1>1. ASSUME SagaInv PROVE DefiniteAnswersAgree
  BY <1>1 DEF SagaInv, SagaCallOK, OwnerActs, Definite, Settled, DefiniteAnswersAgree
<1> QED BY <1>1, SagaInvariant, PTL

\* A record that says COMMITTED stands for rows inserted in every region.
THEOREM CommittedMeansStored ==
  ASSUME RetriesAgree
  PROVE  SagaSpec => []CommittedIsWhole
<1>1. ASSUME SagaInv PROVE CommittedIsWhole
  BY <1>1 DEF SagaInv, KeyOK, CommittedIsWhole
<1> QED BY <1>1, SagaInvariant, PTL

\* When no compensating release fails, a call told "failed" left nothing behind.
THEOREM RefusalsHoldNothing ==
  ASSUME RetriesAgree, "release" \notin Faults
  PROVE  SagaSpec => []FailedHoldsNothing
<1>1. ASSUME SagaInv PROVE FailedHoldsNothing
  <2> SUFFICES ASSUME NEW c \in SagaCalls, answer[c].status = "failed",
                      NEW r \in active, KeyOf(r.call) = KeyOf(c)
               PROVE  FALSE
    BY DEF FailedHoldsNothing
  <2>1. r.call \in Call /\ c \in Call /\ r \in Stored /\ r \in RowsOf(r.call)
    BY <1>1, SagaInvTypes, RowType DEF StoreTypeOK, Stored
  <2>2. r.call \in SagaCalls BY <2>1 DEF RetriesAgree, SagaCalls
  <2>3. Owns(r.call) BY <1>1, <2>1, <2>2 DEF SagaInv, SagaCallOK, OwnerActs
  <2>4. Settled(KeyOf(c), answer[c]) BY <1>1 DEF SagaInv, SagaCallOK, OwnerActs, Definite
  <2>5. answer[r.call].status = "failed" BY <2>3, <2>4 DEF Owns, Settled
  <2>6. RowsOf(r.call) \cap active = {}
    BY <1>1, <2>2, <2>3, <2>5 DEF SagaInv, SagaCallOK, RefusedIsReleased
  <2> QED BY <2>1, <2>6
<1> QED BY <1>1, SagaInvariant, PTL

-----------------------------------------------------------------------------
(* The loads, with calls of both kinds *)

\* What a step of any call does to the loads.
LEMMA CallStepLoads ==
  ASSUME SagaTypeOK, NEW c \in Call, CallStep(c)
  PROVE  /\ NetworkKept
         /\ \/ active' \subseteq active
            \/ \E R \in SUBSET RowsOf(c) : (\A r \in R : Admits(r)) /\ active' = active \cup R
<1>t. RecordTypes BY SagaTypeParts
<1>1. CASE SagaStep(c)
  <2>1. CASE RegionCommit(c)
    <3>1. RegionRows(c) \in SUBSET RowsOf(c) BY <1>t, NextRegion
    <3> QED BY <2>1, <3>1 DEF RegionCommit, Insert, NetworkKept, network
  <2>2. CASE ~RegionCommit(c)
    BY <1>1, <2>2 DEF SagaStep, SagaReserve, GetByIdempotencyKey, RecoverStep, RecoverDone,
         Create, RegionRefuse, RegionError, PersistStep, MarkCommitted, WriteEntry,
         MarkUndone, UndoStep, UndoDone, CompensateStep, ReplayWinner, RecordRefusal,
         Release, NetworkKept, storeVars, network, ledger
  <2> QED BY <2>1, <2>2
<1>2. CASE Step(c)
  <2>1. CASE Commit(c)
    BY <2>1 DEF Commit, Insert, NetworkKept, network
  <2>2. CASE ~Commit(c)
    BY <1>2, <2>2 DEF Step, Reserve, RecheckReplays, Refuse, UniqueViolation, Restart,
         TxError, RecordRefusal, ReplayWinner, NetworkKept, storeVars, network, ledger
  <2> QED BY <2>1, <2>2
<1> QED BY <1>1, <1>2 DEF CallStep

LEMMA SagaNextLoads ==
  ASSUME DisjointItems, SagaTypeOK, LoadsOK, [SagaNext]_allVars
  PROVE  LoadsOK'
<1>t. StoreTypeOK /\ StoreTypeOK' BY SagaNextTyped DEF SagaTypeOK
<1>1. ASSUME NEW c \in Call, CallStep(c) PROVE LoadsOK'
  BY <1>1, <1>t, CallStepLoads, StepKeepsLoads
<1>2. CASE StoreNext
  <2>1. OnlyReleases \/ OnlyCapacities \/ OnlyEntries BY <1>2, <1>t, StoreStepEffects
  <2>2. active' \subseteq active /\ (NetworkKept \/ PeaksFollow)
    BY <2>1 DEF OnlyReleases, OnlyCapacities, OnlyEntries, LedgerKept, PeaksFollow
  <2> QED BY <1>t, <2>2, StepKeepsLoads
<1>3. ASSUME \/ \E k \in Key : ExpireSaga(k) \/ ExpireIdle(k)
             \/ \E c \in Call : Crash(c)
             \/ \E j \in Journey : JourneyEnds(j)
             \/ UNCHANGED allVars
      PROVE  LoadsOK'
  <2>1. active' \subseteq active /\ NetworkKept
    BY <1>3 DEF ExpireSaga, ExpireIdle, ExpireEntry, Crash, JourneyEnds, ReleaseByJourneyID,
         Release, NetworkKept, allVars, vars, storeVars, network, ledger
  <2> QED BY <1>t, <2>1, StepKeepsLoads
<1> QED BY <1>1, <1>2, <1>3 DEF SagaNext, Environment

\* Calls across regions insert a region at a time, beside single region calls:
\* the active rows of a segment still never exceed its largest capacity.
THEOREM SagasNeverOverSubscribe ==
  ASSUME DisjointItems
  PROVE  SagaSpec => []NoOverSubscription
<1>1. SagaInit => SagaTypeOK /\ LoadsOK
  BY SagaInitTyped, LoadsInit DEF SagaInit, LoadInv
<1>2. SagaTypeOK /\ LoadsOK /\ [SagaNext]_allVars => SagaTypeOK' /\ LoadsOK'
  BY SagaNextTyped, SagaNextLoads
<1>3. LoadsOK => NoOverSubscription
  BY InstantsType DEF LoadsOK, NoOverSubscription
<1> QED BY <1>1, <1>2, <1>3, PTL DEF SagaSpec

\* Nor do the rows of vehicles that are no emergency ever take the buffer,
\* whichever way they were booked.
THEOREM SagasKeepTheBuffer ==
  ASSUME DisjointItems
  PROVE  SagaSpec => []BufferIsKept
<1>1. SagaInit => SagaTypeOK /\ LoadsOK
  BY SagaInitTyped, LoadsInit DEF SagaInit, LoadInv
<1>2. SagaTypeOK /\ LoadsOK /\ [SagaNext]_allVars => SagaTypeOK' /\ LoadsOK'
  BY SagaNextTyped, SagaNextLoads
<1>3. LoadsOK => BufferIsKept
  BY InstantsType DEF LoadsOK, BufferIsKept, NormalOf
<1> QED BY <1>1, <1>2, <1>3, PTL DEF SagaSpec

-----------------------------------------------------------------------------
(* A saga that nobody retries *)

\* No other call has the key or the journey of c.
Alone(c) ==
  \A d \in Call \ {c} : KeyOf(d) # KeyOf(c) /\ Request[d].journey # Request[c].journey

\* What the cleanup job takes for an orphan.
WindowLongOver(r) == ItemOf(r).end < now - OrphanThreshold

\* A record, and what a call found of one, has an owner with its key.
OwnersOK ==
  /\ \A k \in Key : saga[k].owner \in Call => KeyOf(saga[k].owner) = k
  /\ \A c \in Call : found[c].owner \in Call => KeyOf(found[c].owner) = KeyOf(c)

Forward == {"start", "lookup", "create", "region", "persist", "commit", "entry"}

\* On its way, such a call meets no record but its own, is confirmed to nobody,
\* and has lost at most the rows whose windows are long over.
LoneOK(c) ==
  /\ pc[c] \in {"start", "lookup", "create"} => saga[KeyOf(c)].status = "none"
  /\ pc[c] \notin {"recover", "tx"}
  /\ answer[c].status = "reserved" => pc[c] = "done"
  /\ BookedIsStored(c)
  /\ pc[c] \in Forward => \A r \in RowsOf(c) : r \in released => WindowLongOver(r)

LoneInv ==
  /\ SagaTypeOK /\ OwnersOK
  /\ \A c \in SagaCalls : Alone(c) => LoneOK(c)

LEMMA LoneInit == SagaInit => LoneInv
<1> SUFFICES ASSUME SagaInit PROVE LoneInv OBVIOUS
<1>1. SagaTypeOK BY SagaInitTyped
<1>2. OwnersOK
  <2>1. \A c \in Call : KeyOf(c) \in Key BY SlotsAssumption DEF KeyOf
  <2> QED BY <2>1, StoreAssumption DEF SagaInit, OwnersOK, NoSaga
<1>3. ASSUME NEW c \in SagaCalls PROVE LoneOK(c)
  <2>1. /\ c \in Call /\ KeyOf(c) \in Key /\ pc[c] = "start" /\ answer[c] = NoAnswer
        /\ booked[c] = 0 /\ released = {} /\ saga[KeyOf(c)] = NoSaga
    BY SlotsAssumption DEF SagaInit, Init, StoreInit, SagaCalls, KeyOf
  <2>2. \A r \in RowsOf(c) : ~(Rank(r) < 0)
    <3>1. ASSUME NEW r \in RowsOf(c) PROVE ~(Rank(r) < 0) BY <2>1, RankType
    <3> QED BY <3>1
  <2> QED BY <2>1, <2>2 DEF LoneOK, BookedIsStored, NoSaga, NoAnswer
<1> QED BY <1>1, <1>2, <1>3 DEF LoneInv

\* Every record a step leaves behind has the owner it had, or the call that
\* created it.
LEMMA OwnersStep ==
  ASSUME SagaTypeOK, OwnersOK, [SagaNext]_allVars
  PROVE  OwnersOK'
<1>t. saga \in [Key -> SagaRecord] /\ found \in [Call -> SagaRecord] BY DEF SagaTypeOK
<1>k. \A c \in Call : KeyOf(c) \in Key BY SlotsAssumption DEF KeyOf
<1>1. CASE UNCHANGED <<saga, found>> BY <1>1 DEF OwnersOK
<1>2. ASSUME NEW k \in Key, ExpireSaga(k) PROVE OwnersOK'
  <2>1. found' = found /\ saga' = [saga EXCEPT ![k].fresh = FALSE] BY <1>2 DEF ExpireSaga
  <2>2. \A q \in Key : saga'[q].owner = saga[q].owner BY <1>t, <2>1 DEF SagaRecord
  <2> QED BY <2>1, <2>2 DEF OwnersOK
<1>3. ASSUME NEW c \in Call, SagaStep(c) PROVE OwnersOK'
  <2>1. CASE GetByIdempotencyKey(c)
    <3>1. saga' = saga
          /\ (found' = found \/ found' = [found EXCEPT ![c] = saga[KeyOf(c)]])
      BY <2>1 DEF GetByIdempotencyKey, NoSaga
    <3> QED BY <1>t, <1>k, <3>1 DEF OwnersOK
  <2>2. CASE ~GetByIdempotencyKey(c)
    <3>1. found' = found
      BY <1>3, <2>2 DEF SagaStep, SagaReserve, RecoverStep, RecoverDone, Create,
         RegionCommit, RegionRefuse, RegionError, PersistStep, MarkCommitted, WriteEntry,
         MarkUndone, UndoStep, UndoDone, CompensateStep, sagaVars
    <3>2. \/ saga' = saga
          \/ saga' = [saga EXCEPT ![KeyOf(c)] = Saga(c, "PENDING", 0)]
          \/ \E n, st : saga' = [saga EXCEPT ![KeyOf(c)] =
                         [status |-> st, owner |-> saga[KeyOf(c)].owner,
                          steps |-> n, fresh |-> saga[KeyOf(c)].fresh]]
      BY <1>3, <2>2 DEF SagaStep, SagaReserve, RecoverStep, RecoverDone, Create,
         RegionCommit, RegionRefuse, RegionError, PersistStep, MarkCommitted, WriteEntry,
         MarkUndone, UndoStep, UndoDone, CompensateStep, UpdateStepsAndStatus, sagaVars
    <3>3. \A q \in Key : saga'[q].owner = saga[q].owner \/ (q = KeyOf(c) /\ saga'[q].owner = c)
      BY <1>t, <1>k, <3>2 DEF Saga
    <3> QED BY <3>1, <3>3 DEF OwnersOK
  <2> QED BY <2>1, <2>2
<1> QED BY <1>1, <1>2, <1>3 DEF SagaNext, CallStep, Environment, sagaVars, allVars

\* What does not take a step of the saga c leaves its rows as they are, or
\* releases some whose windows are long over.
LonePart(c) ==
  /\ pc'[c] = pc[c] \/ (pc[c] # "done" /\ pc'[c] = "crashed")
  /\ answer'[c] = answer[c] /\ booked'[c] = booked[c]
  /\ saga'[KeyOf(c)].status = saga[KeyOf(c)].status
  /\ Stored \subseteq Stored' /\ now <= now'
  /\ pc[c] \in Forward =>
       \A r \in RowsOf(c) : r \in released' => r \in released \/ WindowLongOver(r)

LEMMA LaterIsOver ==
  ASSUME StoreTypeOK, StoreTypeOK', now <= now', NEW c \in Call, NEW r \in RowsOf(c),
         WindowLongOver(r)
  PROVE  WindowLongOver(r)'
<1>1. ItemOf(r) \in Item BY RowsOfType, RowType
<1>2. ItemOf(r).end \in Int BY <1>1 DEF Item
<1>3. now \in Nat /\ now' \in Nat BY DEF StoreTypeOK
<1> QED BY <1>2, <1>3, StoreAssumption DEF WindowLongOver

LEMMA LonePartStays ==
  ASSUME SagaTypeOK, SagaTypeOK', NEW c \in SagaCalls, LoneOK(c), LonePart(c)
  PROVE  LoneOK(c)'
<1>1. c \in Call /\ StoreTypeOK /\ StoreTypeOK' BY DEF SagaCalls, SagaTypeOK
<1>2. BookedIsStored(c)' BY DEF LoneOK, LonePart, BookedIsStored, Rank
<1>3. ASSUME pc'[c] \in Forward, NEW r \in RowsOf(c), r \in released'
      PROVE  WindowLongOver(r)'
  <2>1. pc[c] \in Forward BY <1>3 DEF LonePart, Forward
  <2>2. WindowLongOver(r) BY <1>3, <2>1 DEF LoneOK, LonePart
  <2> QED BY <1>1, <2>2, LaterIsOver DEF LonePart
<1>4. answer'[c].status = "reserved" => pc'[c] = "done"
  BY DEF LoneOK, LonePart
<1>5. pc'[c] \in {"start", "lookup", "create"} => saga'[KeyOf(c)].status = "none"
  BY DEF LoneOK, LonePart
<1>6. pc'[c] \notin {"recover", "tx"} BY DEF LoneOK, LonePart
<1> QED BY <1>2, <1>3, <1>4, <1>5, <1>6 DEF LoneOK

\* The rows of a call are released by the call, by whoever has its key, or by
\* the event of its journey; all others are too late to matter.
LEMMA OthersRelease ==
  ASSUME SagaTypeOK, OwnersOK, NEW c \in SagaCalls, Alone(c), LoneOK(c),
         NEW d \in Call \ {c}, SagaStep(d)
  PROVE  /\ \A r \in RowsOf(c) : r \in released' => r \in released
         /\ Stored \subseteq Stored' /\ now' = now
<1>0. c \in Call /\ d \in Call BY DEF SagaCalls
<1>1. ASSUME NEW o, CompensateStep(d, o), o \in Call => KeyOf(o) = KeyOf(d)
      PROVE  /\ \A r \in RowsOf(c) : r \in released' => r \in released
             /\ Stored \subseteq Stored' /\ now' = now
  <2>1. o # c BY <1>0, <1>1 DEF Alone
  <2>2. \A r \in RowsOf(c) : r \notin RowsOf(o) BY <2>1 DEF RowsOf
  <2>3. Release(RowsOf(o)) \/ UNCHANGED ledger BY <1>1 DEF CompensateStep
  <2>4. \A r \in RowsOf(c) : r \in released' => r \in released
    BY <2>2, <2>3 DEF Release, ledger
  <2>5. Stored \subseteq Stored' BY <2>3 DEF Release, Stored, ledger
  <2> QED BY <1>1, <2>4, <2>5 DEF CompensateStep
<1>2. CASE RecoverStep(d) BY <1>0, <1>1, <1>2 DEF RecoverStep, OwnersOK
<1>3. CASE UndoStep(d) BY <1>0, <1>1, <1>3 DEF UndoStep
<1>4. CASE ~RecoverStep(d) /\ ~UndoStep(d)
  <2>1. released' = released /\ active \subseteq active' /\ now' = now
    BY <1>4 DEF SagaStep, SagaReserve, GetByIdempotencyKey, RecoverDone, Create,
         RegionCommit, RegionRefuse, RegionError, PersistStep, MarkCommitted, WriteEntry,
         MarkUndone, UndoDone, ReplayWinner, RecordRefusal, Insert, storeVars, ledger
  <2> QED BY <2>1 DEF Stored
<1> QED BY <1>2, <1>3, <1>4

\* A step of another call of either kind.
LEMMA OtherCallApart ==
  ASSUME SagaTypeOK, OwnersOK, NEW c \in SagaCalls, Alone(c), LoneOK(c),
         NEW d \in Call \ {c}, CallStep(d)
  PROVE  LonePart(c)
<1>0. /\ c \in Call /\ d \in Call /\ KeyOf(d) # KeyOf(c) /\ now \in Nat
      /\ pc \in [Call -> Places] /\ answer \in [Call -> Answer]
      /\ saga \in [Key -> SagaRecord] /\ booked \in [Call -> Nat]
      /\ KeyOf(c) \in Key /\ KeyOf(d) \in Key
  BY SlotsAssumption, SagaTypeParts DEF SagaCalls, Alone, KeyOf, CallTypes, RecordTypes, StoreTypeOK
<1>1. CASE SagaStep(d)
  <2>1. pc'[c] = pc[c] /\ answer'[c] = answer[c]
    <3>1. \/ \E l : Goto(d, l)
          \/ \E a : Return(d, a)
          \/ UNCHANGED txVars
      BY <1>1 DEF SagaStep, SagaReserve, GetByIdempotencyKey, RecoverStep, RecoverDone, Create,
         RegionCommit, RegionRefuse, RegionError, PersistStep, MarkCommitted, WriteEntry,
         MarkUndone, UndoStep, UndoDone, ReplayWinner, RecordRefusal
    <3> QED BY <1>0, <3>1 DEF Goto, Return, txVars
  <2>2. booked'[c] = booked[c]
    <3>1. booked' = booked \/ booked' = [booked EXCEPT ![d] = booked[d] + 1]
      BY <1>1 DEF SagaStep, SagaReserve, GetByIdempotencyKey, RecoverStep, RecoverDone, Create,
         RegionCommit, RegionRefuse, RegionError, PersistStep, MarkCommitted, WriteEntry,
         MarkUndone, UndoStep, UndoDone, CompensateStep, sagaVars
    <3> QED BY <1>0, <3>1
  <2>3. saga'[KeyOf(c)] = saga[KeyOf(c)]
    <3>1. saga' = saga \/ \E x : saga' = [saga EXCEPT ![KeyOf(d)] = x]
      BY <1>1 DEF SagaStep, SagaReserve, GetByIdempotencyKey, RecoverStep, RecoverDone, Create,
         RegionCommit, RegionRefuse, RegionError, PersistStep, MarkCommitted, WriteEntry,
         MarkUndone, UndoStep, UndoDone, CompensateStep, UpdateStepsAndStatus, sagaVars
    <3> QED BY <1>0, <3>1
  <2> QED BY <1>0, <1>1, <2>1, <2>2, <2>3, OthersRelease DEF LonePart
<1>2. CASE Step(d) /\ UNCHANGED sagaVars
  <2>1. pc'[c] = pc[c] /\ answer'[c] = answer[c]
    <3>1. \/ \E l : Goto(d, l)
          \/ \E a : Return(d, a)
          \/ UNCHANGED <<pc, answer>>
      BY <1>2 DEF Step, Reserve, RecheckReplays, Refuse, Commit, UniqueViolation, Restart,
         TxError, RecordRefusal, ReplayWinner
    <3> QED BY <1>0, <3>1 DEF Goto, Return
  <2>2. released' = released /\ active \subseteq active' /\ now' = now
    BY <1>2 DEF Step, Reserve, RecheckReplays, Refuse, Commit, UniqueViolation, Restart,
         TxError, RecordRefusal, ReplayWinner, Insert, storeVars, ledger
  <2> QED BY <1>0, <1>2, <2>1, <2>2 DEF LonePart, Stored, sagaVars
<1> QED BY <1>1, <1>2 DEF CallStep

\* What happens around the calls.
LEMMA EnvironmentApart ==
  ASSUME SagaTypeOK, OwnersOK, NEW c \in SagaCalls, Alone(c), LoneOK(c),
         \/ Environment /\ UNCHANGED sagaVars
         \/ \E k \in Key : ExpireSaga(k)
         \/ UNCHANGED allVars
  PROVE  LonePart(c)
<1>0. /\ c \in Call /\ KeyOf(c) \in Key /\ now \in Nat /\ pc \in [Call -> Places]
      /\ saga \in [Key -> SagaRecord] /\ active \subseteq Row
  BY SlotsAssumption, SagaTypeParts DEF SagaCalls, KeyOf, CallTypes, RecordTypes, StoreTypeOK
<1>1. ASSUME NEW k \in Key, ExpireSaga(k) PROVE LonePart(c)
  <2>1. /\ saga' = [saga EXCEPT ![k].fresh = FALSE]
        /\ UNCHANGED <<ledger, now, txVars, booked>>
    BY <1>1 DEF ExpireSaga
  <2>2. saga'[KeyOf(c)].status = saga[KeyOf(c)].status BY <1>0, <2>1 DEF SagaRecord
  <2> QED BY <1>0, <2>1, <2>2 DEF LonePart, ledger, Stored, txVars
<1>2. ASSUME NEW d \in Call, Crash(d), UNCHANGED sagaVars PROVE LonePart(c)
  <2>1. pc' = [pc EXCEPT ![d] = "crashed"] /\ UNCHANGED answer /\ pc[d] # "done"
    BY <1>2 DEF Crash, Goto, InFlight
  <2>2. pc'[c] = pc[c] \/ (pc[c] # "done" /\ pc'[c] = "crashed") BY <1>0, <2>1
  <2> QED BY <1>0, <1>2, <2>1, <2>2 DEF Crash, LonePart, storeVars, ledger, Stored, sagaVars
<1>3. ASSUME NEW k \in Key, ExpireIdle(k), UNCHANGED sagaVars PROVE LonePart(c)
  BY <1>0, <1>3 DEF ExpireIdle, ExpireEntry, LonePart, ledger, Stored, sagaVars, txVars
<1>4. ASSUME NEW j \in Journey, JourneyEnds(j), UNCHANGED sagaVars PROVE LonePart(c)
  <2>1. PICK d \in Call : Request[d].journey = j /\ answer[d].status = "reserved"
    BY <1>4 DEF JourneyEnds
  <2> DEFINE R == {r \in active : JourneyOf(r) = j}
  <2>2. Release(R) /\ UNCHANGED <<now, txVars>> BY <1>4 DEF JourneyEnds, ReleaseByJourneyID
  <2>3. ASSUME pc[c] \in Forward, NEW r \in RowsOf(c), r \in released' PROVE r \in released
    <3>1. d # c BY <2>1, <2>3 DEF LoneOK, Forward
    <3>2. JourneyOf(r) # j BY <2>1, <3>1 DEF Alone, JourneyOf, RowsOf
    <3> QED BY <2>2, <2>3, <3>2 DEF Release
  <2>4. Stored' = Stored BY <2>2 DEF Release, Stored
  <2> QED BY <1>0, <1>4, <2>2, <2>3, <2>4 DEF LonePart, txVars, sagaVars
<1>5. ASSUME StoreNext, UNCHANGED txVars, UNCHANGED sagaVars PROVE LonePart(c)
  <2>1. CASE ReleaseOrphans
    <3>1. Release(Orphans) /\ now' = now BY <2>1 DEF ReleaseOrphans
    <3>2. \A r : r \in released' => r \in released \/ WindowLongOver(r)
      BY <3>1 DEF Release, Orphans, WindowLongOver
    <3>3. Stored' = Stored BY <3>1 DEF Release, Stored
    <3> QED BY <1>0, <1>5, <3>1, <3>2, <3>3 DEF LonePart, txVars, sagaVars
  <2>2. CASE ~ReleaseOrphans
    <3>1. UNCHANGED ledger /\ (now' = now \/ now' = now + 1)
      BY <1>5, <2>2 DEF StoreNext, CreateClosure, UpdateSegmentCapacity, SetCapacities,
           UpdateDefaultSegmentCapacity, RegisterSegments, PurgeExpired, Tick
    <3>2. now <= now' BY <1>0, <3>1
    <3> QED BY <1>0, <1>5, <3>1, <3>2 DEF LonePart, ledger, Stored, txVars, sagaVars
  <2> QED BY <2>1, <2>2
<1>6. CASE UNCHANGED allVars
  BY <1>0, <1>6 DEF LonePart, allVars, vars, storeVars, ledger, Stored, txVars, sagaVars
<1> QED BY <1>1, <1>2, <1>3, <1>4, <1>5, <1>6 DEF Environment

\* What the call itself has stored when it counts a region, or stops counting.
LEMMA LoneBooks ==
  ASSUME SagaTypeOK, NEW c \in SagaCalls, LoneOK(c), SagaStep(c)
  PROVE  BookedIsStored(c)'
<1>0. /\ c \in Call /\ RecordTypes /\ booked \in [Call -> Nat] /\ pc \in [Call -> Places]
  BY SagaTypeParts DEF SagaCalls, RecordTypes, CallTypes
<1>1. \A r \in RowsOf(c) : r.call = c /\ Rank(r) \in Nat BY <1>0, RankType DEF RowsOf
<1>2. /\ \A r \in RowsOf(c) : Rank(r) < booked[c] => r \in Stored
      /\ pc[c] \in {"commit", "entry"} => RowsOf(c) \subseteq Stored
  BY DEF LoneOK, BookedIsStored
<1>3. CASE RegionCommit(c)
  <2>1. Stored' = Stored \cup RegionRows(c) BY <1>3 DEF RegionCommit, Insert, Stored
  <2>2. RegionRows(c) = {r \in RowsOf(c) : Rank(r) = booked[c]} BY <1>0, NextRegion
  <2>3. pc'[c] \in {"persist", "broken"} /\ booked'[c] \in {booked[c], booked[c] + 1}
    BY <1>0, <1>3 DEF RegionCommit, Goto
  <2>4. ASSUME NEW r \in RowsOf(c), Rank(r) < booked'[c] PROVE r \in Stored'
    <3>1. Rank(r) \in Nat /\ booked[c] \in Nat BY <1>0, <1>1
    <3>2. Rank(r) < booked[c] \/ Rank(r) = booked[c] BY <2>3, <2>4, <3>1
    <3> QED BY <1>2, <2>1, <2>2, <3>2
  <2> QED BY <2>3, <2>4 DEF BookedIsStored, Rank
<1>4. CASE ~RegionCommit(c)
  <2>1. Stored' = Stored /\ booked' = booked
    BY <1>4 DEF SagaStep, SagaReserve, GetByIdempotencyKey, RecoverStep, RecoverDone, Create,
       RegionRefuse, RegionError, PersistStep, MarkCommitted, WriteEntry, MarkUndone, UndoStep,
       UndoDone, ReplayWinner, RecordRefusal, CompensateStep, Release, storeVars, sagaVars,
       ledger, Stored
  <2>2. ASSUME pc'[c] \in {"commit", "entry"} PROVE RowsOf(c) \subseteq Stored
    <3>1. CASE PersistStep(c)
      <4>1. RegionRows(c) = {} BY <1>0, <2>2, <3>1 DEF PersistStep, Goto
      <4>2. {r \in RowsOf(c) : Rank(r) = booked[c]} = {} BY <1>0, <4>1, NextRegion
      <4>3. PICK n \in Nat : n = booked[c] BY <1>0
      <4>4. \A r \in RowsOf(c) : Rank(r) < booked[c] BY <1>0, <4>2, <4>3, RegionsEnd
      <4> QED BY <1>2, <4>4
    <3>2. CASE ~PersistStep(c)
      <4>1. \/ \E l \in Places \ {"commit", "entry"} : Goto(c, l)
            \/ \E a : Return(c, a)
            \/ MarkCommitted(c) \/ UNCHANGED txVars
        BY <1>4, <3>2 DEF SagaStep, SagaReserve, GetByIdempotencyKey, RecoverStep, RecoverDone,
           Create, RegionRefuse, RegionError, WriteEntry, MarkUndone, UndoStep, UndoDone,
           ReplayWinner, RecordRefusal, Places, Locations
      <4>2. pc[c] \in {"commit", "entry"}
        BY <1>0, <2>2, <4>1 DEF Goto, Return, MarkCommitted, txVars
      <4> QED BY <1>2, <4>2
    <3> QED BY <3>1, <3>2
  <2> QED BY <1>2, <2>1, <2>2 DEF BookedIsStored, Rank
<1> QED BY <1>3, <1>4

LEMMA LoneOwn ==
  ASSUME SagaTypeOK, NEW c \in SagaCalls, LoneOK(c), SagaStep(c)
  PROVE  LoneOK(c)'
<1>0. /\ c \in Call /\ KeyOf(c) \in Key /\ pc \in [Call -> Places]
      /\ answer \in [Call -> Answer]
  BY SlotsAssumption, SagaTypeParts DEF SagaCalls, KeyOf, CallTypes
<1>1. /\ pc[c] \notin {"recover", "tx", "done"} /\ now' = now
      /\ \A r \in RowsOf(c) : WindowLongOver(r)' = WindowLongOver(r)
  <2>1. pc[c] # "done" /\ now' = now
    BY DEF SagaStep, SagaReserve, GetByIdempotencyKey, RecoverStep, RecoverDone, Create,
       RegionCommit, RegionRefuse, RegionError, PersistStep, MarkCommitted, WriteEntry,
       MarkUndone, UndoStep, UndoDone, CompensateStep, ReplayWinner, RecordRefusal, storeVars
  <2> QED BY <2>1 DEF LoneOK, WindowLongOver
<1>2. BookedIsStored(c)' BY LoneBooks
<1>3. CASE \E a : Return(c, a)
  <2>1. pc'[c] = "done" BY <1>0, <1>3 DEF Return
  <2> QED BY <1>2, <2>1 DEF LoneOK, Forward
<1>4. CASE UndoStep(c)
  <2>1. UNCHANGED txVars /\ pc[c] \in {"undo short", "undo broken"} BY <1>4 DEF UndoStep
  <2> QED BY <1>2, <2>1 DEF LoneOK, Forward, txVars
<1>5. CASE ~(\E a : Return(c, a)) /\ ~UndoStep(c)
  <2>1. released' = released
    BY <1>1, <1>5 DEF SagaStep, SagaReserve, GetByIdempotencyKey, RecoverStep, RecoverDone, Create,
       RegionCommit, RegionRefuse, RegionError, PersistStep, MarkCommitted, WriteEntry,
       MarkUndone, UndoDone, ReplayWinner, RecordRefusal, Insert, storeVars, ledger
  <2>2. \/ /\ pc[c] \in {"start", "lookup"} /\ saga' = saga
           /\ Goto(c, "lookup") \/ Goto(c, "create") \/ Goto(c, "replay") \/ Goto(c, "recover")
           /\ pc[c] = "start" => Goto(c, "lookup")
        \/ /\ pc[c] \in {"create", "region", "persist", "commit"}
           /\ \E l \in {"region", "persist", "commit", "entry", "short", "broken"} : Goto(c, l)
        \/ \E l \in {"undo short", "undo broken", "refused"} : Goto(c, l)
    <3>1. ~(\E a : Return(c, a)) /\ pc[c] # "recover" BY <1>1, <1>5
    <3>2. CASE SagaReserve(c) BY <3>1, <3>2 DEF SagaReserve, sagaVars
    <3>3. CASE GetByIdempotencyKey(c) BY <3>1, <3>3 DEF GetByIdempotencyKey
    <3>4. CASE Create(c) BY <3>1, <3>4 DEF Create
    <3>5. CASE RegionCommit(c) \/ RegionRefuse(c) \/ RegionError(c)
      BY <3>5 DEF RegionCommit, RegionRefuse, RegionError
    <3>6. CASE PersistStep(c) \/ MarkCommitted(c) BY <3>6 DEF PersistStep, MarkCommitted
    <3>7. CASE MarkUndone(c) BY <3>7 DEF MarkUndone
    <3>8. CASE UndoDone(c) BY <3>1, <3>8 DEF UndoDone
    <3>9. CASE \/ RecoverStep(c) \/ RecoverDone(c) \/ WriteEntry(c)
               \/ ReplayWinner(c) \/ RecordRefusal(c)
      BY <3>1, <3>9 DEF RecoverStep, RecoverDone, WriteEntry, ReplayWinner, RecordRefusal
    <3> QED BY <1>5, <3>2, <3>3, <3>4, <3>5, <3>6, <3>7, <3>8, <3>9 DEF SagaStep
  <2>3. answer' = answer /\ \E l \in Places : pc'[c] = l /\ Goto(c, l)
    BY <1>0, <2>2 DEF Goto, Places, Locations
  <2>4. pc'[c] # "recover"
    <3>1. CASE GetByIdempotencyKey(c)
      <4>1. saga[KeyOf(c)].status = "none" BY <3>1 DEF GetByIdempotencyKey, LoneOK
      <4>2. (IF saga[KeyOf(c)].fresh THEN saga[KeyOf(c)] ELSE NoSaga).status = "none"
        BY <4>1 DEF NoSaga
      <4>3. Goto(c, "create") BY <1>5, <3>1, <4>2 DEF GetByIdempotencyKey
      <4> QED BY <1>0, <4>3 DEF Goto
    <3>2. CASE ~GetByIdempotencyKey(c)
      BY <1>0, <1>1, <1>5, <3>2 DEF SagaStep, SagaReserve, RecoverStep, RecoverDone, Create,
       RegionCommit, RegionRefuse, RegionError, PersistStep, MarkCommitted, WriteEntry,
       MarkUndone, UndoDone, ReplayWinner, RecordRefusal, Goto
    <3> QED BY <3>1, <3>2
  <2>5. /\ pc'[c] # "tx" /\ pc'[c] # "start" /\ pc'[c] # "done"
        /\ pc'[c] \in {"start", "lookup", "create"}
             => pc[c] \in {"start", "lookup"} /\ saga' = saga
        /\ pc'[c] \in Forward => pc[c] \in Forward
    BY <1>0, <2>2 DEF Goto, Forward
  <2>6. pc'[c] \in {"start", "lookup", "create"} => saga'[KeyOf(c)].status = "none"
    BY <2>5 DEF LoneOK
  <2>7. answer'[c].status # "reserved" BY <1>1, <2>3 DEF LoneOK
  <2>8. ASSUME pc'[c] \in Forward, NEW r \in RowsOf(c), r \in released'
        PROVE  WindowLongOver(r)'
    BY <1>1, <2>1, <2>5, <2>8 DEF LoneOK
  <2> QED BY <1>2, <2>4, <2>5, <2>6, <2>7, <2>8 DEF LoneOK
<1> QED BY <1>3, <1>4, <1>5

LEMMA LoneStep ==
  ASSUME LoneInv, [SagaNext]_allVars
  PROVE  LoneInv'
<1>1. SagaTypeOK' BY SagaNextTyped DEF LoneInv
<1>2. OwnersOK' BY OwnersStep DEF LoneInv
<1>3. ASSUME NEW c \in SagaCalls, Alone(c) PROVE LoneOK(c)'
  <2>0. SagaTypeOK /\ OwnersOK /\ LoneOK(c) BY <1>3 DEF LoneInv
  <2>1. ASSUME NEW d \in Call \ {c}, CallStep(d) PROVE LoneOK(c)'
    BY <1>1, <1>3, <2>0, <2>1, OtherCallApart, LonePartStays
  <2>2. CASE CallStep(c) BY <2>0, <2>2, LoneOwn DEF CallStep, SagaCalls
  <2>3. CASE \/ Environment /\ UNCHANGED sagaVars
             \/ \E k \in Key : ExpireSaga(k)
             \/ UNCHANGED allVars
    BY <1>1, <1>3, <2>0, <2>3, EnvironmentApart, LonePartStays
  <2> QED BY <2>1, <2>2, <2>3 DEF SagaNext
<1>4. \A c \in SagaCalls : Alone(c)' = Alone(c) BY DEF Alone, KeyOf
<1> QED BY <1>1, <1>2, <1>3, <1>4 DEF LoneInv, Alone, KeyOf, SagaCalls

\* When such a call answers "reserved", its rows hold their slots, unless their
\* windows are so long over that the cleanup job took them.
LoneReservedIsHeld ==
  [][\A c \in SagaCalls :
       Alone(c) /\ pc[c] = "entry" /\ answer'[c] = Reserved(c)
         => \A r \in RowsOf(c) : r \in active \/ WindowLongOver(r)]_allVars

\* A call across regions whose key and journey no other call uses is what the
\* comment on Reserve says, whatever fails and whatever the other calls do: only
\* a retry that takes it for crashed can undo it before it answers.
THEOREM LoneSagasHold == SagaSpec => LoneReservedIsHeld
<1>1. ASSUME LoneInv, NEW c \in SagaCalls, Alone(c), pc[c] = "entry", NEW r \in RowsOf(c)
      PROVE  r \in active \/ WindowLongOver(r)
  <2>1. LoneOK(c) BY <1>1 DEF LoneInv
  <2>2. r \in Stored BY <1>1, <2>1 DEF LoneOK, BookedIsStored
  <2> QED BY <1>1, <2>1, <2>2 DEF LoneOK, Stored, Forward
<1>2. LoneInv => \A c \in SagaCalls : Alone(c) /\ pc[c] = "entry" =>
                   \A r \in RowsOf(c) : r \in active \/ WindowLongOver(r)
  BY <1>1
<1>3. LoneInv /\ [SagaNext]_allVars =>
        [\A c \in SagaCalls :
           Alone(c) /\ pc[c] = "entry" /\ answer'[c] = Reserved(c)
             => \A r \in RowsOf(c) : r \in active \/ WindowLongOver(r)]_allVars
  BY <1>2
<1> QED BY LoneInit, LoneStep, <1>3, PTL DEF SagaSpec, LoneReservedIsHeld

=============================================================================
