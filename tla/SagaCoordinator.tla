--------------------------- MODULE SagaCoordinator ---------------------------
(***************************************************************************)
(* Reserve calls whose segments lie in several regions: one transaction    *)
(* per region under a persisted saga record, undone by compensation.  Calls*)
(* within one region run beside them, as in ReserveTx, on the same store.  *)
(*                                                                         *)
(* A key has one saga record for ever: idx_sagas_idem is unique and no code*)
(* deletes sagas.  The saga id and the reservation id shared by the regions*)
(* are those of the call that created the record.                          *)
(***************************************************************************)
EXTENDS ReserveTx

CONSTANTS
  RegionOf   \* the region of each segment, numbered in their sorted order

ASSUME SagaAssumption == RegionOf \in [Segment -> Nat]

VARIABLES
  saga,    \* reservation_sagas by idempotency key
  found,   \* the record each call read before it decided what to do
  booked,  \* reservedSteps: how many regions the call has reserved
  undo     \* how many steps the call still has to release

sagaVars == <<saga, found, booked, undo>>
allVars == <<vars, sagaVars>>

NoSaga == [status |-> "none", owner |-> NoCall, steps |-> 0, fresh |-> FALSE]
Saga(c, status, steps) == [status |-> status, owner |-> c, steps |-> steps, fresh |-> TRUE]

\* The regions a set of rows touches.
RegionsOf(R) == {RegionOf[ItemOf(r).seg] : r \in R}
CrossRegion(c) == Cardinality(RegionsOf(RowsOf(c))) > 1

\* groupByRegion and its order: the rows of the n-th region of call c.
Part(c, n) ==
  {r \in RowsOf(c) :
     Cardinality({g \in RegionsOf(RowsOf(c)) : g < RegionOf[ItemOf(r).seg]}) = n - 1}

\* UPDATE ... WHERE saga_id: the one record of the key, whatever its status has
\* become since; a failure is logged at most.
UpdateStepsAndStatus(c, steps, status) ==
  \/ saga' = [saga EXCEPT ![KeyOf(c)] = [status |-> status, owner |-> saga[KeyOf(c)].owner,
                                         steps |-> steps, fresh |-> saga[KeyOf(c)].fresh]]
  \/ "save" \in Faults /\ saga' = saga

-----------------------------------------------------------------------------
\* Validation and the first look at the cache are those of every Reserve.
SagaReserve(c) ==
  /\ pc[c] = "start"
  /\ UNCHANGED <<storeVars, sagaVars>>
  /\ \/ Hit(KeyOf(c)) /\ Return(c, Replay(KeyOf(c)))
     \/ ~Hit(KeyOf(c)) /\ Goto(c, "lookup")
     \/ "db" \in Faults /\ Return(c, Error)

\* An existing record decides: a committed saga is replayed, a pending one is
\* taken for a crashed one and undone, any other is ignored.
GetByIdempotencyKey(c) ==
  LET s == IF saga[KeyOf(c)].fresh THEN saga[KeyOf(c)] ELSE NoSaga IN
  /\ pc[c] = "lookup"
  /\ UNCHANGED <<storeVars, saga, booked>>
  /\ \/ /\ s.status = "COMMITTED"
        /\ Goto(c, "replay") /\ UNCHANGED <<found, undo>>
     \/ /\ s.status = "PENDING"
        /\ Goto(c, "recover")
        /\ found' = [found EXCEPT ![c] = s]
        /\ undo' = [undo EXCEPT ![c] = s.steps]
     \/ /\ s.status \notin {"COMMITTED", "PENDING"}
        /\ Goto(c, "create") /\ UNCHANGED <<found, undo>>
     \/ /\ "db" \in Faults
        /\ Return(c, Error) /\ UNCHANGED <<found, undo>>

\* Mutant: the loop over the steps has no end.
CompensateEndlessly(c, owner) ==
  /\ undo' = [undo EXCEPT ![c] = @ - 1]
  /\ Release(RowsOf(owner))
  /\ UNCHANGED <<network, cache, now, saga, found, booked>>

\* compensateSteps: one ReleaseByReservationID per step.  Each releases every
\* row of the reservation, in all regions; a failed one is only logged.
CompensateStep(c, owner) ==
  /\ undo[c] > 0
  /\ undo' = [undo EXCEPT ![c] = @ - 1]
  /\ \/ Release(RowsOf(owner))
     \/ "release" \in Faults /\ UNCHANGED ledger
  /\ UNCHANGED <<network, cache, now, saga, found, booked>>

RecoverStep(c) ==
  /\ pc[c] = "recover"
  /\ CompensateStep(c, found[c].owner)
  /\ UNCHANGED txVars

\* compensateSaga writes back the steps it read, after their release.
RecoverDone(c) ==
  /\ pc[c] = "recover" /\ undo[c] = 0
  /\ UpdateStepsAndStatus(c, found[c].steps, "COMPENSATED")
  /\ Goto(c, "create")
  /\ UNCHANGED <<storeVars, found, booked, undo>>

\* Mutant: the index is unique among pending records only.
CreateAfterCompensation(c) ==
  /\ pc[c] = "create"
  /\ saga[KeyOf(c)].status # "PENDING"
  /\ saga' = [saga EXCEPT ![KeyOf(c)] = Saga(c, "PENDING", 0)]
  /\ Goto(c, "region")
  /\ UNCHANGED <<storeVars, found, booked, undo>>

\* Mutant: a refused record sends the call back to the lookup.
CreateOrLookUpAgain(c) ==
  /\ pc[c] = "create"
  /\ UNCHANGED <<storeVars, found, booked, undo>>
  /\ IF saga[KeyOf(c)].status = "none"
     THEN saga' = [saga EXCEPT ![KeyOf(c)] = Saga(c, "PENDING", 0)] /\ Goto(c, "region")
     ELSE saga' = saga /\ Goto(c, "lookup")

\* The unique index on the key refuses a second record, whatever its status.
Create(c) ==
  /\ pc[c] = "create"
  /\ UNCHANGED <<storeVars, found, booked, undo>>
  /\ LET insert == saga' = [saga EXCEPT ![KeyOf(c)] = Saga(c, "PENDING", 0)]
         taken == saga[KeyOf(c)].status # "none"
     IN \/ ~taken /\ insert /\ Goto(c, "region")
        \/ ~taken /\ insert /\ "ambiguous" \in Faults /\ Return(c, Error)
        \/ taken /\ saga' = saga /\ Return(c, Error)
        \/ "db" \in Faults /\ saga' = saga /\ Return(c, Error)

-----------------------------------------------------------------------------
\* doReserveSegmentsTx for the next region.
RegionRows(c) == Part(c, booked[c] + 1)

\* Mutant: the regional transaction forgets the capacity check.
RegionCommitUnchecked(c) ==
  /\ pc[c] = "region"
  /\ Insert(RegionRows(c))
  /\ Goto(c, "persist")
  /\ booked' = [booked EXCEPT ![c] = @ + 1]
  /\ UNCHANGED <<network, cache, now, saga, found, undo>>

RegionCommit(c) ==
  /\ pc[c] = "region"
  /\ \A r \in RegionRows(c) : Admits(r)
  /\ Insert(RegionRows(c))
  /\ UNCHANGED <<network, cache, now, saga, found, undo>>
  /\ \/ Goto(c, "persist") /\ booked' = [booked EXCEPT ![c] = @ + 1]
     \/ "ambiguous" \in Faults /\ Goto(c, "broken") /\ UNCHANGED booked

RegionRefuse(c) ==
  /\ pc[c] = "region"
  /\ \E r \in RegionRows(c) : ~Admits(r)
  /\ Goto(c, "short")
  /\ UNCHANGED <<storeVars, sagaVars>>

\* A statement fails, or the restarts of this region's transaction run out.
RegionError(c) ==
  /\ pc[c] = "region"
  /\ Faults \cap {"db", "retry"} # {}
  /\ Goto(c, "broken")
  /\ UNCHANGED <<storeVars, sagaVars>>

\* Mutant: the loop over the regions stops one short.
PersistLastStepEarly(c) ==
  /\ pc[c] = "persist"
  /\ UpdateStepsAndStatus(c, booked[c], "PENDING")
  /\ Goto(c, IF Part(c, booked[c] + 2) = {} THEN "commit" ELSE "region")
  /\ UNCHANGED <<storeVars, found, booked, undo>>

PersistStep(c) ==
  /\ pc[c] = "persist"
  /\ UpdateStepsAndStatus(c, booked[c], "PENDING")
  /\ Goto(c, IF RegionRows(c) = {} THEN "commit" ELSE "region")
  /\ UNCHANGED <<storeVars, found, booked, undo>>

MarkCommitted(c) ==
  /\ pc[c] = "commit"
  /\ UpdateStepsAndStatus(c, booked[c], "COMMITTED")
  /\ Goto(c, "entry")
  /\ UNCHANGED <<storeVars, found, booked, undo>>

\* The cache entry is written last, outside any transaction.
WriteEntry(c) ==
  /\ pc[c] = "entry"
  /\ \/ InsertOnConflictIgnore(KeyOf(c), Entry("reserved", c))
     \/ "db" \in Faults /\ UNCHANGED cache
  /\ Return(c, Reserved(c))
  /\ UNCHANGED <<network, ledger, now, sagaVars>>

\* Mutant: the last reserved region is not undone.
MarkAllButLastUndone(c) ==
  /\ pc[c] \in {"short", "broken"}
  /\ UpdateStepsAndStatus(c, booked[c], "COMPENSATED")
  /\ undo' = [undo EXCEPT ![c] = IF booked[c] = 0 THEN 0 ELSE booked[c] - 1]
  /\ Goto(c, "undo short")
  /\ UNCHANGED <<storeVars, found, booked>>

\* No room in some region, or an error: the record gets its final status
\* first and the regions are released afterwards.
MarkUndone(c) ==
  /\ pc[c] \in {"short", "broken"}
  /\ UpdateStepsAndStatus(c, booked[c],
       IF pc[c] = "short" THEN "COMPENSATED" ELSE "FAILED")
  /\ undo' = [undo EXCEPT ![c] = booked[c]]
  /\ Goto(c, IF pc[c] = "short" THEN "undo short" ELSE "undo broken")
  /\ UNCHANGED <<storeVars, found, booked>>

UndoStep(c) ==
  /\ pc[c] \in {"undo short", "undo broken"}
  /\ CompensateStep(c, c)
  /\ UNCHANGED txVars

\* A refusal goes on to be recorded in the cache (RecordRefusal); an error is
\* returned as it is.
UndoDone(c) ==
  /\ pc[c] \in {"undo short", "undo broken"} /\ undo[c] = 0
  /\ IF pc[c] = "undo short" THEN Goto(c, "refused") ELSE Return(c, Error)
  /\ UNCHANGED <<storeVars, sagaVars>>

-----------------------------------------------------------------------------
SagaStep(c) ==
  \/ SagaReserve(c) \/ GetByIdempotencyKey(c)
  \/ RecoverStep(c) \/ RecoverDone(c) \/ Create(c)
  \/ RegionCommit(c) \/ RegionRefuse(c) \/ RegionError(c) \/ PersistStep(c)
  \/ MarkCommitted(c) \/ WriteEntry(c)
  \/ MarkUndone(c) \/ UndoStep(c) \/ UndoDone(c)
  \/ (ReplayWinner(c) \/ RecordRefusal(c)) /\ UNCHANGED sagaVars

CallStep(c) ==
  \/ CrossRegion(c) /\ SagaStep(c)
  \/ ~CrossRegion(c) /\ Step(c) /\ UNCHANGED sagaVars

\* The lookup of sagas looks back a day, like the cache.
ExpireSaga(k) ==
  /\ \A c \in Call : KeyOf(c) = k => ~InFlight(c)
  /\ saga[k].fresh
  /\ saga' = [saga EXCEPT ![k].fresh = FALSE]
  /\ idem' = [idem EXCEPT ![k].fresh = FALSE]
  /\ UNCHANGED <<purged, network, ledger, now, txVars, found, booked, undo>>

SagaInit ==
  /\ Init
  /\ saga = [k \in Key |-> NoSaga]
  /\ found = [c \in Call |-> NoSaga]
  /\ booked = [c \in Call |-> 0]
  /\ undo = [c \in Call |-> 0]

Environment ==
  \/ \E c \in Call : Crash(c)
  \/ \E k \in Key : saga[k].status = "none" /\ ExpireIdle(k)
  \/ \E j \in Journey : JourneyEnds(j)
  \/ StoreNext /\ UNCHANGED txVars

SagaNext ==
  \/ \E c \in Call : CallStep(c)
  \/ \E k \in Key : ExpireSaga(k)
  \/ Environment /\ UNCHANGED sagaVars

SagaSpec == SagaInit /\ [][SagaNext]_allVars

\* As in ReserveTx: calls in flight go on, time passes, the cleanup job runs.
FairSagaSpec ==
  /\ SagaSpec
  /\ \A c \in Call : WF_allVars(InFlight(c) /\ CallStep(c))
  /\ WF_allVars(Tick /\ UNCHANGED <<txVars, sagaVars>>)
  /\ WF_allVars(ReleaseOrphans /\ UNCHANGED <<txVars, sagaVars>>)

-----------------------------------------------------------------------------
SagaRecord == [status: {"none", "PENDING", "COMMITTED", "COMPENSATED", "FAILED"},
               owner: Call \cup {NoCall}, steps: Nat, fresh: BOOLEAN]

SagaTypeOK ==
  /\ StoreTypeOK
  /\ pc \in [Call -> {"start", "tx", "refused", "replay", "done", "crashed", "lookup",
                      "recover", "create", "region", "persist", "commit", "entry",
                      "short", "broken", "undo short", "undo broken"}]
  /\ tries \in [Call -> 0..MaxTxRetries]
  /\ answer \in [Call -> Answer]
  /\ saga \in [Key -> SagaRecord]
  /\ found \in [Call -> SagaRecord]
  /\ booked \in [Call -> Nat]
  /\ undo \in [Call -> Nat]

SagaCalls == {c \in Call : CrossRegion(c)}

\* However a call, its retries and their recoveries interleave, and for as
\* long as the service lives, rows of one key come from one call only: the
\* other calls of the key release rows but never insert any.
OneSagaPerKey ==
  \A r, q \in Stored :
    r.call \in SagaCalls /\ KeyOf(r.call) = KeyOf(q.call) => r.call = q.call

\* Two calls of a key that both get a definite answer get the same: only the
\* owner of the saga record comes to an answer, the others replay it.
DefiniteAnswersAgree ==
  \A c, d \in SagaCalls :
    /\ KeyOf(c) = KeyOf(d)
    /\ {answer[c].status, answer[d].status} \subseteq {"reserved", "failed"}
    => answer[c] = answer[d]

\* Once a caller is told "failed", no row of any call with its key holds slots.
FailedHoldsNothing ==
  \A c \in SagaCalls : answer[c].status = "failed" =>
    \A r \in active : KeyOf(r.call) # KeyOf(c)

\* A record that says COMMITTED stands for a reservation whose rows were
\* inserted in every region, also when updates of the record get lost and
\* others recover it meanwhile.
CommittedIsWhole ==
  \A k \in Key : saga[k].status = "COMMITTED" => RowsOf(saga[k].owner) \subseteq Stored

\* Every call comes to an end, whatever fails on its way: restarts are bounded
\* and neither a lost insert nor a saga found pending sends a call round again.
CallsEnd == \A c \in Call : InFlight(c) ~> ~InFlight(c)

-----------------------------------------------------------------------------
\* What comments and docs of the service say, and the code does not do.

\* "Reserve atomically reserves capacity across all requested segments": when
\* the owner answers "reserved", its rows hold their slots.
ReservedIsHeld ==
  [][\A c \in SagaCalls : pc[c] = "entry" /\ answer'[c] = Reserved(c)
       => RowsOf(c) \subseteq active]_allVars

=============================================================================
