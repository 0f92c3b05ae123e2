------------------------------ MODULE ReserveTx ------------------------------
(***************************************************************************)
(* Reserve calls whose segments lie in one region: the fast path of        *)
(* ReservationService.Reserve with doReserveTx.  Each call is a goroutine  *)
(* that talks to the store in separate steps; everything another call, the *)
(* cleanup job, the event consumer or an admin does may fall between them. *)
(*                                                                         *)
(* A serializable transaction is one step.  What a transaction that aborts *)
(* has read may be stale, so which error ends it is a free choice.         *)
(***************************************************************************)
EXTENDS CapacityStore

CONSTANTS
  MaxTxRetries,  \* how often a serialization failure is retried
  Faults         \* the failures a run admits, a subset of FaultKinds

FaultKinds == {"crash",     \* the process or its client goes away mid-call
               "db",        \* a statement fails and changes nothing
               "ambiguous", \* COMMIT takes effect but reports an error
               "retry",     \* CockroachDB restarts the transaction
               "save",      \* an update of a saga record fails, unnoticed
               "release"}   \* a compensating release fails, unnoticed

ASSUME TxAssumption == MaxTxRetries \in Nat /\ Faults \subseteq FaultKinds

VARIABLES
  pc,      \* where each call stands
  tries,   \* serialization failures it has retried
  answer   \* what it returned: the response status and reservation id

txVars == <<pc, tries, answer>>
vars == <<storeVars, txVars>>

NoAnswer == [status |-> "none", rsv |-> NoCall]
Error == [status |-> "error", rsv |-> NoCall]
Invalid == [status |-> "invalid", rsv |-> NoCall]
Failed == [status |-> "failed", rsv |-> NoCall]
Reserved(c) == [status |-> "reserved", rsv |-> c]

Goto(c, l) == pc' = [pc EXCEPT ![c] = l] /\ UNCHANGED <<tries, answer>>
Return(c, a) ==
  /\ pc' = [pc EXCEPT ![c] = "done"]
  /\ answer' = [answer EXCEPT ![c] = a]
  /\ UNCHANGED tries

-----------------------------------------------------------------------------
\* Validation, then the idempotency check made before any lock is taken.
Reserve(c) ==
  /\ pc[c] = "start"
  /\ UNCHANGED storeVars
  /\ IF Request[c].items = <<>> THEN Return(c, Invalid)
     ELSE \/ Hit(KeyOf(c)) /\ Return(c, Replay(KeyOf(c)))
          \/ ~Hit(KeyOf(c)) /\ Goto(c, "tx")
          \/ "db" \in Faults /\ Return(c, Error)

\* The second check, inside the transaction.
RecheckReplays(c) ==
  /\ pc[c] = "tx" /\ Hit(KeyOf(c))
  /\ Return(c, Replay(KeyOf(c)))
  /\ UNCHANGED storeVars

\* Some segment refuses: the transaction is rolled back.
Refuse(c) ==
  /\ pc[c] = "tx" /\ ~Hit(KeyOf(c))
  /\ \E r \in RowsOf(c) : ~Admits(r)
  /\ Goto(c, "refused")
  /\ UNCHANGED storeVars

\* Mutant: the cache has no primary key.
CommitWithoutKey(c) ==
  /\ pc[c] = "tx"
  /\ \A r \in RowsOf(c) : Admits(r)
  /\ Insert(RowsOf(c))
  /\ idem' = [idem EXCEPT ![KeyOf(c)] = Entry("reserved", c)]
  /\ UNCHANGED <<network, purged, now>>
  /\ Return(c, Reserved(c))

\* All rows and the cache entry are inserted in one commit; the caller of an
\* ambiguous commit sees an error although the commit took effect.
Commit(c) ==
  /\ pc[c] = "tx"
  /\ idem[KeyOf(c)].status = "absent"
  /\ \A r \in RowsOf(c) : Admits(r)
  /\ Insert(RowsOf(c))
  /\ idem' = [idem EXCEPT ![KeyOf(c)] = Entry("reserved", c)]
  /\ UNCHANGED <<network, purged, now>>
  /\ \/ Return(c, Reserved(c))
     \/ "ambiguous" \in Faults /\ Return(c, Error)

\* The key was inserted by another call since this transaction looked, or is
\* still held by an expired entry: the primary key refuses this insert.
UniqueViolation(c) ==
  /\ pc[c] = "tx"
  /\ idem[KeyOf(c)].status # "absent"
  /\ Goto(c, "replay")
  /\ UNCHANGED storeVars

\* Mutant: one attempt too many.
RestartOnceMore(c) ==
  /\ pc[c] = "tx" /\ "retry" \in Faults
  /\ tries[c] <= MaxTxRetries
  /\ tries' = [tries EXCEPT ![c] = @ + 1]
  /\ UNCHANGED <<pc, answer, storeVars>>

\* isCRDBRetryError: the whole transaction runs again, a bounded number of times.
Restart(c) ==
  /\ pc[c] = "tx" /\ "retry" \in Faults
  /\ IF tries[c] < MaxTxRetries
     THEN tries' = [tries EXCEPT ![c] = @ + 1] /\ UNCHANGED <<pc, answer>>
     ELSE Return(c, Error)
  /\ UNCHANGED storeVars

TxError(c) ==
  /\ pc[c] = "tx" /\ "db" \in Faults
  /\ Return(c, Error)
  /\ UNCHANGED storeVars

\* The refusal is recorded outside any transaction; an error is only logged.
RecordRefusal(c) ==
  /\ pc[c] = "refused"
  /\ Return(c, Failed)
  /\ UNCHANGED <<network, ledger, now>>
  /\ \/ InsertOnConflictIgnore(KeyOf(c), Entry("failed", NoCall))
     \/ "db" \in Faults /\ UNCHANGED cache

\* Mutant: no entry is taken for a refusal.
ReplayOrRefuse(c) ==
  /\ pc[c] = "replay"
  /\ UNCHANGED storeVars
  /\ Return(c, IF Hit(KeyOf(c)) THEN Replay(KeyOf(c)) ELSE Failed)

\* The winner's entry is looked up, once.
ReplayWinner(c) ==
  /\ pc[c] = "replay"
  /\ UNCHANGED storeVars
  /\ IF Hit(KeyOf(c)) THEN Return(c, Replay(KeyOf(c))) \/ ("db" \in Faults /\ Return(c, Error))
     ELSE Return(c, Error)

InFlight(c) == pc[c] \notin {"start", "done", "crashed"}

\* A call that dies returns nothing; its open transaction rolls back.
Crash(c) ==
  /\ "crash" \in Faults
  /\ InFlight(c)
  /\ Goto(c, "crashed")
  /\ UNCHANGED storeVars

-----------------------------------------------------------------------------
\* An entry lives for a day and a call for seconds: a call that was in flight
\* when an entry was made has ended when the entry expires.
ExpireIdle(k) ==
  /\ \A c \in Call : KeyOf(c) = k => ~InFlight(c)
  /\ ExpireEntry(k)
  /\ UNCHANGED txVars

\* A journey can only end once it was confirmed, which takes a reserve call
\* of its own that was answered "reserved".
JourneyEnds(j) ==
  /\ \E c \in Call : Request[c].journey = j /\ answer[c].status = "reserved"
  /\ ReleaseByJourneyID(j)
  /\ UNCHANGED txVars

Step(c) ==
  \/ Reserve(c) \/ RecheckReplays(c) \/ Refuse(c) \/ Commit(c)
  \/ UniqueViolation(c) \/ Restart(c) \/ TxError(c)
  \/ RecordRefusal(c) \/ ReplayWinner(c)

Init ==
  /\ StoreInit
  /\ pc = [c \in Call |-> "start"]
  /\ tries = [c \in Call |-> 0]
  /\ answer = [c \in Call |-> NoAnswer]

Next ==
  \/ \E c \in Call : Step(c) \/ Crash(c)
  \/ \E k \in Key : ExpireIdle(k)
  \/ \E j \in Journey : JourneyEnds(j)
  \/ StoreNext /\ UNCHANGED txVars

Spec == Init /\ [][Next]_vars

\* A goroutine that serves a call is scheduled, the clock goes on and the
\* cleanup ticker fires: nothing else has to happen, no retry has to come.
FairSpec ==
  /\ Spec
  /\ \A c \in Call : WF_vars(InFlight(c) /\ Step(c))
  /\ WF_vars(Tick /\ UNCHANGED txVars)
  /\ WF_vars(ReleaseOrphans /\ UNCHANGED txVars)

-----------------------------------------------------------------------------
Answer == [status: {"none", "error", "invalid", "absent", "failed", "reserved"},
           rsv: Call \cup {NoCall}]

\* The store, and where each call stands: its retries stay within the bound.
TypeOK ==
  /\ StoreTypeOK
  /\ pc \in [Call -> {"start", "tx", "refused", "replay", "done", "crashed"}]
  /\ tries \in [Call -> 0..MaxTxRetries]
  /\ answer \in [Call -> Answer]

\* At every instant the active rows of a segment fit in the largest capacity
\* it ever had, however the per-segment checks and inserts of several calls,
\* releases and admin updates interleave (an admin may lower the capacity
\* under what is booked, hence the largest).
NoOverSubscription ==
  \A s \in Segment, t \in Instants : Load(active, s, t) <= peak[s]

\* Normal bookings never take the last Buffer half slots: the check counts
\* emergency rows against the smaller limit too, so emergency traffic that
\* came first only tightens it.
BufferIsKept ==
  \A s \in Segment, t \in Instants :
    Load({r \in active : PriorityOf(r) = "normal"}, s, t)
      <= EffectiveCapacity(peak[s], "normal")

\* A key books once: two calls with the same key leave rows behind only if
\* the key's cache entry was deleted in between, whatever crashed, was
\* retried, raced, or committed without its caller learning so.
OneReservationPerKey ==
  \A r, q \in Stored :
    KeyOf(r.call) = KeyOf(q.call) /\ r.call # q.call => KeyOf(r.call) \in purged

\* Whoever is told "reserved", by the commit or by any replay of the cache,
\* is told the id of a reservation of its own key with every row in place.
ReservedIsBacked ==
  \A c \in Call : answer[c].status = "reserved" =>
    /\ answer[c].rsv # NoCall
    /\ KeyOf(answer[c].rsv) = KeyOf(c)
    /\ RowsOf(answer[c].rsv) \subseteq Stored

\* The single region path keeps the promise of AtomicBooking: all rows or
\* none, once for a key, never beyond the limit of the moment.
Booking == INSTANCE AtomicBooking WITH
  limit <- capacity,
  held <- active,
  used <- {k \in Key : idem[k].status = "reserved"}
BookingSpec == Booking!BookingSpec

\* Rows nobody will cancel (their caller crashed, or was told of an error by
\* an ambiguous commit) give their slots back all the same.
SlotsComeBack == \A c \in Call : RowsOf(c) \cap active # {} ~> RowsOf(c) \cap active = {}

=============================================================================
