--------------------------- MODULE JourneyBooking ---------------------------
(***************************************************************************)
(* The journey service: CreateJourney with its two idempotency caches      *)
(* around the call to the capacity service, the versioned status changes   *)
(* of a journey, and the release of its slots.                             *)
(*                                                                         *)
(* Every attempt to create a journey draws a fresh journey id, so attempts *)
(* and journey ids are one set; reservations are named after the attempt   *)
(* whose reserve call made them.  The capacity service is the one of       *)
(* AtomicBooking: it grants an attempt all of its rows or none.  Reads of  *)
(* journeys go to a replica.  All journeys depart at the same time, so the *)
(* clock counts the phases around that departure.                          *)
(***************************************************************************)
EXTENDS Naturals, FiniteSets

CONSTANTS
  Attempt, Key, Driver,
  KeyOf, DriverOf,  \* the key and the driver of each attempt
  NoAttempt,
  Faults,           \* the failures a run admits, a subset of FaultKinds
  MaxUpdates        \* how many status changes may be under way at once

\* A crash stands for whatever ends a call early: a process that goes away,
\* a statement that fails, an answer or a commit that takes effect but is lost.
FaultKinds == {"crash",
               "save"}  \* the cache entry is not stored, unnoticed

ASSUME JourneyAssumption ==
  /\ {NoAttempt, "none", "error"} \cap Attempt = {}
  /\ KeyOf \in [Attempt -> Key] /\ DriverOf \in [Attempt -> Driver]
  /\ Faults \subseteq FaultKinds /\ MaxUpdates \in Nat

VARIABLES
  journeys,  \* journey.journeys, on the master
  replica,   \* what the replica shows of it
  cache,     \* journey.idempotency_cache
  entry,     \* the capacity service's idempotency entries
  held,      \* the attempts whose rows are active in the capacity service
  pc,        \* where each attempt stands
  got,       \* what its reserve call returned
  answer,    \* what it returned: a journey, or an error of whatever kind
  updates,   \* status changes between their read and their write
  clock      \* the phase of the common departure

callVars == <<pc, got, answer>>
vars == <<journeys, replica, cache, entry, held, callVars, updates, clock>>

Ended == {"CANCELLED", "COMPLETED", "EXPIRED"}
Live == {"APPROVED", "ACTIVE"}
Status == {"NONE", "REJECTED"} \cup Live \cup Ended

NoJourney == [status |-> "NONE", version |-> 0, rsv |-> NoAttempt]
NoReply == [status |-> "none", rsv |-> NoAttempt]

-----------------------------------------------------------------------------
(* The phases: 0 an hour or more before departure, 1 half an hour or more, *)
(* 2 the half hour of grace after it, 3 later, 4 once the windows have     *)
(* ended more than the cleanup threshold ago.  In the half hour before     *)
(* departure a driver may do nothing: it is left out.                      *)
LastPhase == 4
MayBook == clock = 0
MayCancel == clock <= 1
MayActivate == clock = 2
PastGrace == clock >= 3
WindowsOver == clock = 4

Tick ==
  /\ clock < LastPhase /\ clock' = clock + 1
  /\ UNCHANGED <<journeys, replica, cache, entry, held, callVars, updates>>

Replicate ==
  /\ replica' = journeys
  /\ UNCHANGED <<journeys, cache, entry, held, callVars, updates, clock>>

-----------------------------------------------------------------------------
Goto(a, l) == pc' = [pc EXCEPT ![a] = l] /\ UNCHANGED <<got, answer>>
Return(a, x) ==
  /\ pc' = [pc EXCEPT ![a] = "done"]
  /\ answer' = [answer EXCEPT ![a] = x]
  /\ got' = [got EXCEPT ![a] = NoReply]

\* The lookup in the idempotency cache, then the check of the departure.
IdempotencyGet(a) ==
  /\ pc[a] = "start"
  /\ LET c == cache[KeyOf[a]] IN
     \/ c.fresh /\ Return(a, c.journey)
     \/ ~c.fresh /\ MayBook /\ Goto(a, "missed")
     \/ ~c.fresh /\ ~MayBook /\ Return(a, "error")
  /\ UNCHANGED <<journeys, replica, cache, entry, held, updates, clock>>

HasActiveJourney(a) ==
  /\ pc[a] = "missed"
  /\ LET busy == \E b \in Attempt :
           DriverOf[b] = DriverOf[a] /\ replica[b].status \in Live IN
     \/ busy /\ Return(a, "error")
     \/ ~busy /\ Goto(a, "free")
  /\ UNCHANGED <<journeys, replica, cache, entry, held, updates, clock>>

\* The capacity service replays the entry of the key, books, or refuses; a
\* refusal may also reach a call whose key another one has just booked.
CapacityReserve(a) ==
  LET k == KeyOf[a]
      known == entry[k].status # "none"
      Answered(reply) == /\ pc' = [pc EXCEPT ![a] = "answered"]
                         /\ got' = [got EXCEPT ![a] = reply]
                         /\ UNCHANGED answer
  IN
  /\ pc[a] = "free"
  /\ \/ known /\ Answered(entry[k]) /\ UNCHANGED <<entry, held>>
     \/ LET reply == [status |-> "reserved", rsv |-> a] IN
        /\ ~known /\ Answered(reply)
        /\ entry' = [entry EXCEPT ![k] = reply]
        /\ held' = held \cup {a}
     \/ LET reply == [status |-> "failed", rsv |-> NoAttempt] IN
        /\ Answered(reply)
        /\ entry' = IF known THEN entry ELSE [entry EXCEPT ![k] = reply]
        /\ UNCHANGED held
  /\ UNCHANGED <<journeys, replica, cache, updates, clock>>

-----------------------------------------------------------------------------
\* Mutant: the column default PENDING is left in place.
BookedPending(a) == [version |-> 1, rsv |-> got[a].rsv,
                     status |-> IF got[a].status = "failed" THEN "REJECTED" ELSE "PENDING"]

Booked(a) == [version |-> 1, rsv |-> got[a].rsv,
              status |-> IF got[a].status = "failed" THEN "REJECTED" ELSE "APPROVED"]

\* Mutant: the key is looked up on the replica instead of a unique column.
KeySeen(a) ==
  \E b \in Attempt : replica[b] # NoJourney /\ KeyOf[b] = KeyOf[a]

\* The unique idempotency key.
KeyTaken(a) ==
  \E b \in Attempt : journeys[b] # NoJourney /\ KeyOf[b] = KeyOf[a]
\* The index of one live journey per driver.
DriverBusy(a) ==
  \E b \in Attempt : journeys[b].status \in Live /\ DriverOf[b] = DriverOf[a]
\* Mutant: only live journeys hold their key.
ClashesWithLive(a) ==
  \/ \E b \in Attempt : journeys[b].status \in Live /\ KeyOf[b] = KeyOf[a]
  \/ Booked(a).status = "APPROVED" /\ DriverBusy(a)

Clashes(a) ==
  KeyTaken(a) \/ (Booked(a).status = "APPROVED" /\ DriverBusy(a))

\* The journey, its segments, its outbox event and its timeline are stored
\* in one transaction; what was reserved is kept whatever becomes of it.
Create(a) ==
  /\ pc[a] = "answered"
  /\ \/ /\ Clashes(a) /\ Return(a, "error") /\ UNCHANGED journeys
     \/ /\ ~Clashes(a)
        /\ journeys' = [journeys EXCEPT ![a] = Booked(a)]
        /\ Goto(a, "stored")
  /\ UNCHANGED <<replica, cache, entry, held, updates, clock>>

\* ON CONFLICT DO NOTHING: a stale row keeps its place, nobody deletes it.
Save(a) ==
  LET c == cache[KeyOf[a]] IN
  /\ pc[a] = "stored"
  /\ \/ c.journey = NoAttempt
        /\ cache' = [cache EXCEPT ![KeyOf[a]] = [journey |-> a, fresh |-> TRUE]]
     \/ (c.journey # NoAttempt \/ "save" \in Faults) /\ UNCHANGED cache
  /\ Return(a, a)
  /\ UNCHANGED <<journeys, replica, entry, held, updates, clock>>

Crash(a) ==
  /\ "crash" \in Faults
  /\ pc[a] # "done"
  /\ Return(a, "error")
  /\ UNCHANGED <<journeys, replica, cache, entry, held, updates, clock>>

CreateJourney(a) ==
  \/ IdempotencyGet(a) \/ HasActiveJourney(a) \/ CapacityReserve(a)
  \/ Create(a) \/ Save(a)

-----------------------------------------------------------------------------
(* A status change reads the journey on the replica, checks it, and writes *)
(* later on the master if the version is still the one it read.            *)
GetByID(j, from, to) ==
  /\ Cardinality(updates) < MaxUpdates
  /\ replica[j].status \in from
  /\ updates' = updates \cup {[journey |-> j, to |-> to, version |-> replica[j].version]}
  /\ UNCHANGED <<journeys, replica, cache, entry, held, callVars, clock>>

CancelJourney(j) == MayCancel /\ GetByID(j, {"APPROVED"}, "CANCELLED")
ActivateJourney(j) == MayActivate /\ GetByID(j, {"APPROVED"}, "ACTIVE")
CompleteJourney(j) == GetByID(j, {"ACTIVE"}, "COMPLETED")
AdminCancelJourney(j) == GetByID(j, Live, "CANCELLED")

\* Mutant: the comparison of the expiry query is the wrong way round.
ExpireTooEarly(j) == ~PastGrace /\ GetByID(j, {"APPROVED"}, "EXPIRED")

ExpireJourney(j) == PastGrace /\ GetByID(j, {"APPROVED"}, "EXPIRED")

ChangedRow(u) == [journeys[u.journey] EXCEPT !.status = u.to, !.version = @ + 1]

\* Mutant: the update does not compare the version.
UpdateWithoutVersion(u) ==
  /\ u \in updates
  /\ updates' = updates \ {u}
  /\ journeys' = [journeys EXCEPT ![u.journey] = ChangedRow(u)]
  /\ UNCHANGED <<replica, cache, entry, held, callVars, clock>>

UpdateStatusWithEvent(u) ==
  /\ u \in updates
  /\ updates' = updates \ {u}
  /\ journeys' = IF journeys[u.journey].version = u.version
                 THEN [journeys EXCEPT ![u.journey] = ChangedRow(u)]
                 ELSE journeys
  /\ UNCHANGED <<replica, cache, entry, held, callVars, clock>>

UpdateFails(u) ==
  /\ "crash" \in Faults
  /\ u \in updates
  /\ updates' = updates \ {u}
  /\ UNCHANGED <<journeys, replica, cache, entry, held, callVars, clock>>

-----------------------------------------------------------------------------
\* The capacity service consumes the event that ended a journey, perhaps
\* late, perhaps again: it releases the rows that carry the journey's id.
ReleaseByJourneyID(j) ==
  /\ journeys[j].status \in Ended
  /\ held' = held \ {j}
  /\ UNCHANGED <<journeys, replica, cache, entry, callVars, updates, clock>>

\* Mutant: the job releases the rows of known journeys only.
ReleaseOrphansOfJourneys ==
  /\ WindowsOver
  /\ held' = {a \in held : journeys[a] = NoJourney}
  /\ UNCHANGED <<journeys, replica, cache, entry, callVars, updates, clock>>

ReleaseOrphans ==
  /\ WindowsOver
  /\ held' = {}
  /\ UNCHANGED <<journeys, replica, cache, entry, callVars, updates, clock>>

\* Both caches forget a key after a day, which no call outlasts.
Idle(k) == \A a \in Attempt : KeyOf[a] = k => pc[a] \in {"start", "done"}

CacheExpires(k) ==
  /\ Idle(k) /\ cache[k].fresh
  /\ cache' = [cache EXCEPT ![k].fresh = FALSE]
  /\ UNCHANGED <<journeys, replica, entry, held, callVars, updates, clock>>

EntryExpires(k) ==
  /\ Idle(k) /\ entry[k] # NoReply
  /\ entry' = [entry EXCEPT ![k] = NoReply]
  /\ UNCHANGED <<journeys, replica, cache, held, callVars, updates, clock>>

-----------------------------------------------------------------------------
Init ==
  /\ journeys = [a \in Attempt |-> NoJourney]
  /\ replica = journeys
  /\ cache = [k \in Key |-> [journey |-> NoAttempt, fresh |-> FALSE]]
  /\ entry = [k \in Key |-> NoReply]
  /\ held = {}
  /\ pc = [a \in Attempt |-> "start"]
  /\ got = [a \in Attempt |-> NoReply]
  /\ answer = [a \in Attempt |-> "none"]
  /\ updates = {}
  /\ clock = 0

Lifecycle(j) ==
  \/ CancelJourney(j) \/ ActivateJourney(j) \/ CompleteJourney(j)
  \/ AdminCancelJourney(j) \/ ExpireJourney(j)

Next ==
  \/ \E a \in Attempt : CreateJourney(a) \/ Crash(a) \/ Lifecycle(a) \/ ReleaseByJourneyID(a)
  \/ \E u \in updates : UpdateStatusWithEvent(u) \/ UpdateFails(u)
  \/ \E k \in Key : CacheExpires(k) \/ EntryExpires(k)
  \/ Replicate \/ ReleaseOrphans \/ Tick

Spec == Init /\ [][Next]_vars

\* The clock and the replica move on, the jobs of both services run, and a
\* database that is asked to expire a journey again and again answers once.
Fairness ==
  /\ WF_vars(Tick) /\ WF_vars(Replicate) /\ WF_vars(ReleaseOrphans)
  /\ \A a \in Attempt :
       /\ WF_vars(CreateJourney(a))
       /\ WF_vars(ExpireJourney(a))
       /\ SF_vars(\E u \in updates : u.journey = a /\ UpdateStatusWithEvent(u))

FairSpec == Spec /\ Fairness

-----------------------------------------------------------------------------
(* A journey row, a cache entry and a reply are always well formed; no     *)
(* journey is ever stored with the column's default status PENDING.        *)
JourneyRow == [status : Status, version : Nat, rsv : Attempt \cup {NoAttempt}]
Update == [journey : Attempt, to : Status, version : Nat]

JourneyTypeOK ==
  /\ journeys \in [Attempt -> JourneyRow] /\ replica \in [Attempt -> JourneyRow]
  /\ cache \in [Key -> [journey : Attempt \cup {NoAttempt}, fresh : BOOLEAN]]
  /\ entry \in [Key -> [status : {"none", "reserved", "failed"}, rsv : Attempt \cup {NoAttempt}]]
  /\ held \subseteq Attempt
  /\ pc \in [Attempt -> {"start", "missed", "free", "answered", "stored", "done"}]
  /\ got \in [Attempt -> [status : {"none", "reserved", "failed"}, rsv : Attempt \cup {NoAttempt}]]
  /\ answer \in [Attempt -> Attempt \cup {"none", "error"}]
  /\ updates \subseteq Update
  /\ clock \in 0..LastPhase

\* Whatever is retried, replayed, ended or forgotten, an approved or active
\* journey has the slots of its reservation until its windows are over.
LiveIsBacked ==
  \A j \in Attempt :
    journeys[j].status \in Live /\ ~WindowsOver => journeys[j].rsv \in held

\* Calls with one key that are answered by a journey are answered by the
\* same one, and that journey is stored.
SameJourneyForKey ==
  \A a, b \in Attempt :
    /\ answer[a] \in Attempt => journeys[answer[a]] # NoJourney
    /\ KeyOf[a] = KeyOf[b] /\ {answer[a], answer[b]} \subseteq Attempt
         => answer[a] = answer[b]

\* However stale the reads behind it, a status change is one of the life
\* cycle: what has ended never changes, and only what was active completes.
LegalChange ==
  {<<"NONE", "APPROVED">>, <<"NONE", "REJECTED">>,
   <<"APPROVED", "ACTIVE">>, <<"APPROVED", "EXPIRED">>, <<"ACTIVE", "COMPLETED">>,
   <<"APPROVED", "CANCELLED">>, <<"ACTIVE", "CANCELLED">>}

LegalLifecycle ==
  [][\A j \in Attempt :
       journeys'[j] # journeys[j]
         => <<journeys[j].status, journeys'[j].status>> \in LegalChange]_vars

\* A journey that nobody activates is cancelled or expires, although the job
\* reads a replica, loses races against the driver and its writes may fail.
ApprovedEnds ==
  \A j \in Attempt : journeys[j].status = "APPROVED" ~> journeys[j].status # "APPROVED"

\* Slots reserved for a journey that was never stored come back, and so do
\* those of any other journey, whether or not its last event was consumed.
SlotsReturn ==
  \A a \in Attempt : a \in held ~> a \notin held

\* While the reservation of an ended journey is held, the event that ended
\* it, which names the journey, finds rows to release.  (It does not when the
\* journey took over the reservation of an earlier attempt.)
EventFreesReservation ==
  \A j \in Attempt :
    journeys[j].status \in Ended /\ journeys[j].rsv \in held => j \in held

=============================================================================
