----------------------- MODULE JourneyBooking_proofs -----------------------
(***************************************************************************)
(* The life cycle of journeys, the one journey of a key and the slots of   *)
(* live journeys, for any number of attempts, keys and drivers.            *)
(***************************************************************************)
EXTENDS JourneyBooking, TLAPS

USE JourneyAssumption DEF LastPhase, WindowsOver

-----------------------------------------------------------------------------
(* The inductive invariant. *)

Stored(j) == journeys[j] # NoJourney

\* A replica shows an older version of a journey or the journey itself, and a
\* status change under way is a legal one unless it is going to be refused.
VersionsOK ==
  /\ \A j \in Attempt :
       /\ replica[j].version <= journeys[j].version
       /\ replica[j].version = journeys[j].version => replica[j] = journeys[j]
       /\ journeys[j].version = 0 <=> ~Stored(j)
       /\ journeys[j].status = "NONE" <=> ~Stored(j)
  /\ \A u \in updates :
       /\ u.version <= journeys[u.journey].version
       /\ u.version = journeys[u.journey].version
            => /\ journeys[u.journey].status # "NONE"
               /\ <<journeys[u.journey].status, u.to>> \in LegalChange

OneJourneyPerKey ==
  \A i, j \in Attempt : Stored(i) /\ Stored(j) /\ KeyOf[i] = KeyOf[j] => i = j

\* What is remembered for a key, by a cache or by a call, is a stored journey
\* with that key.
CachesOK ==
  /\ \A k \in Key :
       /\ cache[k].fresh => cache[k].journey \in Attempt
       /\ cache[k].journey \in Attempt
            => Stored(cache[k].journey) /\ KeyOf[cache[k].journey] = k
  /\ \A a \in Attempt :
       /\ pc[a] = "stored" => Stored(a)
       /\ answer[a] \in Attempt => Stored(answer[a]) /\ KeyOf[answer[a]] = KeyOf[a]

\* A reserve call of key k was told the truth: the slots of an attempt of that
\* key are held, unless its journey is stored or everything is over.
Truthful(reply, k) ==
  reply.status = "reserved" =>
    /\ reply.rsv \in Attempt
    /\ KeyOf[reply.rsv] = k
    /\ reply.rsv \in held \/ Stored(reply.rsv) \/ WindowsOver

RepliesOK ==
  /\ \A k \in Key : Truthful(entry[k], k)
  /\ \A a \in Attempt :
       pc[a] = "answered" => got[a].status # "none" /\ Truthful(got[a], KeyOf[a])

\* The slots of a live journey were reserved by an attempt with its key.
LiveHasSlots ==
  \A j \in Attempt : journeys[j].status \in Live =>
    /\ journeys[j].rsv \in Attempt
    /\ KeyOf[journeys[j].rsv] = KeyOf[j]
    /\ ~WindowsOver => journeys[j].rsv \in held

IInv == /\ JourneyTypeOK /\ VersionsOK /\ OneJourneyPerKey
        /\ CachesOK /\ RepliesOK /\ LiveHasSlots

-----------------------------------------------------------------------------
LEMMA InitOK == Init => IInv
<1> SUFFICES ASSUME Init PROVE IInv OBVIOUS
<1> USE DEF Init, NoJourney, NoReply, Live, Ended, Status, JourneyRow, Update
<1>1. JourneyTypeOK BY DEF JourneyTypeOK
<1>2. VersionsOK BY DEF VersionsOK, Stored
<1>3. OneJourneyPerKey BY DEF OneJourneyPerKey, Stored
<1>4. CachesOK BY DEF CachesOK
<1>5. RepliesOK BY DEF RepliesOK, Truthful
<1>6. LiveHasSlots BY DEF LiveHasSlots
<1> QED BY <1>1, <1>2, <1>3, <1>4, <1>5, <1>6 DEF IInv

\* Steps that leave journeys, replica and the status changes alone, and those
\* that do not.
CallStep(a) == IdempotencyGet(a) \/ HasActiveJourney(a) \/ CapacityReserve(a)
               \/ Save(a) \/ Crash(a)
QuietStep ==
  \/ \E a \in Attempt : CallStep(a) \/ ReleaseByJourneyID(a)
  \/ \E k \in Key : CacheExpires(k) \/ EntryExpires(k)
  \/ ReleaseOrphans \/ Tick

\* A status change under way is one that was legal for what the replica shows.
ReadStep(j) ==
  \E to \in Status :
    /\ replica[j].status # "NONE"
    /\ <<replica[j].status, to>> \in LegalChange
    /\ updates' = updates \cup {[journey |-> j, to |-> to, version |-> replica[j].version]}
    /\ UNCHANGED <<journeys, replica, cache, entry, held, callVars, clock>>

LEMMA LifecycleReads ==
  ASSUME NEW j \in Attempt, Lifecycle(j)
  PROVE  ReadStep(j)
<1>1. CASE CancelJourney(j)
  BY <1>1 DEF CancelJourney, GetByID, ReadStep, LegalChange, Status, Live, Ended
<1>2. CASE ActivateJourney(j)
  BY <1>2 DEF ActivateJourney, GetByID, ReadStep, LegalChange, Status, Live, Ended
<1>3. CASE CompleteJourney(j)
  BY <1>3 DEF CompleteJourney, GetByID, ReadStep, LegalChange, Status, Live, Ended
<1>4. CASE AdminCancelJourney(j)
  BY <1>4 DEF AdminCancelJourney, GetByID, ReadStep, LegalChange, Status, Live, Ended
<1>5. CASE ExpireJourney(j)
  BY <1>5 DEF ExpireJourney, GetByID, ReadStep, LegalChange, Status, Live, Ended
<1> QED BY <1>1, <1>2, <1>3, <1>4, <1>5 DEF Lifecycle

LEMMA Steps ==
  ASSUME Next
  PROVE  \/ QuietStep
         \/ \E a \in Attempt : Create(a)
         \/ \E j \in Attempt : ReadStep(j)
         \/ \E u \in updates : UpdateStatusWithEvent(u)
         \/ \E u \in updates : UpdateFails(u)
         \/ Replicate
BY LifecycleReads DEF Next, CreateJourney, QuietStep, CallStep

-----------------------------------------------------------------------------
(* Type correctness, action by action. *)

Reply == [status : {"none", "reserved", "failed"}, rsv : Attempt \cup {NoAttempt}]
CacheRow == [journey : Attempt \cup {NoAttempt}, fresh : BOOLEAN]
Places == {"start", "missed", "free", "answered", "stored", "done"}
CallsOK ==
  /\ pc \in [Attempt -> Places]
  /\ got \in [Attempt -> Reply]
  /\ answer \in [Attempt -> Attempt \cup {"none", "error"}]

LEMMA GotoOK ==
  ASSUME CallsOK, NEW a \in Attempt, NEW l \in Places, Goto(a, l)
  PROVE  CallsOK'
BY DEF CallsOK, Goto

LEMMA ReturnOK ==
  ASSUME CallsOK, NEW a \in Attempt, NEW x \in Attempt \cup {"none", "error"}, Return(a, x)
  PROVE  CallsOK'
<1>1. NoReply \in Reply BY DEF NoReply, Reply
<1> QED BY <1>1 DEF CallsOK, Return, Places

LEMMA TypeQuiet ==
  ASSUME JourneyTypeOK, CachesOK, QuietStep
  PROVE  JourneyTypeOK'
<1> USE DEF JourneyTypeOK
<1>0. CallsOK BY DEF CallsOK, Reply, Places
<1>c. ASSUME CallsOK', UNCHANGED <<journeys, replica, cache, entry, held, updates, clock>>
      PROVE  JourneyTypeOK'
  BY <1>c DEF CallsOK, Reply, Places
<1>1. ASSUME NEW a \in Attempt, IdempotencyGet(a) PROVE JourneyTypeOK'
  <2>1. cache[KeyOf[a]].fresh => cache[KeyOf[a]].journey \in Attempt BY DEF CachesOK
  <2>2. CallsOK' BY <1>0, <1>1, <2>1, GotoOK, ReturnOK DEF IdempotencyGet, Places
  <2> QED BY <1>c, <2>2, <1>1 DEF IdempotencyGet
<1>2. ASSUME NEW a \in Attempt, HasActiveJourney(a) PROVE JourneyTypeOK'
  <2>1. CallsOK' BY <1>0, <1>2, GotoOK, ReturnOK DEF HasActiveJourney, Places
  <2> QED BY <1>c, <2>1, <1>2 DEF HasActiveJourney
<1>3. ASSUME NEW a \in Attempt, CapacityReserve(a) PROVE JourneyTypeOK'
  <2> DEFINE booked == [status |-> "reserved", rsv |-> a]
             refused == [status |-> "failed", rsv |-> NoAttempt]
  <2>1. booked \in Reply /\ refused \in Reply /\ entry[KeyOf[a]] \in Reply BY DEF Reply
  <2>2. /\ pc' = [pc EXCEPT ![a] = "answered"] /\ UNCHANGED answer
        /\ \/ got' = [got EXCEPT ![a] = entry[KeyOf[a]]] /\ UNCHANGED <<entry, held>>
           \/ /\ got' = [got EXCEPT ![a] = booked] /\ held' = held \cup {a}
              /\ entry' = [entry EXCEPT ![KeyOf[a]] = booked]
           \/ /\ got' = [got EXCEPT ![a] = refused] /\ UNCHANGED held
              /\ entry' = entry \/ entry' = [entry EXCEPT ![KeyOf[a]] = refused]
    BY <1>3 DEF CapacityReserve
  <2> HIDE DEF booked, refused
  <2>3. entry' \in [Key -> Reply] /\ held' \subseteq Attempt BY <2>1, <2>2 DEF Reply
  <2>6. \E reply \in Reply : got' = [got EXCEPT ![a] = reply] BY <2>1, <2>2
  <2>4. CallsOK' BY <1>0, <2>2, <2>6 DEF CallsOK, Places
  <2>5. UNCHANGED <<journeys, replica, cache, updates, clock>> BY <1>3 DEF CapacityReserve
  <2> QED BY <2>3, <2>4, <2>5 DEF CallsOK, Reply, Places
<1>4. ASSUME NEW a \in Attempt, Save(a) PROVE JourneyTypeOK'
  <2>1. CallsOK' BY <1>0, <1>4, ReturnOK DEF Save
  <2> DEFINE row == [journey |-> a, fresh |-> TRUE]
  <2>a. row \in CacheRow BY DEF CacheRow
  <2>b. cache' = [cache EXCEPT ![KeyOf[a]] = row] \/ UNCHANGED cache BY <1>4 DEF Save
  <2>c. cache \in [Key -> CacheRow] BY DEF CacheRow
  <2> HIDE DEF row
  <2>2. cache' \in [Key -> CacheRow] BY <2>a, <2>b, <2>c
  <2>3. UNCHANGED <<journeys, replica, entry, held, updates, clock>> BY <1>4 DEF Save
  <2> QED BY <2>1, <2>2, <2>3 DEF CallsOK, Reply, Places, CacheRow
<1>5. ASSUME NEW a \in Attempt, Crash(a) PROVE JourneyTypeOK'
  <2>1. CallsOK' BY <1>0, <1>5, ReturnOK DEF Crash
  <2> QED BY <1>c, <2>1, <1>5 DEF Crash
<1>6. ASSUME NEW a \in Attempt, ReleaseByJourneyID(a) PROVE JourneyTypeOK'
  BY <1>6 DEF ReleaseByJourneyID, callVars
<1>7. ASSUME NEW k \in Key, CacheExpires(k) PROVE JourneyTypeOK'
  <2> DEFINE row == [cache[k] EXCEPT !.fresh = FALSE]
  <2>1. cache \in [Key -> CacheRow] BY DEF CacheRow
  <2>2. row \in CacheRow BY <2>1 DEF CacheRow
  <2>3. cache' = [cache EXCEPT ![k] = row] BY <1>7 DEF CacheExpires
  <2> HIDE DEF row
  <2>4. cache' \in [Key -> CacheRow] BY <2>1, <2>2, <2>3
  <2> QED BY <1>7, <2>4 DEF CacheExpires, callVars, CacheRow
<1>8. ASSUME NEW k \in Key, EntryExpires(k) PROVE JourneyTypeOK'
  BY <1>8 DEF EntryExpires, callVars, NoReply
<1>9. CASE ReleaseOrphans
  BY <1>9 DEF ReleaseOrphans, callVars
<1>10. CASE Tick
  BY <1>10 DEF Tick, callVars
<1> QED
  BY <1>1, <1>2, <1>3, <1>4, <1>5, <1>6, <1>7, <1>8, <1>9, <1>10 DEF QuietStep, CallStep

LEMMA BookedOK ==
  ASSUME JourneyTypeOK, NEW a \in Attempt
  PROVE  /\ Booked(a) \in JourneyRow
         /\ Booked(a).status \in {"APPROVED", "REJECTED"}
         /\ Booked(a).version = 1 /\ Booked(a).rsv = got[a].rsv
<1>1. got[a].rsv \in Attempt \cup {NoAttempt} BY DEF JourneyTypeOK
<1> QED BY <1>1 DEF Booked, JourneyRow, Status, Live

LEMMA ChangedRowOK ==
  ASSUME JourneyTypeOK, NEW u \in updates
  PROVE  /\ u.journey \in Attempt /\ u.to \in Status /\ u.version \in Nat
         /\ ChangedRow(u) \in JourneyRow
         /\ ChangedRow(u).status = u.to
         /\ ChangedRow(u).version = journeys[u.journey].version + 1
         /\ ChangedRow(u).rsv = journeys[u.journey].rsv
<1>1. u.journey \in Attempt /\ u.to \in Status /\ u.version \in Nat
  BY DEF JourneyTypeOK, Update
<1>2. PICK row \in JourneyRow : row = journeys[u.journey] BY <1>1 DEF JourneyTypeOK
<1>3. PICK to \in Status : to = u.to BY <1>1
<1>4. PICK v \in Nat : v = row.version + 1 BY DEF JourneyRow
<1> DEFINE new == [row EXCEPT !.status = to, !.version = v]
<1>5. ChangedRow(u) = new BY <1>2, <1>3, <1>4 DEF ChangedRow
<1>6. new \in JourneyRow /\ new.status = to /\ new.version = v /\ new.rsv = row.rsv
  BY DEF JourneyRow
<1> HIDE DEF new
<1> QED BY <1>1, <1>2, <1>3, <1>4, <1>5, <1>6

LEMMA UpdateChanges ==
  ASSUME JourneyTypeOK, NEW u \in updates, UpdateStatusWithEvent(u)
  PROVE  /\ updates' \subseteq updates
         /\ UNCHANGED <<replica, cache, entry, held, callVars, clock>>
         /\ \/ UNCHANGED journeys
            \/ /\ u.version = journeys[u.journey].version
               /\ journeys' = [journeys EXCEPT ![u.journey] = ChangedRow(u)]
BY DEF UpdateStatusWithEvent

LEMMA TypeStep ==
  ASSUME JourneyTypeOK, CachesOK, RepliesOK, [Next]_vars
  PROVE  JourneyTypeOK'
<1> USE DEF JourneyTypeOK
<1>1. CASE QuietStep
  BY <1>1, TypeQuiet
<1>2. ASSUME NEW a \in Attempt, Create(a) PROVE JourneyTypeOK'
  <2>0. CallsOK BY DEF CallsOK, Reply, Places
  <2>1. CallsOK' BY <2>0, <1>2, GotoOK, ReturnOK DEF Create, Places
  <2>2. journeys' \in [Attempt -> JourneyRow] BY <1>2, BookedOK DEF Create
  <2>3. UNCHANGED <<replica, cache, entry, held, updates, clock>> BY <1>2 DEF Create
  <2> QED BY <2>1, <2>2, <2>3 DEF CallsOK, Reply, Places
<1>3. ASSUME NEW j \in Attempt, ReadStep(j) PROVE JourneyTypeOK'
  <2>1. replica[j].version \in Nat BY DEF JourneyRow
  <2>2. updates' \subseteq Update BY <1>3, <2>1 DEF ReadStep, Update
  <2> QED BY <1>3, <2>2 DEF ReadStep, callVars
<1>4. ASSUME NEW u \in updates, UpdateStatusWithEvent(u) PROVE JourneyTypeOK'
  <2>1. journeys' \in [Attempt -> JourneyRow]
    <3>1. UNCHANGED journeys \/ journeys' = [journeys EXCEPT ![u.journey] = ChangedRow(u)]
      BY <1>4, UpdateChanges
    <3>2. ChangedRow(u) \in JourneyRow BY ChangedRowOK
    <3> QED BY <3>1, <3>2
  <2>2. updates' \subseteq Update BY <1>4, UpdateChanges
  <2> QED BY <1>4, <2>1, <2>2, UpdateChanges DEF callVars
<1>5. ASSUME NEW u \in updates, UpdateFails(u) PROVE JourneyTypeOK'
  BY <1>5 DEF UpdateFails, callVars
<1>6. CASE Replicate
  BY <1>6 DEF Replicate, callVars
<1>7. CASE UNCHANGED vars
  BY <1>7 DEF vars, callVars
<1> QED BY <1>1, <1>2, <1>3, <1>4, <1>5, <1>6, <1>7, Steps

-----------------------------------------------------------------------------
(* Versions and the life cycle. *)

LEMMA CreateStores ==
  ASSUME NEW a \in Attempt, Create(a), JourneyTypeOK
  PROVE  /\ UNCHANGED <<replica, cache, entry, held, updates, clock>>
         /\ pc[a] = "answered"
         /\ \/ UNCHANGED journeys /\ Return(a, "error")
            \/ /\ ~Clashes(a) /\ ~Stored(a) /\ Goto(a, "stored")
               /\ journeys' = [journeys EXCEPT ![a] = Booked(a)]
               /\ Booked(a) # NoJourney
<1>1. Booked(a) # NoJourney BY BookedOK DEF NoJourney
<1> QED BY <1>1 DEF Create, Clashes, KeyTaken, Stored

LEMMA QuietKeeps ==
  ASSUME QuietStep
  PROVE  UNCHANGED <<journeys, replica, updates>>
BY DEF QuietStep, CallStep, IdempotencyGet, HasActiveJourney, CapacityReserve,
       Save, Crash, ReleaseByJourneyID, CacheExpires, EntryExpires,
       ReleaseOrphans, Tick

LEMMA Rows ==
  ASSUME JourneyTypeOK
  PROVE  /\ \A j \in Attempt : journeys[j] \in JourneyRow /\ replica[j] \in JourneyRow
         /\ \A j \in Attempt : journeys[j].version \in Nat /\ replica[j].version \in Nat
BY DEF JourneyTypeOK, JourneyRow

\* A journey whose row changes by one version keeps what is known of versions.
LEMMA VersionsGrow ==
  ASSUME JourneyTypeOK, VersionsOK, NEW j \in Attempt, NEW row \in JourneyRow,
         row.version = journeys[j].version + 1, row.status # "NONE",
         journeys' = [journeys EXCEPT ![j] = row],
         UNCHANGED replica, updates' \subseteq updates
  PROVE  VersionsOK'
<1>1. journeys'[j] = row /\ \A i \in Attempt : i # j => journeys'[i] = journeys[i]
  BY DEF JourneyTypeOK
<1>2. row.version \in Nat /\ row.version # 0 BY Rows
<1>3. row # NoJourney BY <1>2 DEF NoJourney
<1>4. \A i \in Attempt :
        /\ replica'[i].version <= journeys'[i].version
        /\ replica'[i].version = journeys'[i].version => replica'[i] = journeys'[i]
        /\ journeys'[i].version = 0 <=> journeys'[i] = NoJourney
        /\ journeys'[i].status = "NONE" <=> journeys'[i] = NoJourney
  <2> TAKE i \in Attempt
  <2>1. CASE i = j BY <1>1, <1>2, <1>3, <2>1, Rows DEF VersionsOK
  <2>2. CASE i # j BY <1>1, <2>2 DEF VersionsOK, Stored
  <2> QED BY <2>1, <2>2
<1>5. \A u \in updates' :
        /\ u.version <= journeys'[u.journey].version
        /\ u.version = journeys'[u.journey].version
             => /\ journeys'[u.journey].status # "NONE"
                /\ <<journeys'[u.journey].status, u.to>> \in LegalChange
  <2> TAKE u \in updates'
  <2>1. u \in updates /\ u.journey \in Attempt /\ u.version \in Nat BY ChangedRowOK
  <2>4. u.version <= journeys[u.journey].version BY <2>1 DEF VersionsOK
  <2>2. CASE u.journey = j
    <3>1. u.version < row.version BY <2>1, <2>2, <2>4, Rows
    <3> QED BY <1>1, <1>2, <2>1, <2>2, <3>1
  <2>3. CASE u.journey # j BY <1>1, <2>1, <2>3 DEF VersionsOK
  <2> QED BY <2>2, <2>3
<1> QED BY <1>4, <1>5 DEF VersionsOK, Stored

LEMMA VersionsStep ==
  ASSUME JourneyTypeOK, VersionsOK, [Next]_vars
  PROVE  VersionsOK'
<1>0. ASSUME UNCHANGED <<journeys, replica>>, updates' \subseteq updates PROVE VersionsOK'
  BY <1>0 DEF VersionsOK, Stored
<1>1. CASE QuietStep
  BY <1>0, <1>1, QuietKeeps
<1>2. ASSUME NEW a \in Attempt, Create(a) PROVE VersionsOK'
  <2>1. CASE UNCHANGED journeys BY <1>0, <1>2, <2>1, CreateStores
  <2>2. CASE ~Stored(a) /\ journeys' = [journeys EXCEPT ![a] = Booked(a)]
    <3>1. journeys[a].version = 0 BY <2>2 DEF VersionsOK
    <3>2. UNCHANGED replica /\ updates' \subseteq updates BY <1>2, CreateStores
    <3>3. /\ Booked(a) \in JourneyRow /\ Booked(a).version = journeys[a].version + 1
          /\ Booked(a).status # "NONE"
      BY <3>1, BookedOK
    <3> QED BY <2>2, <3>2, <3>3, VersionsGrow
  <2> QED BY <1>2, <2>1, <2>2, CreateStores
<1>3. ASSUME NEW j \in Attempt, ReadStep(j) PROVE VersionsOK'
  <2>1. PICK to \in Status :
          /\ replica[j].status # "NONE" /\ <<replica[j].status, to>> \in LegalChange
          /\ updates' = updates \cup {[journey |-> j, to |-> to, version |-> replica[j].version]}
          /\ UNCHANGED <<journeys, replica>>
    BY <1>3 DEF ReadStep
  <2> DEFINE n == [journey |-> j, to |-> to, version |-> replica[j].version]
  <2>2. n.journey = j /\ n.to = to /\ n.version = replica[j].version OBVIOUS
  <2>3. \A u \in updates' : u \in updates \/ u = n BY <2>1
  <2> HIDE DEF n
  <2> QED BY <2>1, <2>2, <2>3 DEF VersionsOK, Stored
<1>4. ASSUME NEW u \in updates, UpdateStatusWithEvent(u) PROVE VersionsOK'
  <2>1. CASE UNCHANGED journeys BY <1>0, <1>4, <2>1, UpdateChanges
  <2>2. CASE /\ journeys' = [journeys EXCEPT ![u.journey] = ChangedRow(u)]
             /\ u.version = journeys[u.journey].version
    <3>1. u.to # "NONE" BY <2>2 DEF VersionsOK, LegalChange
    <3> QED BY <1>4, <2>2, <3>1, UpdateChanges, ChangedRowOK, VersionsGrow
  <2> QED BY <1>4, <2>1, <2>2, UpdateChanges
<1>5. ASSUME NEW u \in updates, UpdateFails(u) PROVE VersionsOK'
  BY <1>0, <1>5 DEF UpdateFails
<1>6. CASE Replicate
  BY <1>6, Rows DEF Replicate, VersionsOK, Stored
<1>7. CASE UNCHANGED vars
  BY <1>0, <1>7 DEF vars
<1> QED BY <1>1, <1>2, <1>3, <1>4, <1>5, <1>6, <1>7, Steps

\* A step that changes a journey stores a new one or makes a legal change of
\* its status; either way it stays stored and keeps its reservation.
JourneyStep ==
  \A j \in Attempt :
    journeys'[j] # journeys[j] =>
      /\ <<journeys[j].status, journeys'[j].status>> \in LegalChange
      /\ journeys'[j] # NoJourney
      /\ Stored(j) => journeys'[j].rsv = journeys[j].rsv

LEMMA JourneySteps ==
  ASSUME JourneyTypeOK, VersionsOK, [Next]_vars
  PROVE  JourneyStep
<1>1. CASE UNCHANGED journeys
  BY <1>1 DEF JourneyStep
<1>2. ASSUME NEW a \in Attempt, Create(a), ~Stored(a), Booked(a) # NoJourney,
             journeys' = [journeys EXCEPT ![a] = Booked(a)]
      PROVE  JourneyStep
  <2>1. journeys'[a] = Booked(a) /\ \A j \in Attempt : j # a => journeys'[j] = journeys[j]
    BY <1>2 DEF JourneyTypeOK
  <2>2. journeys[a].status = "NONE" BY <1>2 DEF Stored, NoJourney
  <2> QED BY <1>2, <2>1, <2>2, BookedOK DEF JourneyStep, LegalChange
<1>3. ASSUME NEW u \in updates, u.version = journeys[u.journey].version,
             journeys' = [journeys EXCEPT ![u.journey] = ChangedRow(u)]
      PROVE  JourneyStep
  <2>1. /\ journeys'[u.journey] = ChangedRow(u)
        /\ \A j \in Attempt : j # u.journey => journeys'[j] = journeys[j]
    BY <1>3, ChangedRowOK DEF JourneyTypeOK
  <2>2. <<journeys[u.journey].status, u.to>> \in LegalChange BY <1>3 DEF VersionsOK
  <2>3. ChangedRow(u) # NoJourney BY ChangedRowOK, Rows DEF NoJourney
  <2> QED BY <2>1, <2>2, <2>3, ChangedRowOK DEF JourneyStep
<1>4. QuietStep \/ (\E j \in Attempt : ReadStep(j)) \/ (\E u \in updates : UpdateFails(u))
        \/ Replicate \/ UNCHANGED vars => UNCHANGED journeys
  BY QuietKeeps DEF ReadStep, UpdateFails, Replicate, vars
<1> QED BY <1>1, <1>2, <1>3, <1>4, Steps, CreateStores, UpdateChanges

LEMMA StoredStays ==
  ASSUME JourneyTypeOK, VersionsOK, [Next]_vars, NEW j \in Attempt, Stored(j)
  PROVE  Stored(j)' /\ journeys'[j].rsv = journeys[j].rsv
BY JourneySteps DEF JourneyStep, Stored, NoJourney

-----------------------------------------------------------------------------
(* One journey per key, and what caches and answers know of it. *)

LEMMA NewJourneys ==
  ASSUME JourneyTypeOK, [Next]_vars, NEW j \in Attempt, ~Stored(j), Stored(j)', VersionsOK
  PROVE  Create(j) /\ ~Clashes(j) /\ journeys' = [journeys EXCEPT ![j] = Booked(j)]
<1>1. CASE UNCHANGED journeys
  BY <1>1 DEF Stored
<1>2. ASSUME NEW a \in Attempt, Create(a), ~Clashes(a),
             journeys' = [journeys EXCEPT ![a] = Booked(a)]
      PROVE  Create(j) /\ ~Clashes(j) /\ journeys' = [journeys EXCEPT ![j] = Booked(j)]
  <2>1. a # j => journeys'[j] = journeys[j] BY <1>2 DEF JourneyTypeOK
  <2> QED BY <1>2, <2>1 DEF Stored
<1>3. ASSUME NEW u \in updates, u.version = journeys[u.journey].version,
             journeys' = [journeys EXCEPT ![u.journey] = ChangedRow(u)]
      PROVE  FALSE
  <2>1. u.journey # j => journeys'[j] = journeys[j] BY <1>3, ChangedRowOK DEF JourneyTypeOK
  <2>2. u.journey = j BY <2>1 DEF Stored
  <2>3. journeys[j].status = "NONE" BY DEF Stored, NoJourney
  <2>4. journeys[u.journey].status # "NONE" BY <1>3 DEF VersionsOK
  <2> QED BY <2>2, <2>3, <2>4
<1>4. QuietStep \/ (\E i \in Attempt : ReadStep(i)) \/ (\E u \in updates : UpdateFails(u))
        \/ Replicate \/ UNCHANGED vars => UNCHANGED journeys
  BY QuietKeeps DEF ReadStep, UpdateFails, Replicate, vars
<1> QED BY <1>1, <1>2, <1>3, <1>4, Steps, CreateStores, UpdateChanges

LEMMA KeysStep ==
  ASSUME JourneyTypeOK, VersionsOK, OneJourneyPerKey, [Next]_vars
  PROVE  OneJourneyPerKey'
<1> SUFFICES ASSUME NEW i \in Attempt, NEW j \in Attempt,
                    Stored(i)', Stored(j)', KeyOf[i] = KeyOf[j], i # j
             PROVE  FALSE
  BY DEF OneJourneyPerKey
<1>1. ASSUME NEW a \in Attempt, NEW b \in Attempt, a # b, KeyOf[a] = KeyOf[b],
             Stored(a)', Stored(b)', ~Stored(a)
      PROVE  FALSE
  <2>1. ~Clashes(a) /\ journeys' = [journeys EXCEPT ![a] = Booked(a)]
    BY <1>1, NewJourneys
  <2>2. Stored(b) BY <1>1, <2>1 DEF Stored, JourneyTypeOK
  <2> QED BY <1>1, <2>1, <2>2 DEF Clashes, KeyTaken, Stored
<1> QED BY <1>1 DEF OneJourneyPerKey

LEMMA CachesStep ==
  ASSUME JourneyTypeOK, VersionsOK, CachesOK, [Next]_vars
  PROVE  CachesOK'
<1>k. \A j \in Attempt : Stored(j) => Stored(j)' BY StoredStays
<1>c. ASSUME UNCHANGED cache, UNCHANGED <<pc, answer>> PROVE CachesOK'
  BY <1>c, <1>k DEF CachesOK
<1>r. ASSUME NEW a \in Attempt, NEW x, Return(a, x), UNCHANGED cache,
             x \in Attempt => Stored(x)' /\ KeyOf[x] = KeyOf[a]
      PROVE  CachesOK'
  <2>1. /\ pc'[a] = "done" /\ answer'[a] = x
        /\ \A b \in Attempt : b # a => pc'[b] = pc[b] /\ answer'[b] = answer[b]
    BY <1>r DEF Return, JourneyTypeOK
  <2> QED BY <1>r, <1>k, <2>1 DEF CachesOK
<1>g. ASSUME NEW a \in Attempt, NEW l, Goto(a, l), UNCHANGED cache,
             l = "stored" => Stored(a)'
      PROVE  CachesOK'
  <2>1. /\ pc'[a] = l /\ UNCHANGED answer
        /\ \A b \in Attempt : b # a => pc'[b] = pc[b]
    BY <1>g DEF Goto, JourneyTypeOK
  <2> QED BY <1>g, <1>k, <2>1 DEF CachesOK
<1>e. "error" \notin Attempt OBVIOUS
<1>1. ASSUME NEW a \in Attempt, IdempotencyGet(a) PROVE CachesOK'
  <2>1. CASE cache[KeyOf[a]].fresh
    <3>1. LET j == cache[KeyOf[a]].journey IN Return(a, j) /\ UNCHANGED cache
      BY <1>1, <2>1 DEF IdempotencyGet
    <3> QED BY <1>r, <1>k, <3>1 DEF CachesOK
  <2>2. CASE ~cache[KeyOf[a]].fresh
    BY <1>1, <1>r, <1>g, <1>e, <2>2 DEF IdempotencyGet
  <2> QED BY <2>1, <2>2
<1>2. ASSUME NEW a \in Attempt, HasActiveJourney(a) PROVE CachesOK'
  BY <1>2, <1>r, <1>g, <1>e DEF HasActiveJourney
<1>3. ASSUME NEW a \in Attempt, CapacityReserve(a) PROVE CachesOK'
  <2>1. pc' = [pc EXCEPT ![a] = "answered"] /\ UNCHANGED <<answer, cache>>
    BY <1>3 DEF CapacityReserve
  <2>2. pc'[a] = "answered" /\ \A b \in Attempt : b # a => pc'[b] = pc[b]
    BY <2>1 DEF JourneyTypeOK
  <2> QED BY <1>k, <2>1, <2>2 DEF CachesOK
<1>4. ASSUME NEW a \in Attempt, Create(a) PROVE CachesOK'
  <2>1. CASE UNCHANGED journeys /\ Return(a, "error")
    BY <1>4, <1>r, <1>e, <2>1, CreateStores
  <2>2. CASE Goto(a, "stored") /\ journeys' = [journeys EXCEPT ![a] = Booked(a)]
                               /\ Booked(a) # NoJourney
    <3>1. Stored(a)' BY <2>2 DEF Stored, JourneyTypeOK, NoJourney
    <3> QED BY <1>4, <1>g, <2>2, <3>1, CreateStores
  <2> QED BY <1>4, <2>1, <2>2, CreateStores
<1>5. ASSUME NEW a \in Attempt, Save(a) PROVE CachesOK'
  <2>1. Return(a, a) /\ Stored(a) BY <1>5 DEF Save, CachesOK
  <2>2. CASE UNCHANGED cache BY <1>k, <1>r, <2>1, <2>2
  <2>3. CASE cache' = [cache EXCEPT ![KeyOf[a]] = [journey |-> a, fresh |-> TRUE]]
    <3>1. /\ cache'[KeyOf[a]].journey = a
          /\ \A k \in Key : k # KeyOf[a] => cache'[k] = cache[k]
      BY <2>3 DEF JourneyTypeOK
    <3>2. /\ pc'[a] = "done" /\ answer'[a] = a
          /\ \A b \in Attempt : b # a => pc'[b] = pc[b] /\ answer'[b] = answer[b]
      BY <2>1 DEF Return, JourneyTypeOK
    <3> QED BY <1>k, <2>1, <3>1, <3>2 DEF CachesOK
  <2> QED BY <1>5, <2>2, <2>3 DEF Save
<1>6. ASSUME NEW a \in Attempt, Crash(a) PROVE CachesOK'
  BY <1>6, <1>r, <1>e DEF Crash
<1>7. ASSUME NEW k \in Key, CacheExpires(k) PROVE CachesOK'
  <2>1. cache' = [cache EXCEPT ![k].fresh = FALSE] /\ UNCHANGED <<pc, answer>>
    BY <1>7 DEF CacheExpires, callVars
  <2>2. /\ cache'[k].journey = cache[k].journey /\ ~cache'[k].fresh
        /\ \A q \in Key : q # k => cache'[q] = cache[q]
    BY <2>1 DEF JourneyTypeOK
  <2> QED BY <1>k, <2>1, <2>2 DEF CachesOK
<1>8. (\E a \in Attempt : ReleaseByJourneyID(a)) \/ (\E k \in Key : EntryExpires(k))
        \/ ReleaseOrphans \/ Tick \/ (\E j \in Attempt : ReadStep(j))
        \/ (\E u \in updates : UpdateStatusWithEvent(u) \/ UpdateFails(u))
        \/ Replicate \/ UNCHANGED vars
      => UNCHANGED cache /\ UNCHANGED <<pc, answer>>
  BY DEF ReleaseByJourneyID, EntryExpires, ReleaseOrphans, Tick, ReadStep,
         UpdateStatusWithEvent, UpdateFails, Replicate, vars, callVars
<1> QED
  BY <1>c, <1>1, <1>2, <1>3, <1>4, <1>5, <1>6, <1>7, <1>8, Steps DEF QuietStep, CallStep

-----------------------------------------------------------------------------
(* The slots behind replies and live journeys. *)

LEMMA HeldSteps ==
  ASSUME JourneyTypeOK, [Next]_vars
  PROVE  /\ held \subseteq held' \/ ReleaseOrphans \/ \E j \in Attempt : ReleaseByJourneyID(j)
         /\ WindowsOver => WindowsOver'
<1>1. held \subseteq held' \/ ReleaseOrphans \/ \E j \in Attempt : ReleaseByJourneyID(j)
  BY Steps DEF QuietStep, CallStep, IdempotencyGet, HasActiveJourney, CapacityReserve,
     Save, Crash, CacheExpires, EntryExpires, Tick, Create, ReadStep,
     UpdateStatusWithEvent, UpdateFails, Replicate, vars
<1>2. clock' = clock \/ Tick
  BY Steps DEF QuietStep, CallStep, IdempotencyGet, HasActiveJourney, CapacityReserve,
     Save, Crash, CacheExpires, EntryExpires, ReleaseOrphans, ReleaseByJourneyID, Create,
     ReadStep, UpdateStatusWithEvent, UpdateFails, Replicate, vars
<1>3. WindowsOver => WindowsOver' BY <1>2 DEF Tick
<1> QED BY <1>1, <1>3

\* What a reply says stays true: slots are released only when the journey of
\* their attempt has ended or the windows are over, which they stay.
LEMMA TruthStays ==
  ASSUME JourneyTypeOK, VersionsOK, [Next]_vars, NEW a \in Attempt,
         a \in held \/ Stored(a) \/ WindowsOver
  PROVE  (a \in held \/ Stored(a) \/ WindowsOver)'
<1>0. Stored(a) => Stored(a)' BY StoredStays
<1>3. WindowsOver => WindowsOver' BY HeldSteps
<1>4. CASE held \subseteq held' BY <1>0, <1>3, <1>4
<1>5. CASE ReleaseOrphans BY <1>3, <1>5 DEF ReleaseOrphans
<1>6. ASSUME NEW j \in Attempt, ReleaseByJourneyID(j)
      PROVE  (a \in held \/ Stored(a) \/ WindowsOver)'
  <2>1. Stored(j) BY <1>6 DEF ReleaseByJourneyID, Stored, NoJourney, Ended
  <2>2. a # j => (a \in held => a \in held') BY <1>6 DEF ReleaseByJourneyID
  <2> QED BY <1>0, <1>3, <2>1, <2>2
<1> QED BY HeldSteps, <1>4, <1>5, <1>6

LEMMA RepliesStep ==
  ASSUME JourneyTypeOK, VersionsOK, RepliesOK, [Next]_vars
  PROVE  RepliesOK'
<1>t. ASSUME NEW reply, NEW k, Truthful(reply, k) PROVE Truthful(reply, k)'
  BY <1>t, TruthStays DEF Truthful
<1>c. ASSUME UNCHANGED entry,
             \A a \in Attempt : pc'[a] = "answered" => pc[a] = "answered" /\ got'[a] = got[a]
      PROVE  RepliesOK'
  BY <1>c, <1>t DEF RepliesOK
<1>r. ASSUME NEW a \in Attempt, NEW x, Return(a, x), UNCHANGED entry PROVE RepliesOK'
  BY <1>c, <1>r DEF Return, JourneyTypeOK
<1>g. ASSUME NEW a \in Attempt, NEW l, Goto(a, l), l # "answered", UNCHANGED entry
      PROVE  RepliesOK'
  BY <1>c, <1>g DEF Goto, JourneyTypeOK
<1>1. ASSUME NEW a \in Attempt, IdempotencyGet(a) PROVE RepliesOK'
  BY <1>1, <1>r, <1>g DEF IdempotencyGet
<1>2. ASSUME NEW a \in Attempt, HasActiveJourney(a) PROVE RepliesOK'
  BY <1>2, <1>r, <1>g DEF HasActiveJourney
<1>3. ASSUME NEW a \in Attempt, CapacityReserve(a) PROVE RepliesOK'
  <2> DEFINE booked == [status |-> "reserved", rsv |-> a]
             refused == [status |-> "failed", rsv |-> NoAttempt]
  <2>1. PICK reply :
          /\ pc' = [pc EXCEPT ![a] = "answered"]
          /\ got' = [got EXCEPT ![a] = reply]
          /\ \/ reply = entry[KeyOf[a]] /\ reply.status # "none" /\ UNCHANGED entry
             \/ /\ reply = booked /\ held' = held \cup {a}
                /\ entry' = [entry EXCEPT ![KeyOf[a]] = reply]
             \/ /\ reply = refused
                /\ entry' = entry \/ entry' = [entry EXCEPT ![KeyOf[a]] = reply]
    BY <1>3 DEF CapacityReserve
  <2>2. reply.status # "none" /\ Truthful(reply, KeyOf[a])'
    <3>1. CASE reply = entry[KeyOf[a]] /\ reply.status # "none" BY <1>t, <3>1 DEF RepliesOK
    <3>2. CASE reply = booked /\ held' = held \cup {a} BY <3>2 DEF Truthful
    <3>3. CASE reply = refused BY <3>3 DEF Truthful
    <3> QED BY <2>1, <3>1, <3>2, <3>3
  <2> HIDE DEF booked, refused
  <2>3. \A k \in Key : entry'[k] = entry[k] \/ (k = KeyOf[a] /\ entry'[k] = reply)
    BY <2>1 DEF JourneyTypeOK
  <2>4. got'[a] = reply /\ \A b \in Attempt : b # a => pc'[b] = pc[b] /\ got'[b] = got[b]
    BY <2>1 DEF JourneyTypeOK
  <2> QED BY <1>t, <2>2, <2>3, <2>4 DEF RepliesOK
<1>4. ASSUME NEW a \in Attempt, Create(a) PROVE RepliesOK'
  BY <1>4, <1>r, <1>g, CreateStores
<1>5. ASSUME NEW a \in Attempt, Save(a) \/ Crash(a) PROVE RepliesOK'
  BY <1>5, <1>r DEF Save, Crash
<1>6. ASSUME NEW k \in Key, EntryExpires(k) PROVE RepliesOK'
  <2>1. entry' = [entry EXCEPT ![k] = NoReply] /\ UNCHANGED <<pc, got>>
    BY <1>6 DEF EntryExpires, callVars
  <2>2. entry'[k] = NoReply /\ \A q \in Key : q # k => entry'[q] = entry[q]
    BY <2>1 DEF JourneyTypeOK
  <2>3. Truthful(NoReply, k)' BY DEF Truthful, NoReply
  <2> QED BY <1>t, <2>1, <2>2, <2>3 DEF RepliesOK
<1>7. (\E a \in Attempt : ReleaseByJourneyID(a)) \/ (\E k \in Key : CacheExpires(k))
        \/ ReleaseOrphans \/ Tick \/ (\E j \in Attempt : ReadStep(j))
        \/ (\E u \in updates : UpdateStatusWithEvent(u) \/ UpdateFails(u))
        \/ Replicate \/ UNCHANGED vars
      => UNCHANGED <<entry, pc, got>>
  BY DEF ReleaseByJourneyID, CacheExpires, ReleaseOrphans, Tick, ReadStep,
         UpdateStatusWithEvent, UpdateFails, Replicate, vars, callVars
<1> QED
  BY <1>c, <1>1, <1>2, <1>3, <1>4, <1>5, <1>6, <1>7, Steps DEF QuietStep, CallStep

LEMMA SlotsStep ==
  ASSUME IInv, [Next]_vars, NEW j \in Attempt, journeys'[j].status \in Live
  PROVE  /\ journeys'[j].rsv \in Attempt
         /\ KeyOf[journeys'[j].rsv] = KeyOf[j]
         /\ ~WindowsOver' => journeys'[j].rsv \in held'
<1> USE DEF IInv
<1>1. Stored(j)' BY DEF Stored, NoJourney, Live
<1>2. CASE ~Stored(j)
  <2>1. Create(j) /\ ~Clashes(j) /\ journeys' = [journeys EXCEPT ![j] = Booked(j)]
    BY <1>1, <1>2, NewJourneys
  <2>2. journeys'[j] = Booked(j) BY <2>1 DEF JourneyTypeOK
  <2>3. Booked(j).status = "APPROVED" /\ Booked(j).rsv = got[j].rsv
    BY <2>2, BookedOK DEF Live
  <2>4. got[j].status = "reserved" /\ Truthful(got[j], KeyOf[j])
    <3>1. pc[j] = "answered" BY <2>1 DEF Create
    <3>2. got[j].status \in {"none", "reserved", "failed"} BY DEF JourneyTypeOK
    <3> QED BY <2>3, <3>1, <3>2 DEF Booked, RepliesOK
  <2> DEFINE r == got[j].rsv
  <2>5. /\ r \in Attempt /\ KeyOf[r] = KeyOf[j]
        /\ r \in held \/ Stored(r) \/ WindowsOver
    BY <2>4 DEF Truthful
  <2>6. ~Stored(r) BY <2>1, <2>5 DEF Clashes, KeyTaken, Stored
  <2>7. UNCHANGED <<held, clock>> BY <2>1 DEF Create
  <2> QED BY <2>2, <2>3, <2>5, <2>6, <2>7
<1>3. CASE Stored(j)
  <2> DEFINE r == journeys[j].rsv
  <2>1. journeys'[j].rsv = r BY <1>3, StoredStays
  <2>2. journeys[j].status \in Live
    BY <1>3, JourneySteps DEF JourneyStep, LegalChange, Live, VersionsOK
  <2>3. r \in Attempt /\ KeyOf[r] = KeyOf[j] /\ (~WindowsOver => r \in held)
    BY <2>2 DEF LiveHasSlots
  <2>4. ASSUME ~WindowsOver' PROVE r \in held'
    <3>1. ~WindowsOver /\ r \in held BY <2>3, <2>4, HeldSteps
    <3>2. ~ReleaseOrphans BY <3>1 DEF ReleaseOrphans
    <3>3. ASSUME NEW i \in Attempt, ReleaseByJourneyID(i) PROVE r \in held'
      <4>1. Stored(i) /\ journeys[i].status \in Ended
        BY <3>3 DEF ReleaseByJourneyID, Stored, NoJourney, Ended
      <4>2. i # r
        <5>1. i = r => i = j BY <1>3, <2>3, <4>1 DEF OneJourneyPerKey
        <5> QED BY <2>2, <2>3, <4>1, <5>1 DEF Live, Ended
      <4> QED BY <3>1, <3>3, <4>2 DEF ReleaseByJourneyID
    <3> QED BY <3>1, <3>2, <3>3, HeldSteps
  <2> QED BY <2>1, <2>3, <2>4
<1> QED BY <1>2, <1>3

-----------------------------------------------------------------------------
\* Every step keeps the invariant.
LEMMA Inductive == IInv /\ [Next]_vars => IInv'
<1> SUFFICES ASSUME IInv, [Next]_vars PROVE IInv' OBVIOUS
<1>1. JourneyTypeOK' BY TypeStep DEF IInv
<1>2. VersionsOK' BY VersionsStep DEF IInv
<1>3. OneJourneyPerKey' BY KeysStep DEF IInv
<1>4. CachesOK' BY CachesStep DEF IInv
<1>5. RepliesOK' BY RepliesStep DEF IInv
<1>6. LiveHasSlots' BY SlotsStep DEF LiveHasSlots
<1> QED BY <1>1, <1>2, <1>3, <1>4, <1>5, <1>6 DEF IInv

LEMMA Invariance == Spec => []IInv
BY InitOK, Inductive, PTL DEF Spec

\* The rows, caches, replies and calls of the journey service stay well formed.
THEOREM JourneyTypeCorrect == Spec => []JourneyTypeOK
<1>1. IInv => JourneyTypeOK BY DEF IInv
<1> QED BY <1>1, Invariance, PTL

\* Whatever is retried, replayed, ended or forgotten, a live journey has the
\* slots of its reservation until its windows are over.
THEOREM LiveJourneysAreBacked == Spec => []LiveIsBacked
<1>1. IInv => LiveIsBacked BY DEF IInv, LiveHasSlots, LiveIsBacked
<1> QED BY <1>1, Invariance, PTL

\* All calls of a key that are answered by a journey are answered by one.
THEOREM KeyHasOneJourney == Spec => []SameJourneyForKey
<1>1. ASSUME IInv PROVE SameJourneyForKey
  BY <1>1 DEF IInv, CachesOK, OneJourneyPerKey, SameJourneyForKey, Stored
<1> QED BY <1>1, Invariance, PTL

\* However stale the replica, no status change leaves the life cycle.
THEOREM LifecycleIsKept == Spec => LegalLifecycle
<1>1. IInv /\ [Next]_vars
        => [\A j \in Attempt : journeys'[j] # journeys[j]
              => <<journeys[j].status, journeys'[j].status>> \in LegalChange]_vars
  BY JourneySteps DEF IInv, JourneyStep
<1> QED BY <1>1, Invariance, PTL DEF Spec, LegalLifecycle

-----------------------------------------------------------------------------
(* Which reservations the event of a journey fails to release *)

\* What a journey that was live or has ended carries was reserved by a call of
\* its key.
TracesKey ==
  \A j \in Attempt : journeys[j].status \in Live \cup Ended =>
    journeys[j].rsv \in Attempt /\ KeyOf[journeys[j].rsv] = KeyOf[j]

LEMMA TracesStep ==
  ASSUME IInv, TracesKey, [Next]_vars
  PROVE  TracesKey'
<1> SUFFICES ASSUME NEW j \in Attempt, journeys'[j].status \in Live \cup Ended
             PROVE  journeys'[j].rsv \in Attempt /\ KeyOf[journeys'[j].rsv] = KeyOf[j]
  BY DEF TracesKey
<1>1. CASE journeys'[j].status \in Live BY <1>1, SlotsStep
<1>2. CASE journeys'[j].status \in Ended
  <2>1. Stored(j)
    <3>1. ~Stored(j) => journeys[j].status = "NONE" BY DEF Stored, NoJourney
    <3>2. journeys[j].status = "NONE" => journeys'[j].status \notin Ended
      BY JourneySteps DEF IInv, JourneyStep, LegalChange, Ended
    <3> QED BY <1>2, <3>1, <3>2
  <2>2. journeys'[j].rsv = journeys[j].rsv BY <2>1, StoredStays DEF IInv
  <2>3. journeys[j].status \in Live \cup Ended
    BY <1>2, JourneySteps DEF IInv, JourneyStep, LegalChange, Live, Ended
  <2> QED BY <2>2, <2>3 DEF TracesKey
<1> QED BY <1>1, <1>2

\* The event of an ended journey leaves its reservation held only if the journey
\* took that reservation over from another attempt with its key, a retry.
OnlyTakeOversStrand ==
  \A j \in Attempt :
    journeys[j].status \in Ended /\ journeys[j].rsv \in held /\ j \notin held =>
      \E a \in Attempt \ {j} : a = journeys[j].rsv /\ KeyOf[a] = KeyOf[j]

\* Whatever interleaves, crashes or is retried, only a take-over strands slots.
THEOREM StrandedByTakeOver == Spec => []OnlyTakeOversStrand
<1>1. Init => TracesKey BY DEF Init, TracesKey, NoJourney, Live, Ended
<1>2. IInv /\ TracesKey /\ [Next]_vars => TracesKey' BY TracesStep
<1>3. TracesKey => OnlyTakeOversStrand BY DEF TracesKey, OnlyTakeOversStrand
<1> QED BY <1>1, <1>2, <1>3, Invariance, PTL DEF Spec

\* Without retries the event that ends a journey finds the rows of its
\* reservation, as the release by journey id assumes.
THEOREM EventsFindTheirRows ==
  ASSUME \A a, b \in Attempt : KeyOf[a] = KeyOf[b] => a = b
  PROVE  Spec => []EventFreesReservation
<1>1. OnlyTakeOversStrand => EventFreesReservation
  BY DEF OnlyTakeOversStrand, EventFreesReservation
<1> QED BY <1>1, StrandedByTakeOver, PTL

=============================================================================
