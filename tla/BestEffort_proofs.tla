-------------------------- MODULE BestEffort_proofs --------------------------
(***************************************************************************)
(* Theorems about the availability check with the release consumer, and    *)
(* about the delivery of push notifications, for any number of checks,     *)
(* journeys, windows, drivers, devices and notifications, any bounds and   *)
(* any faults.                                                             *)
(*                                                                         *)
(* A cached count is as old as the time at which its window last had it,   *)
(* and the record of those times only grows; what the replica shows was    *)
(* so when the next commit it is to replay was made.  An active row of a   *)
(* device has a driver, a delivery works on rows of its own driver, and    *)
(* its status is written from what the rows said.                          *)
(***************************************************************************)
EXTENDS Availability, PushDelivery, FiniteSetTheorems, SequenceTheorems, TLAPS

-----------------------------------------------------------------------------
(* The availability check and the release consumer. *)

AvailCheck == [stage : {"idle", "get", "hit", "count", "closure", "set", "answered"},
               key : AvailKey, since : 0 .. MaxAvailTime, answer : Answer,
               shutAll : BOOLEAN, blind : BOOLEAN]
Entry == [here : BOOLEAN, until : Nat, answer : Answer]

\* The last instant, plus one, at which a window had a count.
Seen(k, a) == seenAt[k[1]][a.reserved]

\* The count of every window now is one it has now; none was seen later.
NowSeen == \A w \in AvailWindow :
  /\ seenAt[w][Reserved(holding, w)] = availNow + 1
  /\ \A n \in Counts : seenAt[w][n] <= availNow + 1

\* What the replica shows once it has replayed i commits.
Showing(i) == IF i = 0 THEN replica ELSE unreplayed[i].held

\* After all of them it shows the rows as they are, and what it shows before
\* the i-th was so until that was made, which is no longer ago than the lag.
ReplicaOK ==
  /\ Showing(Len(unreplayed)) = holding
  /\ \A i \in 1 .. Len(unreplayed) :
       /\ unreplayed[i].at <= availNow /\ availNow <= unreplayed[i].at + MaxLag
       /\ \A w \in AvailWindow : seenAt[w][Reserved(Showing(i - 1), w)] > unreplayed[i].at

RowsSeen == NowSeen /\ ReplicaOK

\* A cached count was seen one flight and the lag before it was stored, at the
\* earliest.
EntryOK(k) == entries[k].here =>
  /\ Seen(k, entries[k].answer) > 0
  /\ Seen(k, entries[k].answer) + MaxFlight + MaxLag + AvailTTL > entries[k].until
  /\ entries[k].until > availNow

\* A check in flight began no longer ago than it may take; what it counted was
\* so within the lag before it began, what it hit was in the cache since.
CheckOK(c) ==
  LET seen == Seen(c.key, c.answer) IN
  /\ c.since <= availNow
  /\ c.stage \notin {"idle", "answered"} => availNow <= c.since + MaxFlight
  /\ c.shutAll => shut
  /\ c.stage \in {"closure", "set"} => seen > 0 /\ seen + MaxLag > c.since
  /\ c.stage = "set" /\ c.shutAll => ~c.answer.canReserve
  /\ c.stage = "hit" => seen > 0 /\ seen + AvailTTL + MaxFlight + MaxLag > c.since + 1
  /\ c.stage = "answered" =>
       /\ seen > 0 /\ seen + AvailTTL + 2 * MaxFlight + MaxLag > availNow + 1
       /\ c.shutAll /\ ~c.blind => ~c.answer.canReserve

Commit == [held : SUBSET Holder, at : 0 .. MaxAvailTime]
DbTypes ==
  /\ shut \in BOOLEAN /\ holding \in SUBSET Holder /\ over \in SUBSET AvailWindow
  /\ replica \in SUBSET Holder /\ unreplayed \in Seq(Commit)
  /\ seenAt \in [AvailWindow -> [Counts -> 0 .. MaxAvailTime + 1]]
CacheTypes ==
  /\ redisOn \in BOOLEAN /\ shutStale \in BOOLEAN /\ stale \in SUBSET AvailWindow
  /\ entries \in [AvailKey -> Entry]
ConsumerTypes ==
  /\ events \in [Holder -> [status : {"none", "new", "read"}, type : EventType]]
  /\ worker \in [at : Holder \cup {NoMessage}, stage : {"start", "off", "poll", "process", "invalidate"},
                 try : 0 .. MaxTries]
ClockTypes == availNow \in 0 .. MaxAvailTime /\ availFaults \in 0 .. MaxAvailFaults
CheckTypes == checks \in [Reader -> AvailCheck]

AvailInv ==
  /\ DbTypes /\ CacheTypes /\ ConsumerTypes /\ ClockTypes /\ CheckTypes /\ RowsSeen
  /\ \A k \in AvailKey : EntryOK(k)
  /\ \A r \in Reader : CheckOK(checks[r])

-----------------------------------------------------------------------------
(* Constants and counts. *)

LEMMA Bounds ==
  /\ MaxTries \in Nat \ {0} /\ AvailTTL \in Nat \ {0} /\ MaxFlight \in Nat /\ MaxLag \in Nat
  /\ MaxAvailTime \in Nat /\ MaxAvailFaults \in Nat
BY AvailAssumption

LEMMA CountsOK ==
  ASSUME NEW H \in SUBSET Holder, NEW w \in AvailWindow PROVE Reserved(H, w) \in Counts
<1> DEFINE S == {j \in H : WindowOf[j] \in Meets[w]}
<1>1. IsFiniteSet(Holder) /\ S \subseteq Holder BY AvailAssumption
<1>2. IsFiniteSet(S) /\ Cardinality(S) <= Cardinality(Holder) BY <1>1, FS_Subset
<1>3. Cardinality(S) \in Nat /\ Cardinality(Holder) \in Nat BY <1>1, <1>2, FS_CardinalityType
<1> QED BY <1>2, <1>3 DEF Reserved, Counts

LEMMA EmptyCount == ASSUME NEW w \in AvailWindow PROVE Reserved({}, w) = 0 /\ 0 \in Counts
<1>1. {j \in {} : WindowOf[j] \in Meets[w]} = {} OBVIOUS
<1>2. Reserved({}, w) = 0 BY <1>1, FS_EmptySet DEF Reserved
<1> QED BY <1>2, CountsOK

LEMMA KeyParts ==
  ASSUME NEW k \in AvailKey
  PROVE  k[1] \in AvailWindow /\ k[2] \in Level /\ RoomFor[k[2]] \in Nat
BY AvailAssumption DEF AvailKey

LEMMA NoAnswerTyped == NoAnswer \in Answer /\ NoEntryYet \in Entry
<1>1. 0 \in Counts BY EmptyCount, AvailAssumption
<1> QED BY <1>1 DEF NoAnswer, Answer, NoEntryYet, Entry

LEMMA NoCheckTyped == ASSUME NEW r PROVE NoCheck(r) \in AvailCheck
<1>1. AvailKey # {}
  <2>1. PICK w \in AvailWindow, l \in Level : TRUE BY AvailAssumption
  <2>2. <<w, l>> \in AvailKey BY <2>1 DEF AvailKey
  <2> QED BY <2>2
<1>2. (CHOOSE k \in AvailKey : TRUE) \in AvailKey BY <1>1
<1>3. 0 \in 0 .. MaxAvailTime BY Bounds
<1> QED BY <1>2, <1>3, NoAnswerTyped DEF NoCheck, AvailCheck

\* A check that is not one is no claim.
LEMMA NoCheckOK ==
  ASSUME NEW r, availNow \in Nat PROVE CheckOK(NoCheck(r))
BY DEF CheckOK, NoCheck

-----------------------------------------------------------------------------
(* Records with two fields replaced. *)

LEMMA ClosedAnswerIs ==
  ASSUME NEW a \in Answer
  PROVE  ClosedAnswer(a) = [reserved |-> a.reserved, closed |-> TRUE, canReserve |-> FALSE]
<1> PICK d : d = ClosedAnswer(a) OBVIOUS
<1>1. d = [a EXCEPT !.closed = TRUE, !.canReserve = FALSE] BY DEF ClosedAnswer
<1>2. d = [reserved |-> d.reserved, closed |-> d.closed, canReserve |-> d.canReserve]
  BY <1>1, Zenon DEF Answer
<1>3. d.reserved = a.reserved /\ d.closed = TRUE /\ d.canReserve = FALSE
  BY <1>1, Zenon DEF Answer
<1> QED BY <1>2, <1>3

LEMMA AnsweredIs ==
  ASSUME NEW c \in AvailCheck, NEW s, NEW a
  PROVE  [c EXCEPT !.stage = s, !.answer = a] =
           [stage |-> s, key |-> c.key, since |-> c.since, answer |-> a,
            shutAll |-> c.shutAll, blind |-> c.blind]
<1> PICK d : d = [c EXCEPT !.stage = s, !.answer = a] OBVIOUS
<1>1. d = [stage |-> d.stage, key |-> d.key, since |-> d.since, answer |-> d.answer,
           shutAll |-> d.shutAll, blind |-> d.blind]
  BY Zenon DEF AvailCheck
<1>2. /\ d.stage = s /\ d.key = c.key /\ d.since = c.since /\ d.answer = a
      /\ d.shutAll = c.shutAll /\ d.blind = c.blind
  BY Zenon DEF AvailCheck
<1> QED BY <1>1, <1>2

LEMMA BlindIs ==
  ASSUME NEW c \in AvailCheck, NEW s, NEW b
  PROVE  [c EXCEPT !.stage = s, !.blind = b] =
           [stage |-> s, key |-> c.key, since |-> c.since, answer |-> c.answer,
            shutAll |-> c.shutAll, blind |-> b]
<1> PICK d : d = [c EXCEPT !.stage = s, !.blind = b] OBVIOUS
<1>1. d = [stage |-> d.stage, key |-> d.key, since |-> d.since, answer |-> d.answer,
           shutAll |-> d.shutAll, blind |-> d.blind]
  BY Zenon DEF AvailCheck
<1>2. /\ d.stage = s /\ d.key = c.key /\ d.since = c.since /\ d.answer = c.answer
      /\ d.shutAll = c.shutAll /\ d.blind = b
  BY Zenon DEF AvailCheck
<1> QED BY <1>1, <1>2

-----------------------------------------------------------------------------
LEMMA AvailInitOK == AvailInit => AvailInv
<1> SUFFICES ASSUME AvailInit PROVE AvailInv OBVIOUS
<1> USE DEF AvailInit
<1>1. /\ 0 \in 0 .. MaxAvailTime /\ 0 \in 0 .. MaxAvailFaults /\ 0 \in 0 .. MaxTries
      /\ {0, 1} \subseteq 0 .. MaxAvailTime + 1
  BY Bounds
<1>2. DbTypes
  <2>1. \A w \in AvailWindow : seenAt[w] \in [Counts -> 0 .. MaxAvailTime + 1] BY <1>1
  <2>2. <<>> \in Seq(Commit) OBVIOUS
  <2> QED BY <2>1, <2>2 DEF DbTypes
<1>3. CacheTypes BY NoAnswerTyped DEF CacheTypes
<1>4. ConsumerTypes
  <2>1. (CHOOSE t \in EventType : TRUE) \in EventType BY AvailAssumption
  <2>2. events \in [Holder -> [status : {"none", "new", "read"}, type : EventType]]
    BY <2>1
  <2>3. worker \in [at : Holder \cup {NoMessage}, stage : {"start", "off", "poll", "process", "invalidate"},
                    try : 0 .. MaxTries]
    BY <1>1 DEF Starting
  <2> QED BY <2>2, <2>3 DEF ConsumerTypes
<1>5. ClockTypes BY <1>1 DEF ClockTypes
<1>6. CheckTypes BY NoCheckTyped DEF CheckTypes
<1>7. NowSeen
  <2> SUFFICES ASSUME NEW w \in AvailWindow
               PROVE  /\ seenAt[w][Reserved(holding, w)] = availNow + 1
                      /\ \A n \in Counts : seenAt[w][n] <= availNow + 1
    BY DEF NowSeen
  <2>1. Reserved(holding, w) = 0 /\ 0 \in Counts BY EmptyCount
  <2>2. \A n \in Counts : seenAt[w][n] = IF n = 0 THEN 1 ELSE 0 OBVIOUS
  <2> QED BY <2>1, <2>2
<1>7a. ReplicaOK
  <2>1. Len(unreplayed) = 0 /\ 1 .. 0 = {} BY LenProperties
  <2> QED BY <2>1 DEF ReplicaOK, Showing
<1>8. \A k \in AvailKey : EntryOK(k) BY DEF EntryOK, NoEntryYet
<1>9. \A r \in Reader : CheckOK(checks[r])
  <2> TAKE r \in Reader
  <2>1. CheckOK(NoCheck(r)) BY NoCheckOK
  <2>2. checks[r] = NoCheck(r) OBVIOUS
  <2> QED BY <2>1, <2>2
<1> QED BY <1>2, <1>3, <1>4, <1>5, <1>6, <1>7, <1>7a, <1>8, <1>9 DEF AvailInv, RowsSeen

LEMMA AvailInvImplies == AvailInv => AvailTypeOK /\ AnswersAreFresh
<1> SUFFICES ASSUME AvailInv PROVE AvailTypeOK /\ AnswersAreFresh OBVIOUS
<1>1. AvailTypeOK
  BY DEF AvailInv, AvailTypeOK, DbTypes, CacheTypes, ConsumerTypes, ClockTypes, CheckTypes,
         AvailCheck, Entry, Commit
<1>2. AnswersAreFresh BY DEF AvailInv, AnswersAreFresh, CheckOK, Seen
<1> QED BY <1>1, <1>2

-----------------------------------------------------------------------------
(* What a step of someone else leaves of a check and of an entry. *)

\* Counts are only seen again.
SeenGrows == \A w \in AvailWindow, n \in Counts : seenAt'[w][n] >= seenAt[w][n]

LEMMA SeenIsNumber ==
  ASSUME DbTypes, NEW k \in AvailKey, NEW a \in Answer PROVE Seen(k, a) \in Nat
<1>1. k[1] \in AvailWindow /\ a.reserved \in Counts BY KeyParts DEF Answer
<1>2. seenAt[k[1]][a.reserved] \in 0 .. MaxAvailTime + 1 BY <1>1 DEF DbTypes
<1>3. MaxAvailTime + 1 \in Nat BY Bounds
<1> QED BY <1>2, <1>3 DEF Seen

LEMMA SeenAgain ==
  ASSUME DbTypes, DbTypes', SeenGrows, NEW k \in AvailKey, NEW a \in Answer
  PROVE  Seen(k, a) \in Nat /\ Seen(k, a)' \in Nat /\ Seen(k, a)' >= Seen(k, a)
<1>1. k[1] \in AvailWindow /\ a.reserved \in Counts BY KeyParts DEF Answer
<1>2. seenAt'[k[1]][a.reserved] >= seenAt[k[1]][a.reserved] BY <1>1 DEF SeenGrows
<1>3. Seen(k, a) \in Nat BY SeenIsNumber
<1>4. Seen(k, a)' \in Nat
  <2>1. seenAt'[k[1]][a.reserved] \in 0 .. MaxAvailTime + 1 BY <1>1 DEF DbTypes
  <2>2. MaxAvailTime + 1 \in Nat BY Bounds
  <2> QED BY <2>1, <2>2 DEF Seen
<1> QED BY <1>2, <1>3, <1>4 DEF Seen

LEMMA Larger ==
  ASSUME NEW a \in Nat, NEW b \in Nat, b >= a, NEW p \in Nat, NEW q \in Nat, NEW l \in Nat,
         NEW t \in Nat, a + p + q + l > t + 1
  PROVE  b + p + q + l > t + 1
OBVIOUS

LEMMA CheckStays ==
  ASSUME DbTypes, DbTypes', SeenGrows, availNow' = availNow, availNow \in Nat, shut => shut',
         NEW c \in AvailCheck, CheckOK(c)
  PROVE  CheckOK(c)'
<1>1. c.key \in AvailKey /\ c.answer \in Answer /\ c.since \in Nat
  <2>1. \A n \in 0 .. MaxAvailTime : n \in Nat BY Bounds
  <2> QED BY <2>1 DEF AvailCheck
<1> DEFINE s == Seen(c.key, c.answer)
<1>2. s \in Nat /\ s' \in Nat /\ s' >= s BY <1>1, SeenAgain
<1>3. AvailTTL \in Nat /\ MaxFlight \in Nat /\ MaxLag \in Nat BY Bounds
<1>4. /\ c.since <= availNow
      /\ c.stage \notin {"idle", "answered"} => availNow <= c.since + MaxFlight
      /\ c.shutAll => shut
      /\ c.stage \in {"closure", "set"} => s > 0 /\ s + MaxLag > c.since
      /\ c.stage = "set" /\ c.shutAll => ~c.answer.canReserve
      /\ c.stage = "hit" => s > 0 /\ s + AvailTTL + MaxFlight + MaxLag > c.since + 1
      /\ c.stage = "answered" =>
           /\ s > 0 /\ s + AvailTTL + 2 * MaxFlight + MaxLag > availNow + 1
           /\ c.shutAll /\ ~c.blind => ~c.answer.canReserve
  BY DEF CheckOK
<1> HIDE DEF s
<1>5. s + MaxLag > c.since => s' + MaxLag > c.since BY <1>1, <1>2, <1>3
<1>6. s > 0 => s' > 0 BY <1>2
<1>7. s + AvailTTL + MaxFlight + MaxLag > c.since + 1
      => s' + AvailTTL + MaxFlight + MaxLag > c.since + 1
  BY <1>1, <1>2, <1>3
<1>8. s + AvailTTL + 2 * MaxFlight + MaxLag > availNow + 1
      => s' + AvailTTL + 2 * MaxFlight + MaxLag > availNow' + 1
  <2>1. PICK f \in Nat : f = 2 * MaxFlight BY <1>3
  <2>2. s + AvailTTL + f + MaxLag > availNow + 1 => s' + AvailTTL + f + MaxLag > availNow + 1
    BY <1>2, <1>3, <2>1, Larger
  <2> QED BY <2>1, <2>2
<1>9. /\ c.since <= availNow'
      /\ c.stage \notin {"idle", "answered"} => availNow' <= c.since + MaxFlight
      /\ c.shutAll => shut'
      /\ c.stage \in {"closure", "set"} => s' > 0 /\ s' + MaxLag > c.since
      /\ c.stage = "set" /\ c.shutAll => ~c.answer.canReserve
      /\ c.stage = "hit" => s' > 0 /\ s' + AvailTTL + MaxFlight + MaxLag > c.since + 1
      /\ c.stage = "answered" =>
           /\ s' > 0 /\ s' + AvailTTL + 2 * MaxFlight + MaxLag > availNow' + 1
           /\ c.shutAll /\ ~c.blind => ~c.answer.canReserve
  BY <1>4, <1>5, <1>6, <1>7, <1>8, Zenon
<1> USE DEF s
<1> QED BY <1>9 DEF CheckOK

LEMMA EntryStays ==
  ASSUME DbTypes, DbTypes', SeenGrows, NEW k \in AvailKey, EntryOK(k), entries[k] \in Entry,
         entries'[k] = entries[k], entries[k].here => entries[k].until > availNow'
  PROVE  EntryOK(k)'
<1> PICK e \in Entry : e = entries[k] OBVIOUS
<1>1. e.answer \in Answer /\ e.until \in Nat BY DEF Entry
<1>2. Seen(k, e.answer) \in Nat /\ Seen(k, e.answer)' \in Nat /\ Seen(k, e.answer)' >= Seen(k, e.answer)
  BY <1>1, SeenAgain
<1>3. e.here => /\ Seen(k, e.answer) > 0
                /\ Seen(k, e.answer) + MaxFlight + MaxLag + AvailTTL > e.until
  BY DEF EntryOK
<1>4. AvailTTL \in Nat /\ MaxFlight \in Nat /\ MaxLag \in Nat BY Bounds
<1>5. e.here => /\ Seen(k, e.answer)' > 0
                /\ Seen(k, e.answer)' + MaxFlight + MaxLag + AvailTTL > e.until
                /\ e.until > availNow'
  BY <1>1, <1>2, <1>3, <1>4
<1>6. entries'[k] = e OBVIOUS
<1> QED BY <1>5, <1>6 DEF EntryOK, Seen

LEMMA SeenSame == ASSUME DbTypes, UNCHANGED seenAt PROVE SeenGrows
<1> SUFFICES ASSUME NEW w \in AvailWindow, NEW n \in Counts PROVE seenAt'[w][n] >= seenAt[w][n]
  BY DEF SeenGrows
<1>1. seenAt[w][n] \in 0 .. MaxAvailTime + 1 /\ MaxAvailTime + 1 \in Nat BY Bounds DEF DbTypes
<1> QED BY <1>1

\* What the replica shows at any point is a set of rows with a count.
LEMMA ShowingTyped ==
  ASSUME DbTypes, NEW i \in 0 .. Len(unreplayed), NEW w \in AvailWindow
  PROVE  /\ Showing(i) \in SUBSET Holder /\ Reserved(Showing(i), w) \in Counts
         /\ Len(unreplayed) \in Nat
<1>1. Len(unreplayed) \in Nat BY LenProperties DEF DbTypes
<1>2. Showing(i) \in SUBSET Holder
  <2>1. CASE i = 0 BY <2>1 DEF Showing, DbTypes
  <2>2. CASE i # 0
    <3>1. i \in 1 .. Len(unreplayed) BY <1>1, <2>2
    <3>2. unreplayed[i] \in Commit BY <3>1, ElementOfSeq DEF DbTypes
    <3> QED BY <2>2, <3>2 DEF Showing, Commit
  <2> QED BY <2>1, <2>2
<1> QED BY <1>1, <1>2, CountsOK

LEMMA CommitTyped ==
  ASSUME DbTypes, NEW i \in 1 .. Len(unreplayed)
  PROVE  unreplayed[i].held \in SUBSET Holder /\ unreplayed[i].at \in Nat
<1>1. unreplayed[i] \in Commit BY ElementOfSeq DEF DbTypes
<1>2. \A n \in 0 .. MaxAvailTime : n \in Nat BY Bounds
<1> QED BY <1>1, <1>2 DEF Commit

LEMMA StillLater ==
  ASSUME NEW a \in Nat, NEW b \in Nat, NEW t \in Nat, a > t, b >= a PROVE b > t
OBVIOUS

LEMMA WithinLag ==
  ASSUME NEW a \in Nat, NEW t \in Nat, NEW l \in Nat, NEW now \in Nat, a > t, now <= t + l
  PROVE  a > 0 /\ a + l > now
OBVIOUS

LEMMA ReplicaStays ==
  ASSUME DbTypes, DbTypes', SeenGrows, ReplicaOK, holding' = holding, replica' = replica,
         unreplayed' = unreplayed, availNow \in Nat, availNow' \in Nat, availNow' >= availNow,
         \A i \in 1 .. Len(unreplayed) : availNow' <= unreplayed[i].at + MaxLag
  PROVE  ReplicaOK'
<1>1. \A i : Showing(i)' = Showing(i) BY DEF Showing
<1>2. Showing(Len(unreplayed))' = holding' BY <1>1 DEF ReplicaOK, Showing
<1>3. ASSUME NEW i \in 1 .. Len(unreplayed)
      PROVE  /\ unreplayed[i].at <= availNow' /\ availNow' <= unreplayed[i].at + MaxLag
             /\ \A w \in AvailWindow : seenAt'[w][Reserved(Showing(i - 1), w)] > unreplayed[i].at
  <2>1. unreplayed[i].at \in Nat /\ unreplayed[i].at <= availNow BY CommitTyped DEF ReplicaOK
  <2>2. ASSUME NEW w \in AvailWindow
        PROVE  seenAt'[w][Reserved(Showing(i - 1), w)] > unreplayed[i].at
    <3>1. Len(unreplayed) \in Nat BY LenProperties DEF DbTypes
    <3>2. i - 1 \in 0 .. Len(unreplayed) BY <3>1
    <3> PICK n \in Counts : n = Reserved(Showing(i - 1), w) BY <3>2, ShowingTyped
    <3>3. seenAt[w][n] > unreplayed[i].at BY DEF ReplicaOK
    <3>4. seenAt'[w][n] >= seenAt[w][n] BY DEF SeenGrows
    <3>5. seenAt[w][n] \in 0 .. MaxAvailTime + 1 /\ seenAt'[w][n] \in 0 .. MaxAvailTime + 1
      BY DEF DbTypes
    <3>6. MaxAvailTime + 1 \in Nat BY Bounds
    <3> PICK a, b, t : a = seenAt[w][n] /\ b = seenAt'[w][n] /\ t = unreplayed[i].at OBVIOUS
    <3>7. a \in Nat /\ b \in Nat /\ t \in Nat BY <2>1, <3>5, <3>6
    <3>8. a > t /\ b >= a BY <3>3, <3>4
    <3>9. b > t BY <3>7, <3>8, StillLater, Zenon
    <3> QED BY <3>9
  <2> QED BY <2>1, <2>2
<1>4. ASSUME NEW i \in 1 .. Len(unreplayed')
      PROVE  /\ unreplayed'[i].at <= availNow' /\ availNow' <= unreplayed'[i].at + MaxLag
             /\ \A w \in AvailWindow : seenAt'[w][Reserved(Showing(i - 1)', w)] > unreplayed'[i].at
  BY <1>1, <1>3
<1> QED BY <1>2, <1>4 DEF ReplicaOK, Reserved

\* What the replica shows now was so within its lag.
LEMMA ReplicaRecent ==
  ASSUME DbTypes, RowsSeen, availNow \in Nat, NEW w \in AvailWindow
  PROVE  /\ seenAt[w][Reserved(replica, w)] > 0
         /\ seenAt[w][Reserved(replica, w)] + MaxLag > availNow
<1>1. Len(unreplayed) \in Nat /\ MaxLag \in Nat BY LenProperties, Bounds DEF DbTypes
<1>2. Showing(0) = replica BY DEF Showing
<1>3. CASE Len(unreplayed) = 0
  <2>1. replica = holding BY <1>2, <1>3 DEF RowsSeen, ReplicaOK
  <2>2. seenAt[w][Reserved(replica, w)] = availNow + 1 BY <2>1 DEF RowsSeen, NowSeen
  <2> QED BY <1>1, <2>2
<1>4. CASE Len(unreplayed) # 0
  <2>1. 1 \in 1 .. Len(unreplayed) /\ 1 - 1 = 0 BY <1>1, <1>4
  <2>2. unreplayed[1].at \in Nat BY <2>1, CommitTyped
  <2>3. /\ availNow <= unreplayed[1].at + MaxLag
        /\ seenAt[w][Reserved(Showing(0), w)] > unreplayed[1].at
    BY <2>1 DEF RowsSeen, ReplicaOK
  <2> PICK n \in Counts : n = Reserved(replica, w) BY CountsOK DEF DbTypes
  <2>4. seenAt[w][n] \in 0 .. MaxAvailTime + 1 /\ MaxAvailTime + 1 \in Nat
    BY Bounds DEF DbTypes
  <2> PICK a, t : a = seenAt[w][n] /\ t = unreplayed[1].at OBVIOUS
  <2>5. a \in Nat /\ t \in Nat BY <2>2, <2>4
  <2>6. availNow <= t + MaxLag /\ a > t BY <1>2, <2>3
  <2>7. a > 0 /\ a + MaxLag > availNow BY <1>1, <2>5, <2>6, WithinLag, Zenon
  <2> QED BY <2>7
<1> QED BY <1>3, <1>4

\* A commit joins those the replica is to replay.
LEMMA ReplicaBehind ==
  ASSUME AvailInv, DbTypes', SeenGrows, NEW H \in SUBSET Holder, SetHolding(H), availNow' = availNow
  PROVE  ReplicaOK'
<1> PICK q : q = unreplayed OBVIOUS
<1> PICK x : x = [held |-> H, at |-> availNow] OBVIOUS
<1> PICK n : n = Len(q) OBVIOUS
<1>1. /\ q \in Seq(Commit) /\ DbTypes /\ NowSeen /\ ReplicaOK /\ availNow \in 0 .. MaxAvailTime
      /\ availNow \in Nat /\ MaxLag \in Nat
  BY Bounds DEF AvailInv, DbTypes, RowsSeen, ClockTypes
<1>2. x \in Commit BY <1>1 DEF Commit
<1>3. unreplayed' = Append(q, x) /\ holding' = H /\ replica' = replica BY DEF SetHolding
<1>4. n \in Nat BY <1>1, LenProperties
<1>5. /\ Len(unreplayed') = n + 1 /\ unreplayed'[n + 1] = x
      /\ \A i \in 1 .. n : unreplayed'[i] = q[i]
  BY <1>1, <1>2, <1>3, AppendProperties
<1>6. \A i \in 0 .. n : Showing(i)' = Showing(i)
  <2> TAKE i \in 0 .. n
  <2>1. CASE i = 0 BY <1>3, <2>1 DEF Showing
  <2>2. CASE i # 0
    <3>1. i \in 1 .. n BY <1>4, <2>2
    <3> QED BY <1>5, <2>2, <3>1 DEF Showing
  <2> QED BY <2>1, <2>2
<1>7. Showing(Len(unreplayed))' = holding'
  <2>1. n + 1 # 0 BY <1>4
  <2> QED BY <1>3, <1>5, <2>1 DEF Showing
<1>8. ASSUME NEW i \in 1 .. n + 1
      PROVE  /\ unreplayed'[i].at <= availNow' /\ availNow' <= unreplayed'[i].at + MaxLag
             /\ \A w \in AvailWindow : seenAt'[w][Reserved(Showing(i - 1)', w)] > unreplayed'[i].at
  <2>1. i - 1 \in 0 .. n /\ 0 .. n = 0 .. Len(unreplayed) BY <1>4
  <2>2. Showing(i - 1)' = Showing(i - 1) BY <1>6, <2>1
  <2>3. \A w \in AvailWindow :
          /\ seenAt[w][Reserved(Showing(i - 1), w)] \in Nat
          /\ seenAt'[w][Reserved(Showing(i - 1), w)] \in Nat
          /\ seenAt'[w][Reserved(Showing(i - 1), w)] >= seenAt[w][Reserved(Showing(i - 1), w)]
    <3> TAKE w \in AvailWindow
    <3> PICK m \in Counts : m = Reserved(Showing(i - 1), w) BY <1>1, <2>1, ShowingTyped
    <3>1. seenAt[w][m] \in 0 .. MaxAvailTime + 1 /\ seenAt'[w][m] \in 0 .. MaxAvailTime + 1
      BY <1>1 DEF DbTypes
    <3>2. MaxAvailTime + 1 \in Nat BY Bounds
    <3>3. seenAt'[w][m] >= seenAt[w][m] BY DEF SeenGrows
    <3>4. seenAt[w][m] \in Nat /\ seenAt'[w][m] \in Nat BY <3>1, <3>2
    <3> QED BY <3>3, <3>4
  <2>4. CASE i \in 1 .. n
    <3>1. unreplayed'[i] = unreplayed[i] /\ i \in 1 .. Len(unreplayed) BY <1>5, <2>4
    <3>2. unreplayed[i].at \in Nat BY <1>1, <3>1, CommitTyped
    <3>3. /\ unreplayed[i].at <= availNow /\ availNow <= unreplayed[i].at + MaxLag
          /\ \A w \in AvailWindow : seenAt[w][Reserved(Showing(i - 1), w)] > unreplayed[i].at
      BY <1>1, <3>1 DEF ReplicaOK
    <3>4. \A w \in AvailWindow : seenAt'[w][Reserved(Showing(i - 1), w)] > unreplayed[i].at
      BY <2>3, <3>2, <3>3
    <3> QED BY <2>2, <3>1, <3>3, <3>4
  <2>5. CASE i = n + 1
    <3>1. unreplayed'[i].at = availNow BY <1>5, <2>5
    <3>2. Showing(i - 1) = holding BY <1>1, <1>4, <2>5 DEF ReplicaOK
    <3>3. \A w \in AvailWindow : seenAt[w][Reserved(Showing(i - 1), w)] = availNow + 1
      BY <1>1, <3>2 DEF NowSeen
    <3>4. \A w \in AvailWindow : seenAt'[w][Reserved(Showing(i - 1), w)] > availNow
      BY <1>1, <2>3, <3>3
    <3> QED BY <1>1, <2>2, <3>1, <3>4
  <2> QED BY <1>4, <2>4, <2>5
<1> QED BY <1>5, <1>7, <1>8 DEF ReplicaOK, Reserved

\* Everything a check and an entry rest on stays as the rows change.
LEMMA HoldingSet ==
  ASSUME AvailInv, NEW H \in SUBSET Holder, SetHolding(H),
         availNow' = availNow, shut' = shut, over' = over
  PROVE  DbTypes' /\ SeenGrows /\ RowsSeen'
<1>1. availNow + 1 \in 0 .. MaxAvailTime + 1 /\ availNow \in Nat /\ availNow' = availNow
  BY Bounds DEF AvailInv, ClockTypes
<1>2. \A w \in AvailWindow : Reserved(H, w) \in Counts BY CountsOK
<1>3. \A w \in AvailWindow : seenAt[w] \in [Counts -> 0 .. MaxAvailTime + 1]
  BY DEF AvailInv, DbTypes
<1>4. holding' = H /\ seenAt' = [w \in AvailWindow |-> [seenAt[w] EXCEPT ![Reserved(H, w)] = availNow + 1]]
  BY DEF SetHolding
<1>5. \A w \in AvailWindow :
        /\ seenAt'[w] \in [Counts -> 0 .. MaxAvailTime + 1]
        /\ seenAt'[w][Reserved(H, w)] = availNow + 1
        /\ \A n \in Counts : n # Reserved(H, w) => seenAt'[w][n] = seenAt[w][n]
  <2> TAKE w \in AvailWindow
  <2>1. seenAt'[w] = [seenAt[w] EXCEPT ![Reserved(H, w)] = availNow + 1] BY <1>4
  <2> QED BY <1>1, <1>2, <1>3, <2>1
<1>6. DbTypes'
  <2>1. seenAt' \in [AvailWindow -> [Counts -> 0 .. MaxAvailTime + 1]] BY <1>4, <1>5
  <2>2. [held |-> H, at |-> availNow] \in Commit BY DEF Commit, AvailInv, ClockTypes
  <2>3. unreplayed' \in Seq(Commit)
    BY <2>2, AppendProperties DEF SetHolding, DbTypes, AvailInv
  <2>4. replica' = replica BY DEF SetHolding
  <2> QED BY <2>1, <2>3, <2>4, <1>4 DEF DbTypes, AvailInv
<1>7. \A w \in AvailWindow, n \in Counts : seenAt[w][n] \in Nat /\ seenAt[w][n] <= availNow + 1
  <2>1. MaxAvailTime + 1 \in Nat BY Bounds
  <2> QED BY <2>1, <1>3 DEF AvailInv, RowsSeen, NowSeen
<1>8. SeenGrows
  <2> SUFFICES ASSUME NEW w \in AvailWindow, NEW n \in Counts PROVE seenAt'[w][n] >= seenAt[w][n]
    BY DEF SeenGrows
  <2>1. CASE n = Reserved(H, w) BY <2>1, <1>5, <1>7, <1>1
  <2>2. CASE n # Reserved(H, w) BY <2>2, <1>5, <1>7
  <2> QED BY <2>1, <2>2
<1>9. NowSeen'
  <2> SUFFICES ASSUME NEW w \in AvailWindow
               PROVE  /\ seenAt'[w][Reserved(holding', w)] = availNow' + 1
                      /\ \A n \in Counts : seenAt'[w][n] <= availNow' + 1
    BY DEF NowSeen, Reserved
  <2>1. seenAt'[w][Reserved(holding', w)] = availNow' + 1 BY <1>1, <1>4, <1>5
  <2>2. ASSUME NEW n \in Counts PROVE seenAt'[w][n] <= availNow' + 1
    <3>1. CASE n = Reserved(H, w) BY <3>1, <1>5, <1>1
    <3>2. CASE n # Reserved(H, w) BY <3>2, <1>5, <1>7, <1>1
    <3> QED BY <3>1, <3>2
  <2> QED BY <2>1, <2>2
<1>10. ReplicaOK' BY <1>1, <1>6, <1>8, ReplicaBehind
<1> QED BY <1>6, <1>8, <1>9, <1>10 DEF RowsSeen

\* A step that leaves the rows and the clock alone.
LEMMA DbStays ==
  ASSUME AvailInv, UNCHANGED <<holding, replica, unreplayed, seenAt, availNow>>,
         shut' \in BOOLEAN, over' \in SUBSET AvailWindow
  PROVE  DbTypes' /\ SeenGrows /\ RowsSeen'
<1>1. DbTypes' BY DEF AvailInv, DbTypes
<1>2. SeenGrows BY SeenSame DEF AvailInv
<1>3. NowSeen' BY DEF AvailInv, RowsSeen, NowSeen, Reserved
<1>4. availNow \in Nat /\ availNow' = availNow BY Bounds DEF AvailInv, ClockTypes
<1>5. \A i \in 1 .. Len(unreplayed) : availNow' <= unreplayed[i].at + MaxLag
  BY <1>4 DEF AvailInv, RowsSeen, ReplicaOK
<1>6. ReplicaOK' BY <1>1, <1>2, <1>4, <1>5, ReplicaStays DEF AvailInv, RowsSeen
<1> QED BY <1>1, <1>2, <1>3, <1>6 DEF RowsSeen

\* A step that leaves checks, entries and clock alone.
LEMMA AllStay ==
  ASSUME AvailInv, DbTypes', SeenGrows, UNCHANGED <<availNow, entries, checks>>, shut => shut'
  PROVE  /\ \A k \in AvailKey : EntryOK(k)'
         /\ \A r \in Reader : CheckOK(checks[r])'
         /\ CheckTypes'
<1>1. DbTypes /\ availNow \in Nat /\ availNow' = availNow BY Bounds DEF AvailInv, ClockTypes
<1>2. ASSUME NEW k \in AvailKey PROVE EntryOK(k)'
  <2>1. entries[k] \in Entry /\ EntryOK(k) BY DEF AvailInv, CacheTypes
  <2>2. entries[k].here => entries[k].until > availNow' BY <1>1, <2>1 DEF EntryOK
  <2> QED BY <1>1, <2>1, <2>2, EntryStays
<1>3. ASSUME NEW r \in Reader PROVE CheckOK(checks[r])'
  <2> PICK c \in AvailCheck : c = checks[r] BY DEF AvailInv, CheckTypes
  <2>1. CheckOK(c) BY DEF AvailInv
  <2>2. CheckOK(c)' BY <1>1, <2>1, CheckStays
  <2> QED BY <2>2
<1>4. CheckTypes' BY DEF AvailInv, CheckTypes
<1> QED BY <1>2, <1>3, <1>4

\* A step of one check, which goes on as c.
LEMMA CheckGoesOn ==
  ASSUME AvailInv, NEW r \in Reader, NEW c \in AvailCheck, SetCheck(r, c), CheckOK(c),
         UNCHANGED <<dbVars, availNow>>
  PROVE  DbTypes' /\ RowsSeen' /\ CheckTypes' /\ SeenGrows /\ \A q \in Reader : CheckOK(checks[q])'
<1>1. /\ DbTypes /\ availNow \in Nat /\ availNow' = availNow /\ shut' = shut /\ over' = over
      /\ holding' = holding /\ seenAt' = seenAt /\ replica' = replica /\ unreplayed' = unreplayed
  BY Bounds DEF AvailInv, ClockTypes, dbVars, rowVars
<1>2. DbTypes' /\ SeenGrows /\ RowsSeen' BY <1>1, DbStays DEF DbTypes
<1>5. checks' = [checks EXCEPT ![r] = c] /\ checks \in [Reader -> AvailCheck]
  BY DEF SetCheck, AvailInv, CheckTypes
<1>6. CheckTypes' BY <1>5 DEF CheckTypes
<1>7. ASSUME NEW q \in Reader PROVE CheckOK(checks[q])'
  <2> PICK e \in AvailCheck : e = checks'[q] BY <1>5
  <2>1. CheckOK(e)
    <3>1. CASE q = r BY <1>5, <3>1
    <3>2. CASE q # r BY <1>5, <3>2 DEF AvailInv
    <3> QED BY <3>1, <3>2
  <2>2. CheckOK(e)' BY <1>1, <1>2, <2>1, CheckStays
  <2> QED BY <2>2
<1> QED BY <1>2, <1>6, <1>7

LEMMA EntriesStay ==
  ASSUME AvailInv, DbTypes', SeenGrows, UNCHANGED <<entries, availNow>>
  PROVE  \A k \in AvailKey : EntryOK(k)'
<1> TAKE k \in AvailKey
<1>1. entries[k] \in Entry /\ EntryOK(k) /\ DbTypes BY DEF AvailInv, CacheTypes
<1>2. entries[k].here => entries[k].until > availNow' BY <1>1 DEF EntryOK
<1> QED BY <1>1, <1>2, EntryStays

LEMMA FaultTypes ==
  ASSUME AvailInv, AvailFault \/ NoAvailFault
  PROVE  availFaults' \in 0 .. MaxAvailFaults
<1>1. MaxAvailFaults \in Nat /\ availFaults \in 0 .. MaxAvailFaults
  BY Bounds DEF AvailInv, ClockTypes
<1> QED BY <1>1 DEF AvailFault, NoAvailFault

LEMMA OldCheck ==
  ASSUME AvailInv, NEW r \in Reader, NEW c, c = checks[r]
  PROVE  /\ c \in AvailCheck /\ CheckOK(c) /\ c.key \in AvailKey /\ c.answer \in Answer
         /\ c.since \in Nat /\ availNow \in Nat /\ c.since <= availNow
         /\ Seen(c.key, c.answer) \in Nat
<1>1. \A n \in 0 .. MaxAvailTime : n \in Nat BY Bounds
<1>2. c \in AvailCheck /\ CheckOK(c) /\ availNow \in Nat
  BY <1>1 DEF AvailInv, CheckTypes, ClockTypes
<1>3. c.key \in AvailKey /\ c.answer \in Answer /\ c.since \in Nat BY <1>1, <1>2 DEF AvailCheck
<1>4. Seen(c.key, c.answer) \in Nat BY <1>3, SeenIsNumber DEF AvailInv
<1> QED BY <1>2, <1>3, <1>4 DEF CheckOK

-----------------------------------------------------------------------------
(* The steps of a check. *)

LEMMA CheckOnly ==
  ASSUME AvailInv, NEW r \in Reader, NEW c \in AvailCheck, SetCheck(r, c), CheckOK(c),
         UNCHANGED <<dbVars, cacheVars, consumerVars, availNow>>, AvailFault \/ NoAvailFault
  PROVE  AvailInv'
<1>1. DbTypes' /\ RowsSeen' /\ CheckTypes' /\ SeenGrows /\ \A q \in Reader : CheckOK(checks[q])'
  BY CheckGoesOn
<1>2. CacheTypes' /\ ConsumerTypes' /\ UNCHANGED entries
  BY DEF AvailInv, CacheTypes, ConsumerTypes, cacheVars, consumerVars
<1>3. ClockTypes' BY FaultTypes DEF AvailInv, ClockTypes
<1>4. \A k \in AvailKey : EntryOK(k)' BY <1>1, <1>2, EntriesStay
<1> QED BY <1>1, <1>2, <1>3, <1>4 DEF AvailInv

LEMMA BeginCheck == ASSUME AvailInv, NEW r \in Reader, NEW k \in AvailKey, Check(r, k) PROVE AvailInv'
<1>1. PICK t, b : t = availNow /\ b = shut OBVIOUS
<1>2. SetCheck(r, [NoCheck(r) EXCEPT !.stage = "get", !.key = k, !.since = t, !.shutAll = b])
  BY <1>1, Zenon DEF Check
<1>3. PICK c : c = [NoCheck(r) EXCEPT !.stage = "get", !.key = k, !.since = t, !.shutAll = b]
  OBVIOUS
<1>4. c = [stage |-> "get", key |-> k, since |-> t, answer |-> NoAnswer, shutAll |-> b, blind |-> FALSE]
  <2>1. PICK e \in AvailCheck : e = NoCheck(r) BY NoCheckTyped
  <2>2. c = [e EXCEPT !.stage = "get", !.key = k, !.since = t, !.shutAll = b] BY <1>3, <2>1
  <2>3. c = [stage |-> c.stage, key |-> c.key, since |-> c.since, answer |-> c.answer,
             shutAll |-> c.shutAll, blind |-> c.blind]
    BY <2>1, <2>2, Zenon DEF AvailCheck
  <2>4. /\ c.stage = "get" /\ c.key = k /\ c.since = t /\ c.answer = e.answer
        /\ c.shutAll = b /\ c.blind = e.blind
    BY <2>1, <2>2, Zenon DEF AvailCheck
  <2>5. e.answer = NoAnswer /\ e.blind = FALSE BY <2>1 DEF NoCheck
  <2> QED BY <2>3, <2>4, <2>5
<1>5. SetCheck(r, c) BY <1>2, <1>3, Zenon
<1>6. c \in AvailCheck BY <1>1, <1>4, NoAnswerTyped DEF AvailCheck, AvailInv, ClockTypes, DbTypes
<1>7. CheckOK(c)
  <2>1. availNow \in Nat /\ MaxFlight \in Nat BY Bounds DEF AvailInv, ClockTypes
  <2> QED BY <1>1, <1>4, <2>1 DEF CheckOK
<1>8. UNCHANGED <<dbVars, cacheVars, consumerVars, availNow>> /\ NoAvailFault
  BY DEF Check, NoAvailFault
<1> QED BY <1>5, <1>6, <1>7, <1>8, CheckOnly

\* Only the stage goes on.
LEMMA StageIs ==
  ASSUME NEW c \in AvailCheck, NEW s
  PROVE  [c EXCEPT !.stage = s] =
           [stage |-> s, key |-> c.key, since |-> c.since, answer |-> c.answer,
            shutAll |-> c.shutAll, blind |-> c.blind]
<1> PICK d : d = [c EXCEPT !.stage = s] OBVIOUS
<1>1. d = [stage |-> d.stage, key |-> d.key, since |-> d.since, answer |-> d.answer,
           shutAll |-> d.shutAll, blind |-> d.blind]
  BY Zenon DEF AvailCheck
<1>2. /\ d.stage = s /\ d.key = c.key /\ d.since = c.since /\ d.answer = c.answer
      /\ d.shutAll = c.shutAll /\ d.blind = c.blind
  BY Zenon DEF AvailCheck
<1> QED BY <1>1, <1>2

LEMMA GetStep == ASSUME AvailInv, NEW r \in Reader, RedisGet(r) PROVE AvailInv'
<1> PICK c : c = checks[r] OBVIOUS
<1>1. /\ c \in AvailCheck /\ CheckOK(c) /\ c.key \in AvailKey /\ c.answer \in Answer
      /\ c.since \in Nat /\ availNow \in Nat /\ c.since <= availNow /\ c.stage = "get"
  BY OldCheck DEF RedisGet
<1>2. UNCHANGED <<dbVars, cacheVars, consumerVars, availNow>> /\ (AvailFault \/ NoAvailFault)
  BY DEF RedisGet
<1> PICK e : e = entries[c.key] OBVIOUS
<1>3. e \in Entry /\ EntryOK(c.key) BY <1>1 DEF AvailInv, CacheTypes
<1>4. CASE e.here /\ SetCheck(r, [c EXCEPT !.stage = "hit", !.answer = e.answer])
  <2> PICK d : d = [stage |-> "hit", key |-> c.key, since |-> c.since, answer |-> e.answer,
                    shutAll |-> c.shutAll, blind |-> c.blind]
    OBVIOUS
  <2>1. SetCheck(r, d)
    <3>1. [c EXCEPT !.stage = "hit", !.answer = e.answer] = d BY <1>1, AnsweredIs, Zenon
    <3> QED BY <1>4, <3>1, Zenon
  <2>2. e.answer \in Answer /\ e.until \in Nat BY <1>3 DEF Entry
  <2>3. d \in AvailCheck BY <1>1, <2>2 DEF AvailCheck
  <2>4. /\ Seen(c.key, e.answer) > 0 /\ Seen(c.key, e.answer) \in Nat
        /\ Seen(c.key, e.answer) + MaxFlight + MaxLag + AvailTTL > e.until /\ e.until > availNow
    BY <1>1, <1>3, <1>4, <2>2, SeenIsNumber DEF EntryOK, AvailInv
  <2>5. MaxFlight \in Nat /\ AvailTTL \in Nat /\ MaxLag \in Nat BY Bounds
  <2>6. Seen(c.key, e.answer) + AvailTTL + MaxFlight + MaxLag > c.since + 1
    BY <1>1, <1>4, <2>2, <2>4, <2>5
  <2>7. CheckOK(d) BY <1>1, <2>4, <2>6 DEF CheckOK
  <2> QED BY <1>2, <2>1, <2>3, <2>7, CheckOnly
<1>5. CASE SetCheck(r, [c EXCEPT !.stage = "count"])
  <2> PICK d : d = [stage |-> "count", key |-> c.key, since |-> c.since, answer |-> c.answer,
                    shutAll |-> c.shutAll, blind |-> c.blind]
    OBVIOUS
  <2>1. SetCheck(r, d) BY <1>1, <1>5, StageIs
  <2>2. d \in AvailCheck BY <1>1 DEF AvailCheck
  <2>3. CheckOK(d) BY <1>1 DEF CheckOK
  <2> QED BY <1>2, <2>1, <2>2, <2>3, CheckOnly
<1> QED BY <1>4, <1>5 DEF RedisGet

LEMMA CloseAnswerTyped == ASSUME NEW a \in Answer PROVE ClosedAnswer(a) \in Answer
<1> PICK d : d = ClosedAnswer(a) OBVIOUS
<1>1. d = [reserved |-> a.reserved, closed |-> TRUE, canReserve |-> FALSE]
  BY ClosedAnswerIs, Zenon
<1> QED BY <1>1 DEF Answer

\* What is answered after the closures were looked at.
LEMMA AfterClosures ==
  ASSUME NEW a \in Answer, NEW b, b = IF shut THEN ClosedAnswer(a) ELSE a
  PROVE  b \in Answer /\ b.reserved = a.reserved /\ (shut => ~b.canReserve)
<1> PICK d : d = ClosedAnswer(a) OBVIOUS
<1>1. d = [reserved |-> a.reserved, closed |-> TRUE, canReserve |-> FALSE] /\ d \in Answer
  BY ClosedAnswerIs, CloseAnswerTyped, Zenon
<1>2. d.reserved = a.reserved /\ ~d.canReserve BY <1>1
<1> QED BY <1>1, <1>2

LEMMA HitStep == ASSUME AvailInv, NEW r \in Reader, CheckHit(r) PROVE AvailInv'
<1> PICK c : c = checks[r] OBVIOUS
<1>1. /\ c \in AvailCheck /\ CheckOK(c) /\ c.key \in AvailKey /\ c.answer \in Answer
      /\ c.since \in Nat /\ availNow \in Nat /\ c.since <= availNow /\ c.stage = "hit"
      /\ Seen(c.key, c.answer) \in Nat
  BY OldCheck DEF CheckHit
<1>2. UNCHANGED <<dbVars, cacheVars, consumerVars, availNow>> /\ (AvailFault \/ NoAvailFault)
  BY DEF CheckHit
<1>3. MaxFlight \in Nat /\ AvailTTL \in Nat /\ MaxLag \in Nat BY Bounds
<1>4. /\ Seen(c.key, c.answer) > 0
      /\ Seen(c.key, c.answer) + AvailTTL + MaxFlight + MaxLag > c.since + 1
      /\ availNow <= c.since + MaxFlight /\ (c.shutAll => shut)
  BY <1>1 DEF CheckOK
<1>5. Seen(c.key, c.answer) + AvailTTL + 2 * MaxFlight + MaxLag > availNow + 1
  BY <1>1, <1>3, <1>4
<1>6. CASE SetCheck(r, [c EXCEPT !.stage = "answered",
                          !.answer = IF shut THEN ClosedAnswer(c.answer) ELSE c.answer])
  <2> PICK b : b = IF shut THEN ClosedAnswer(c.answer) ELSE c.answer OBVIOUS
  <2> PICK d : d = [stage |-> "answered", key |-> c.key, since |-> c.since, answer |-> b,
                    shutAll |-> c.shutAll, blind |-> c.blind]
    OBVIOUS
  <2>1. SetCheck(r, d)
    <3>1. [c EXCEPT !.stage = "answered", !.answer = b] = d BY <1>1, AnsweredIs, Zenon
    <3>2. SetCheck(r, [c EXCEPT !.stage = "answered", !.answer = b]) BY <1>6, Zenon
    <3> QED BY <3>1, <3>2, Zenon
  <2>2. b \in Answer /\ b.reserved = c.answer.reserved /\ (shut => ~b.canReserve)
    BY <1>1, AfterClosures
  <2>3. d \in AvailCheck BY <1>1, <2>2 DEF AvailCheck
  <2>4. Seen(d.key, d.answer) = Seen(c.key, c.answer) BY <2>2 DEF Seen
  <2>5. CheckOK(d)
    <3>1. /\ d.stage = "answered" /\ d.key = c.key /\ d.since = c.since /\ d.answer = b
          /\ d.shutAll = c.shutAll /\ d.blind = c.blind
      OBVIOUS
    <3>2. (c.shutAll => shut) /\ availNow <= c.since + MaxFlight /\ c.since <= availNow
          /\ (c.stage = "closure" =>
                 Seen(c.key, c.answer) > 0 /\ Seen(c.key, c.answer) + MaxLag > c.since)
      BY <1>1 DEF CheckOK
    <3> QED BY <3>1, <3>2, <1>1, <1>4, <1>5, <2>2, <2>4 DEF CheckOK
  <2> QED BY <1>2, <2>1, <2>3, <2>5, CheckOnly
<1>7. CASE SetCheck(r, [c EXCEPT !.stage = "answered", !.blind = TRUE])
  <2> PICK d : d = [stage |-> "answered", key |-> c.key, since |-> c.since, answer |-> c.answer,
                    shutAll |-> c.shutAll, blind |-> TRUE]
    OBVIOUS
  <2>1. SetCheck(r, d)
    <3>1. [c EXCEPT !.stage = "answered", !.blind = TRUE] = d BY <1>1, BlindIs, Zenon
    <3> QED BY <1>7, <3>1, Zenon
  <2>2. d \in AvailCheck BY <1>1 DEF AvailCheck
  <2>3. CheckOK(d) BY <1>1, <1>4, <1>5 DEF CheckOK
  <2> QED BY <1>2, <2>1, <2>2, <2>3, CheckOnly
<1> QED BY <1>6, <1>7 DEF CheckHit

LEMMA CountStep == ASSUME AvailInv, NEW r \in Reader, Count(r) PROVE AvailInv'
<1> PICK c : c = checks[r] OBVIOUS
<1>1. /\ c \in AvailCheck /\ CheckOK(c) /\ c.key \in AvailKey
      /\ c.since \in Nat /\ availNow \in Nat /\ c.since <= availNow /\ c.stage = "count"
  BY OldCheck DEF Count
<1>2. UNCHANGED <<dbVars, cacheVars, consumerVars, availNow>> /\ (AvailFault \/ NoAvailFault)
  BY DEF Count
<1> PICK n : n = Reserved(replica, c.key[1]) OBVIOUS
<1>3. c.key[1] \in AvailWindow /\ RoomFor[c.key[2]] \in Nat BY <1>1, KeyParts
<1>4. n \in Counts BY <1>3, CountsOK DEF AvailInv, DbTypes
<1>5. CASE SetCheck(r, [c EXCEPT !.stage = "closure",
              !.answer = [reserved |-> n, closed |-> FALSE, canReserve |-> RoomFor[c.key[2]] >= n + 1]])
  <2>8. PICK a : a = [reserved |-> n, closed |-> FALSE, canReserve |-> RoomFor[c.key[2]] >= n + 1]
    OBVIOUS
  <2>9. PICK d : d = [stage |-> "closure", key |-> c.key, since |-> c.since, answer |-> a,
                    shutAll |-> c.shutAll, blind |-> c.blind]
    OBVIOUS
  <2>1. SetCheck(r, d)
    <3>1. [c EXCEPT !.stage = "closure", !.answer = a] = d BY <1>1, <2>9, AnsweredIs, Zenon
    <3>2. SetCheck(r, [c EXCEPT !.stage = "closure", !.answer = a]) BY <1>5, <2>8, Zenon
    <3> QED BY <3>1, <3>2, Zenon
  <2>2. a \in Answer /\ a.reserved = n BY <1>4, <2>8 DEF Answer
  <2>3. d \in AvailCheck BY <1>1, <2>2, <2>9 DEF AvailCheck
  <2>4. /\ Seen(d.key, d.answer) > 0 /\ Seen(d.key, d.answer) + MaxLag > availNow
        /\ Seen(d.key, d.answer) \in Nat /\ MaxLag \in Nat
    <3>1. Seen(d.key, d.answer) = seenAt[c.key[1]][n] BY <2>2, <2>9 DEF Seen
    <3>2. seenAt[c.key[1]][n] > 0 /\ seenAt[c.key[1]][n] + MaxLag > availNow
      BY <1>1, <1>3, ReplicaRecent DEF AvailInv
    <3>3. Seen(d.key, d.answer) \in Nat BY <1>1, <2>2, <2>9, SeenIsNumber DEF AvailInv
    <3> QED BY <3>1, <3>2, <3>3, Bounds
  <2>5. CheckOK(d)
    <3>1. /\ d.stage = "closure" /\ d.key = c.key /\ d.since = c.since /\ d.answer = a
          /\ d.shutAll = c.shutAll /\ d.blind = c.blind
      BY <2>9
    <3>2. (c.shutAll => shut) /\ availNow <= c.since + MaxFlight /\ c.since <= availNow
          /\ (c.stage = "closure" =>
                 Seen(c.key, c.answer) > 0 /\ Seen(c.key, c.answer) + MaxLag > c.since)
      BY <1>1 DEF CheckOK
    <3> QED BY <3>1, <3>2, <1>1, <2>4 DEF CheckOK
  <2> QED BY <1>2, <2>1, <2>3, <2>5, CheckOnly
<1>6. CASE SetCheck(r, NoCheck(r))
  <2> PICK d : d = NoCheck(r) OBVIOUS
  <2>1. d \in AvailCheck /\ CheckOK(d) BY <1>1, NoCheckTyped, NoCheckOK
  <2> QED BY <1>2, <1>6, <2>1, CheckOnly
<1> QED BY <1>5, <1>6 DEF Count

LEMMA OverlapStep == ASSUME AvailInv, NEW r \in Reader, FindActiveOverlap(r) PROVE AvailInv'
<1> PICK c : c = checks[r] OBVIOUS
<1>1. /\ c \in AvailCheck /\ CheckOK(c) /\ c.key \in AvailKey /\ c.answer \in Answer
      /\ c.since \in Nat /\ availNow \in Nat /\ c.since <= availNow /\ c.stage = "closure"
  BY OldCheck DEF FindActiveOverlap
<1>2. UNCHANGED <<dbVars, cacheVars, consumerVars, availNow>> /\ (AvailFault \/ NoAvailFault)
  BY DEF FindActiveOverlap
<1>3. CASE SetCheck(r, [c EXCEPT !.stage = "set",
                          !.answer = IF shut THEN ClosedAnswer(c.answer) ELSE c.answer])
  <2> PICK b : b = IF shut THEN ClosedAnswer(c.answer) ELSE c.answer OBVIOUS
  <2> PICK d : d = [stage |-> "set", key |-> c.key, since |-> c.since, answer |-> b,
                    shutAll |-> c.shutAll, blind |-> c.blind]
    OBVIOUS
  <2>1. SetCheck(r, d)
    <3>1. [c EXCEPT !.stage = "set", !.answer = b] = d BY <1>1, AnsweredIs, Zenon
    <3>2. SetCheck(r, [c EXCEPT !.stage = "set", !.answer = b]) BY <1>3, Zenon
    <3> QED BY <3>1, <3>2, Zenon
  <2>2. b \in Answer /\ b.reserved = c.answer.reserved /\ (shut => ~b.canReserve)
    BY <1>1, AfterClosures
  <2>3. d \in AvailCheck BY <1>1, <2>2 DEF AvailCheck
  <2>4. Seen(d.key, d.answer) = Seen(c.key, c.answer) BY <2>2 DEF Seen
  <2>5. CheckOK(d)
    <3>1. /\ d.stage = "set" /\ d.key = c.key /\ d.since = c.since /\ d.answer = b
          /\ d.shutAll = c.shutAll /\ d.blind = c.blind
      OBVIOUS
    <3>2. (c.shutAll => shut) /\ availNow <= c.since + MaxFlight /\ c.since <= availNow
          /\ (c.stage = "closure" =>
                 Seen(c.key, c.answer) > 0 /\ Seen(c.key, c.answer) + MaxLag > c.since)
      BY <1>1 DEF CheckOK
    <3> QED BY <3>1, <3>2, <1>1, <2>2, <2>4 DEF CheckOK
  <2> QED BY <1>2, <2>1, <2>3, <2>5, CheckOnly
<1>4. CASE SetCheck(r, NoCheck(r))
  <2> PICK d : d = NoCheck(r) OBVIOUS
  <2>1. d \in AvailCheck /\ CheckOK(d) BY <1>1, NoCheckTyped, NoCheckOK
  <2> QED BY <1>2, <1>4, <2>1, CheckOnly
<1> QED BY <1>3, <1>4 DEF FindActiveOverlap

LEMMA SetStep == ASSUME AvailInv, NEW r \in Reader, RedisSet(r) PROVE AvailInv'
<1> PICK c : c = checks[r] OBVIOUS
<1>1. /\ c \in AvailCheck /\ CheckOK(c) /\ c.key \in AvailKey /\ c.answer \in Answer
      /\ c.since \in Nat /\ availNow \in Nat /\ c.since <= availNow /\ c.stage = "set"
      /\ Seen(c.key, c.answer) \in Nat
  BY OldCheck DEF RedisSet
<1>2. /\ UNCHANGED <<redisOn, stale, shutStale, dbVars, consumerVars, availNow>>
      /\ AvailFault \/ NoAvailFault
  BY DEF RedisSet
<1>3. MaxFlight \in Nat /\ MaxLag \in Nat /\ AvailTTL \in Nat \ {0} BY Bounds
<1>4. /\ Seen(c.key, c.answer) > 0 /\ Seen(c.key, c.answer) + MaxLag > c.since
      /\ c.shutAll => shut
      /\ availNow <= c.since + MaxFlight /\ (c.shutAll => ~c.answer.canReserve)
  BY <1>1 DEF CheckOK
<1> PICK d : d = [stage |-> "answered", key |-> c.key, since |-> c.since, answer |-> c.answer,
                  shutAll |-> c.shutAll, blind |-> c.blind]
  OBVIOUS
<1>5. SetCheck(r, d) BY <1>1, StageIs DEF RedisSet
<1>6. d \in AvailCheck BY <1>1 DEF AvailCheck
<1>7. /\ Seen(c.key, c.answer) > 0
      /\ Seen(c.key, c.answer) + AvailTTL + 2 * MaxFlight + MaxLag > availNow + 1
  BY <1>1, <1>3, <1>4
<1>8. CheckOK(d) BY <1>1, <1>4, <1>7 DEF CheckOK
<1>9. /\ DbTypes' /\ RowsSeen' /\ CheckTypes' /\ SeenGrows
      /\ \A q \in Reader : CheckOK(checks[q])'
  BY <1>2, <1>5, <1>6, <1>8, CheckGoesOn
<1>10. ConsumerTypes' /\ ClockTypes'
  BY <1>2, FaultTypes DEF AvailInv, ClockTypes, ConsumerTypes, consumerVars
<1>11. entries' = [entries EXCEPT ![c.key] = StoredEntry(c.answer)] \/ entries' = entries
  BY DEF RedisSet
<1> PICK e : e = StoredEntry(c.answer) OBVIOUS
<1>12. e \in Entry /\ e.until = availNow + AvailTTL /\ e.answer = c.answer
  BY <1>1, <1>3 DEF StoredEntry, Entry
<1>13. CacheTypes' BY <1>2, <1>11, <1>12 DEF AvailInv, CacheTypes
<1>14. seenAt' = seenAt BY <1>2 DEF dbVars, rowVars
<1>15. ASSUME NEW k \in AvailKey PROVE EntryOK(k)'
  <2>1. CASE entries'[k] = entries[k]
    <3>1. entries[k] \in Entry /\ EntryOK(k) /\ DbTypes BY DEF AvailInv, CacheTypes
    <3>2. entries[k].here => entries[k].until > availNow' BY <1>2, <3>1 DEF EntryOK
    <3> QED BY <1>9, <2>1, <3>1, <3>2, EntryStays
  <2>2. CASE entries'[k] # entries[k]
    <3>1. k = c.key /\ entries'[k] = e BY <1>1, <1>11, <2>2 DEF AvailInv, CacheTypes
    <3>2. /\ Seen(c.key, c.answer) + MaxFlight + MaxLag + AvailTTL > availNow + AvailTTL
          /\ availNow + AvailTTL > availNow'
      BY <1>1, <1>2, <1>3, <1>4
    <3> QED BY <1>7, <1>12, <1>14, <3>1, <3>2 DEF EntryOK, Seen
  <2> QED BY <2>1, <2>2
<1> QED BY <1>9, <1>10, <1>13, <1>15 DEF AvailInv

-----------------------------------------------------------------------------
(* The changes, the consumer and the clock. *)

\* A step that leaves checks, entries and clock alone and keeps the types.
LEMMA ElsewhereAvail ==
  ASSUME AvailInv, DbTypes', SeenGrows, RowsSeen', CacheTypes', ConsumerTypes', ClockTypes',
         UNCHANGED <<availNow, entries, checks>>, shut => shut'
  PROVE  AvailInv'
BY AllStay DEF AvailInv

LEMMA TakeStep == ASSUME AvailInv, NEW j \in Holder, Take(j) PROVE AvailInv'
<1>1. SetHolding(holding \cup {j}) /\ stale' = stale \cup {WindowOf[j]}
      /\ UNCHANGED <<redisOn, entries, shutStale, shut, over, consumerVars, checks, availNow, availFaults>>
  BY DEF Take
<1>2. holding \cup {j} \in SUBSET Holder BY DEF AvailInv, DbTypes
<1>3. DbTypes' /\ SeenGrows /\ RowsSeen' BY <1>1, <1>2, HoldingSet
<1>4. CacheTypes' BY <1>1, AvailAssumption DEF AvailInv, CacheTypes
<1>5. ConsumerTypes' /\ ClockTypes'
  BY <1>1 DEF AvailInv, ConsumerTypes, ClockTypes, consumerVars
<1> QED BY <1>1, <1>3, <1>4, <1>5, ElsewhereAvail

LEMMA CloseStep == ASSUME AvailInv, Close PROVE AvailInv'
<1>1. shut' = TRUE /\ shutStale' = TRUE
      /\ UNCHANGED <<redisOn, entries, stale, holding, replica, unreplayed, seenAt, over>>
      /\ UNCHANGED <<consumerVars, checks, availNow, availFaults>>
  BY DEF Close, rowVars
<1>2. DbTypes' /\ SeenGrows /\ RowsSeen' BY <1>1, DbStays DEF AvailInv, DbTypes
<1>3. CacheTypes' /\ ConsumerTypes' /\ ClockTypes'
  BY <1>1 DEF AvailInv, CacheTypes, ConsumerTypes, ClockTypes, consumerVars
<1> QED BY <1>1, <1>2, <1>3, ElsewhereAvail

\* A check that forgets what it knew of the closure claims less.
LEMMA Forgets ==
  ASSUME NEW c \in AvailCheck, CheckOK(c), NEW d, d = [c EXCEPT !.shutAll = FALSE]
  PROVE  d \in AvailCheck /\ CheckOK(d) /\ ~d.shutAll
<1>1. /\ d \in AvailCheck /\ d.stage = c.stage /\ d.key = c.key /\ d.since = c.since
      /\ d.answer = c.answer /\ d.shutAll = FALSE /\ d.blind = c.blind
  BY DEF AvailCheck
<1> QED BY <1>1 DEF CheckOK

\* The closure only matters to a check that relies on it.
LEMMA ShutDoesNotMatter ==
  ASSUME NEW c, ~c.shutAll, CheckOK(c), UNCHANGED <<seenAt, availNow>> PROVE CheckOK(c)'
BY DEF CheckOK, Seen

LEMMA ReopenStep == ASSUME AvailInv, Reopen PROVE AvailInv'
<1>1. shut' = FALSE /\ checks' = [r \in Reader |-> [checks[r] EXCEPT !.shutAll = FALSE]]
      /\ UNCHANGED <<cacheVars, holding, replica, unreplayed, seenAt, over>>
      /\ UNCHANGED <<consumerVars, availNow, availFaults>>
  BY DEF Reopen, rowVars
<1>2. DbTypes' /\ SeenGrows /\ RowsSeen' BY <1>1, DbStays DEF AvailInv, DbTypes
<1>3. CacheTypes' /\ ConsumerTypes' /\ ClockTypes' /\ UNCHANGED entries
  BY <1>1 DEF AvailInv, CacheTypes, ConsumerTypes, ClockTypes, consumerVars, cacheVars
<1>4. ASSUME NEW r \in Reader PROVE checks'[r] \in AvailCheck /\ CheckOK(checks[r])'
  <2> PICK c : c = checks[r] OBVIOUS
  <2> PICK d : d = [c EXCEPT !.shutAll = FALSE] OBVIOUS
  <2>1. c \in AvailCheck /\ CheckOK(c) BY DEF AvailInv, CheckTypes
  <2>2. d \in AvailCheck /\ CheckOK(d) /\ ~d.shutAll BY <2>1, Forgets
  <2>3. CheckOK(d)' BY <1>1, <2>2, ShutDoesNotMatter
  <2>4. checks'[r] = d BY <1>1
  <2> QED BY <2>2, <2>3, <2>4
<1>5. CheckTypes' BY <1>1, <1>4 DEF CheckTypes
<1>6. \A k \in AvailKey : EntryOK(k)' BY <1>1, <1>2, <1>3, EntriesStay
<1> QED BY <1>2, <1>3, <1>4, <1>5, <1>6 DEF AvailInv

\* A deleted entry says nothing.
LEMMA InvalidateStep ==
  ASSUME AvailInv, NEW K, Invalidate(K), UNCHANGED <<redisOn, dbVars, consumerVars, checks, availNow>>,
         stale' \in SUBSET AvailWindow, shutStale' \in BOOLEAN
  PROVE  AvailInv'
<1>1. /\ shut' = shut /\ holding' = holding /\ seenAt' = seenAt /\ over' = over
      /\ replica' = replica /\ unreplayed' = unreplayed /\ DbTypes
      /\ entries \in [AvailKey -> Entry]
  BY DEF dbVars, rowVars, AvailInv, CacheTypes
<1>2. shut' \in BOOLEAN /\ over' \in SUBSET AvailWindow BY <1>1 DEF DbTypes
<1>3. DbTypes' /\ SeenGrows /\ RowsSeen' BY <1>1, <1>2, DbStays
<1>4. entries' = Deleted(K) \/ entries' = entries BY DEF Invalidate
<1>5. \A k \in AvailKey : entries'[k] = entries[k] \/ entries'[k] = NoEntryYet
  BY <1>4 DEF Deleted
<1>6. entries' \in [AvailKey -> Entry] BY <1>1, <1>4, NoAnswerTyped DEF Deleted
<1>7. CacheTypes' BY <1>6 DEF AvailInv, CacheTypes
<1>8. ConsumerTypes' /\ CheckTypes' BY DEF AvailInv, ConsumerTypes, CheckTypes, consumerVars
<1>9. ClockTypes'
  <2>1. AvailFault \/ NoAvailFault BY DEF Invalidate
  <2> QED BY <2>1, FaultTypes DEF AvailInv, ClockTypes
<1>10. ASSUME NEW k \in AvailKey PROVE EntryOK(k)'
  <2>1. CASE entries'[k] = entries[k]
    <3>1. entries[k] \in Entry /\ EntryOK(k) BY <1>1 DEF AvailInv
    <3>2. entries[k].here => entries[k].until > availNow' BY <3>1 DEF EntryOK
    <3> QED BY <1>1, <1>3, <2>1, <3>1, <3>2, EntryStays
  <2>2. CASE entries'[k] = NoEntryYet BY <2>2 DEF EntryOK, NoEntryYet
  <2> QED BY <2>1, <2>2, <1>5
<1>11. \A r \in Reader : CheckOK(checks[r])'
  <2> TAKE r \in Reader
  <2> PICK c \in AvailCheck : c = checks[r] BY DEF AvailInv, CheckTypes
  <2>1. CheckOK(c) /\ availNow \in Nat BY Bounds DEF AvailInv, ClockTypes
  <2>2. CheckOK(c)' BY <1>1, <1>3, <2>1, CheckStays
  <2> QED BY <2>2
<1> QED BY <1>3, <1>7, <1>8, <1>9, <1>10, <1>11 DEF AvailInv

LEMMA WindowStep ==
  ASSUME AvailInv, NEW w \in AvailWindow, InvalidateAvailabilityCache(w) PROVE AvailInv'
<1>1. Invalidate(KeysOf({w})) /\ stale' = stale \ {w}
      /\ UNCHANGED <<redisOn, shutStale, dbVars, consumerVars, checks, availNow>>
  BY DEF InvalidateAvailabilityCache
<1>2. stale' \in SUBSET AvailWindow /\ shutStale' \in BOOLEAN BY <1>1 DEF AvailInv, CacheTypes
<1> QED BY <1>1, <1>2, InvalidateStep

LEMMA SegmentStep == ASSUME AvailInv, InvalidateBySegment PROVE AvailInv'
<1>1. Invalidate(AvailKey) /\ shutStale' = FALSE
      /\ UNCHANGED <<redisOn, stale, dbVars, consumerVars, checks, availNow>>
  BY DEF InvalidateBySegment
<1>2. stale' \in SUBSET AvailWindow /\ shutStale' \in BOOLEAN BY <1>1 DEF AvailInv, CacheTypes
<1> QED BY <1>1, <1>2, InvalidateStep

\* A step of the consumer that leaves the database and the cache alone.
LEMMA ConsumerOnly ==
  ASSUME AvailInv, UNCHANGED <<dbVars, redisOn, entries, shutStale, stale, checks, availNow>>,
         ConsumerTypes', availFaults' \in 0 .. MaxAvailFaults
  PROVE  AvailInv'
<1>1. /\ shut' \in BOOLEAN /\ shut' = shut /\ over' \in SUBSET AvailWindow
      /\ UNCHANGED <<holding, replica, unreplayed, seenAt, availNow>>
  BY DEF dbVars, rowVars, AvailInv, DbTypes
<1>2. DbTypes' /\ SeenGrows /\ RowsSeen' BY <1>1, DbStays
<1>3. CacheTypes' /\ ClockTypes' BY DEF AvailInv, CacheTypes, ClockTypes
<1> QED BY <1>1, <1>2, <1>3, ElsewhereAvail

LEMMA PublishStep ==
  ASSUME AvailInv, NEW j \in Holder, NEW t \in EventType, Publish(j, t) PROVE AvailInv'
<1>1. ConsumerTypes' BY DEF Publish, AvailInv, ConsumerTypes
<1>2. availFaults' \in 0 .. MaxAvailFaults BY DEF Publish, AvailInv, ClockTypes
<1> QED BY <1>1, <1>2, ConsumerOnly DEF Publish, cacheVars

LEMMA PollStep == ASSUME AvailInv, NEW j \in Holder, Poll(j) PROVE AvailInv'
<1>1. ConsumerTypes'
  <2>1. 1 \in 0 .. MaxTries BY Bounds
  <2> QED BY <2>1 DEF Poll, AvailInv, ConsumerTypes
<1>2. availFaults' \in 0 .. MaxAvailFaults BY DEF Poll, AvailInv, ClockTypes
<1> QED BY <1>1, <1>2, ConsumerOnly DEF Poll, cacheVars

LEMMA GroupStep == ASSUME AvailInv, EnsureConsumerGroup PROVE AvailInv'
<1>1. 0 \in 0 .. MaxTries BY Bounds
<1>2. ConsumerTypes'
  BY <1>1 DEF EnsureConsumerGroup, AvailInv, ConsumerTypes, Resting, Disabled
<1>3. availFaults' \in 0 .. MaxAvailFaults BY DEF EnsureConsumerGroup, AvailInv, ClockTypes
<1> QED BY <1>2, <1>3, ConsumerOnly DEF EnsureConsumerGroup, cacheVars

LEMMA ProcessedStep == ASSUME AvailInv, Processed PROVE AvailInv'
<1>1. 0 \in 0 .. MaxTries BY Bounds
<1>2. ConsumerTypes' BY <1>1 DEF Processed, AvailInv, ConsumerTypes, Resting
<1>3. availFaults' \in 0 .. MaxAvailFaults BY DEF Processed, AvailInv, ClockTypes
<1> QED BY <1>2, <1>3, ConsumerOnly DEF Processed, cacheVars

\* A step that changes the rows and leaves the caches to be invalidated.
LEMMA RowsStep ==
  ASSUME AvailInv, NEW H \in SUBSET Holder, SetHolding(H), shut' = shut, over' = over,
         redisOn' = redisOn, entries' = entries, shutStale' = shutStale,
         stale' \in SUBSET AvailWindow, checks' = checks, availNow' = availNow,
         availFaults' = availFaults, ConsumerTypes'
  PROVE  AvailInv'
<1>1. DbTypes' /\ SeenGrows /\ RowsSeen' BY HoldingSet
<1>2. CacheTypes' /\ ClockTypes' BY DEF AvailInv, CacheTypes, ClockTypes
<1> QED BY <1>1, <1>2, ElsewhereAvail

LEMMA ProcessStep == ASSUME AvailInv, ProcessMessage PROVE AvailInv'
<1>1. UNCHANGED <<shut, over, redisOn, entries, shutStale, events, checks, availNow, availFaults>>
  BY DEF ProcessMessage
<1>2. availFaults' \in 0 .. MaxAvailFaults BY <1>1 DEF AvailInv, ClockTypes
<1>3. ConsumerTypes'
  <2>0. worker.try \in 0 .. MaxTries /\ MaxTries \in Nat /\ 0 \in 0 .. MaxTries
    BY Bounds DEF AvailInv, ConsumerTypes
  <2>1. worker.try < MaxTries => worker.try + 1 \in 0 .. MaxTries BY <2>0
  <2>2. \/ worker' \in {[worker EXCEPT !.stage = "invalidate"], Resting}
        \/ worker.try < MaxTries /\ worker' = [worker EXCEPT !.try = @ + 1]
    BY DEF ProcessMessage
  <2> QED BY <1>1, <2>0, <2>1, <2>2 DEF AvailInv, ConsumerTypes, Resting
<1>4. CASE UNCHANGED <<rowVars, stale>>
  <2>1. UNCHANGED <<dbVars, redisOn, entries, shutStale, stale, checks, availNow>>
    BY <1>1, <1>4 DEF dbVars
  <2> QED BY <1>2, <1>3, <2>1, ConsumerOnly
<1>5. CASE /\ worker.at \in holding /\ SetHolding(holding \ {worker.at})
           /\ stale' = stale \cup {WindowOf[worker.at]}
  <2>1. holding \ {worker.at} \in SUBSET Holder /\ worker.at \in Holder
    BY <1>5 DEF AvailInv, DbTypes
  <2>2. stale' \in SUBSET AvailWindow BY <1>5, <2>1, AvailAssumption DEF AvailInv, CacheTypes
  <2> QED BY <1>1, <1>3, <1>5, <2>1, <2>2, RowsStep
<1> QED BY <1>4, <1>5 DEF ProcessMessage

LEMMA OrphansStep == ASSUME AvailInv, ReleaseOrphans PROVE AvailInv'
<1>1. /\ SetHolding(holding \ Orphans) /\ stale' = stale \cup {WindowOf[j] : j \in Orphans}
      /\ UNCHANGED <<redisOn, entries, shutStale, shut, over, consumerVars, checks, availNow, availFaults>>
  BY DEF ReleaseOrphans
<1>2. holding \ Orphans \in SUBSET Holder /\ Orphans \subseteq Holder
  BY DEF AvailInv, DbTypes, Orphans
<1>3. stale' \in SUBSET AvailWindow BY <1>1, <1>2, AvailAssumption DEF AvailInv, CacheTypes
<1>4. ConsumerTypes' BY <1>1 DEF AvailInv, ConsumerTypes, consumerVars
<1> QED BY <1>1, <1>2, <1>3, <1>4, RowsStep

LEMMA WindowEndsStep == ASSUME AvailInv, NEW w \in AvailWindow, WindowEnds(w) PROVE AvailInv'
<1>1. /\ over' = over \cup {w} /\ shut' = shut
      /\ UNCHANGED <<holding, replica, unreplayed, seenAt, availNow>>
      /\ UNCHANGED <<cacheVars, consumerVars, checks, availFaults>>
  BY DEF WindowEnds, rowVars
<1>2. DbTypes' /\ SeenGrows /\ RowsSeen' BY <1>1, DbStays DEF AvailInv, DbTypes
<1>3. CacheTypes' /\ ConsumerTypes' /\ ClockTypes' /\ UNCHANGED entries
  BY <1>1 DEF AvailInv, CacheTypes, ConsumerTypes, ClockTypes, consumerVars, cacheVars
<1> QED BY <1>1, <1>2, <1>3, ElsewhereAvail

LEMMA ReplicateStep == ASSUME AvailInv, Replicate PROVE AvailInv'
<1> PICK q : q = unreplayed OBVIOUS
<1> PICK n : n = Len(q) OBVIOUS
<1>1. /\ q # <<>> /\ replica' = q[1].held /\ unreplayed' = Tail(q)
      /\ holding' = holding /\ seenAt' = seenAt /\ shut' = shut /\ over' = over
      /\ availNow' = availNow /\ checks' = checks /\ availFaults' = availFaults
      /\ UNCHANGED cacheVars /\ UNCHANGED consumerVars
  BY HeadTailProperties DEF Replicate, AvailInv, DbTypes
<1>2. q \in Seq(Commit) /\ DbTypes /\ ReplicaOK BY DEF AvailInv, DbTypes, RowsSeen
<1>3. /\ n \in Nat /\ n # 0 /\ Tail(q) \in Seq(Commit) /\ Len(unreplayed') = n - 1
      /\ \A i \in 1 .. n - 1 : unreplayed'[i] = q[i + 1]
  BY <1>1, <1>2, LenProperties, EmptySeq, HeadTailProperties
<1>4. replica' \in SUBSET Holder
  <2>1. 1 \in 1 .. Len(unreplayed) BY <1>3
  <2> QED BY <1>1, <1>2, <2>1, CommitTyped
<1>5. DbTypes' BY <1>1, <1>2, <1>3, <1>4 DEF DbTypes
<1>6. SeenGrows BY <1>1, <1>2, SeenSame
<1>7. NowSeen' BY <1>1 DEF AvailInv, RowsSeen, NowSeen, Reserved
<1>8. \A i \in 0 .. n - 1 : Showing(i)' = Showing(i + 1)
  <2> TAKE i \in 0 .. n - 1
  <2>1. i + 1 # 0 /\ i \in Nat BY <1>3
  <2>2. CASE i = 0 BY <1>1, <2>1, <2>2 DEF Showing
  <2>3. CASE i # 0
    <3>1. i \in 1 .. n - 1 BY <1>3, <2>1, <2>3
    <3> QED BY <1>3, <2>1, <2>3, <3>1 DEF Showing
  <2> QED BY <2>2, <2>3
<1>9. Showing(Len(unreplayed))' = holding'
  <2>1. n - 1 \in 0 .. n - 1 /\ (n - 1) + 1 = n BY <1>3
  <2>2. Showing(n - 1)' = Showing(n) BY <1>8, <2>1
  <2>3. Showing(n) = holding BY <1>2 DEF ReplicaOK
  <2>4. Len(unreplayed)' = n - 1 BY <1>3
  <2> QED BY <1>1, <2>2, <2>3, <2>4 DEF Showing
<1>10. ASSUME NEW i \in 1 .. n - 1
       PROVE  /\ unreplayed'[i].at <= availNow' /\ availNow' <= unreplayed'[i].at + MaxLag
              /\ \A w \in AvailWindow : seenAt'[w][Reserved(Showing(i - 1)', w)] > unreplayed'[i].at
  <2>1. i + 1 \in 1 .. Len(unreplayed) /\ i - 1 \in 0 .. n - 1 /\ (i - 1) + 1 = (i + 1) - 1
    BY <1>3
  <2>2. unreplayed'[i] = unreplayed[i + 1] BY <1>3
  <2>3. Showing(i - 1)' = Showing((i + 1) - 1) BY <1>8, <2>1
  <2>4. /\ unreplayed[i + 1].at <= availNow /\ availNow <= unreplayed[i + 1].at + MaxLag
        /\ \A w \in AvailWindow : seenAt[w][Reserved(Showing((i + 1) - 1), w)] > unreplayed[i + 1].at
    BY <1>2, <2>1 DEF ReplicaOK
  <2> QED BY <1>1, <2>2, <2>3, <2>4
<1>11. ReplicaOK' BY <1>3, <1>9, <1>10 DEF ReplicaOK, Reserved
<1>12. CacheTypes' /\ ConsumerTypes' /\ ClockTypes' /\ UNCHANGED entries
  BY <1>1 DEF AvailInv, CacheTypes, ConsumerTypes, ClockTypes, consumerVars, cacheVars
<1> QED BY <1>1, <1>5, <1>6, <1>7, <1>11, <1>12, ElsewhereAvail DEF RowsSeen

\* Some checks are dropped, the others stay.
LEMMA ChecksDropped ==
  ASSUME AvailInv, DbTypes', SeenGrows, NEW D \in SUBSET Reader,
         checks' = [r \in Reader |-> IF r \in D THEN NoCheck(r) ELSE checks[r]],
         availNow' \in Nat,
         \A r \in Reader \ D : CheckOK(checks[r]) => CheckOK(checks[r])'
  PROVE  CheckTypes' /\ \A r \in Reader : CheckOK(checks[r])'
<1>1. CheckTypes' BY NoCheckTyped DEF AvailInv, CheckTypes
<1>2. ASSUME NEW r \in D PROVE CheckOK(checks[r])'
  <2>1. checks'[r] = NoCheck(r) OBVIOUS
  <2> QED BY <2>1 DEF CheckOK, NoCheck
<1> QED BY <1>1, <1>2 DEF AvailInv

LEMMA DiesStep == ASSUME AvailInv, ServiceDies PROVE AvailInv'
<1>1. /\ worker' = Starting /\ stale' = {} /\ shutStale' = FALSE /\ redisOn' \in BOOLEAN
      /\ checks' = [r \in Reader |-> IF Busy(r) THEN NoCheck(r) ELSE checks[r]]
      /\ UNCHANGED <<entries, events, dbVars, availNow>> /\ AvailFault
  BY DEF ServiceDies
<1>2. /\ shut' \in BOOLEAN /\ shut' = shut /\ over' \in SUBSET AvailWindow
      /\ UNCHANGED <<holding, replica, unreplayed, seenAt, availNow>>
  BY <1>1 DEF dbVars, rowVars, AvailInv, DbTypes
<1>3. DbTypes' /\ SeenGrows /\ RowsSeen' BY <1>2, DbStays
<1>4. ConsumerTypes'
  <2>1. 0 \in 0 .. MaxTries BY Bounds
  <2> QED BY <1>1, <2>1 DEF AvailInv, ConsumerTypes, Starting
<1>5. CacheTypes' BY <1>1 DEF AvailInv, CacheTypes
<1>6. ClockTypes' BY <1>1, FaultTypes DEF AvailInv, ClockTypes
<1>7. \A k \in AvailKey : EntryOK(k)' BY <1>1, <1>3, EntriesStay
<1> DEFINE D == {r \in Reader : Busy(r)}
<1>8. availNow \in Nat /\ availNow' = availNow BY <1>1, Bounds DEF AvailInv, ClockTypes
<1>9. ASSUME NEW r \in Reader \ D, CheckOK(checks[r]) PROVE CheckOK(checks[r])'
  <2> PICK c \in AvailCheck : c = checks[r] BY DEF AvailInv, CheckTypes
  <2>1. CheckOK(c)' BY <1>2, <1>3, <1>8, <1>9, CheckStays DEF AvailInv
  <2>2. checks'[r] = c BY <1>1
  <2> QED BY <2>1, <2>2
<1>10. checks' = [r \in Reader |-> IF r \in D THEN NoCheck(r) ELSE checks[r]] BY <1>1
<1>11. D \in SUBSET Reader OBVIOUS
<1> HIDE DEF D
<1>12. CheckTypes' /\ \A r \in Reader : CheckOK(checks[r])'
  BY <1>3, <1>8, <1>9, <1>10, <1>11, ChecksDropped
<1> QED BY <1>3, <1>4, <1>5, <1>6, <1>7, <1>12 DEF AvailInv

\* The clock moves no check beyond its time.
LEMMA CheckTicks ==
  ASSUME DbTypes, DbTypes', SeenGrows, availNow \in Nat, availNow' = availNow + 1, shut' = shut,
         NEW c \in AvailCheck, CheckOK(c), c.stage # "answered",
         c.stage # "idle" => availNow < c.since + MaxFlight
  PROVE  CheckOK(c)'
<1>1. c.key \in AvailKey /\ c.answer \in Answer /\ c.since \in Nat
  <2>1. \A n \in 0 .. MaxAvailTime : n \in Nat BY Bounds
  <2> QED BY <2>1 DEF AvailCheck
<1> DEFINE s == Seen(c.key, c.answer)
<1>2. s \in Nat /\ s' \in Nat /\ s' >= s BY <1>1, SeenAgain
<1>3. AvailTTL \in Nat /\ MaxFlight \in Nat /\ MaxLag \in Nat BY Bounds
<1>4. /\ c.since <= availNow /\ (c.shutAll => shut)
      /\ c.stage \in {"closure", "set"} => s > 0 /\ s + MaxLag > c.since
      /\ c.stage = "set" /\ c.shutAll => ~c.answer.canReserve
      /\ c.stage = "hit" => s > 0 /\ s + AvailTTL + MaxFlight + MaxLag > c.since + 1
  BY DEF CheckOK
<1> HIDE DEF s
<1>5. s + MaxLag > c.since => s' + MaxLag > c.since BY <1>1, <1>2, <1>3
<1>6. s > 0 => s' > 0 BY <1>2
<1>7. s + AvailTTL + MaxFlight + MaxLag > c.since + 1
      => s' + AvailTTL + MaxFlight + MaxLag > c.since + 1
  BY <1>1, <1>2, <1>3
<1>8. c.since <= availNow' BY <1>1, <1>4
<1>9. c.stage # "idle" => availNow' <= c.since + MaxFlight BY <1>1, <1>3
<1>10. /\ c.since <= availNow'
       /\ c.stage \notin {"idle", "answered"} => availNow' <= c.since + MaxFlight
       /\ c.shutAll => shut'
       /\ c.stage \in {"closure", "set"} => s' > 0 /\ s' + MaxLag > c.since
       /\ c.stage = "set" /\ c.shutAll => ~c.answer.canReserve
       /\ c.stage = "hit" => s' > 0 /\ s' + AvailTTL + MaxFlight + MaxLag > c.since + 1
  BY <1>4, <1>5, <1>6, <1>7, <1>8, <1>9, Zenon
<1> USE DEF s
<1> QED BY <1>10 DEF CheckOK

LEMMA TickStep == ASSUME AvailInv, AvailTick PROVE AvailInv'
<1>1. /\ availNow < MaxAvailTime /\ availNow' = availNow + 1
      /\ \A r \in Reader : Busy(r) => availNow < checks[r].since + MaxFlight
      /\ seenAt' = [w \in AvailWindow |-> [seenAt[w] EXCEPT ![Reserved(holding, w)] = availNow + 2]]
      /\ checks' = [r \in Reader |-> IF checks[r].stage = "answered" THEN NoCheck(r) ELSE checks[r]]
      /\ \A i \in DOMAIN unreplayed : availNow < unreplayed[i].at + MaxLag
      /\ entries' = [k \in AvailKey |-> IF entries[k].until > availNow + 1 THEN entries[k] ELSE NoEntryYet]
      /\ UNCHANGED <<holding, replica, unreplayed, shut, over>>
      /\ UNCHANGED <<redisOn, stale, shutStale, consumerVars, availFaults>>
  BY DEF AvailTick
<1>2. /\ MaxAvailTime \in Nat /\ availNow \in 0 .. MaxAvailTime /\ availNow \in Nat
      /\ DbTypes /\ NowSeen /\ ReplicaOK /\ CheckTypes /\ MaxLag \in Nat
      /\ entries \in [AvailKey -> Entry]
  BY Bounds DEF AvailInv, ClockTypes, RowsSeen, CacheTypes
<1>3. availNow + 2 \in 0 .. MaxAvailTime + 1 /\ availNow' \in 0 .. MaxAvailTime /\ availNow' \in Nat
  BY <1>1, <1>2
<1>4. \A w \in AvailWindow : Reserved(holding, w) \in Counts BY CountsOK, <1>2 DEF DbTypes
<1>5. \A w \in AvailWindow :
        /\ seenAt[w] \in [Counts -> 0 .. MaxAvailTime + 1]
        /\ seenAt'[w] = [seenAt[w] EXCEPT ![Reserved(holding, w)] = availNow + 2]
  BY <1>1, <1>2 DEF DbTypes
<1>6. \A w \in AvailWindow :
        /\ seenAt'[w] \in [Counts -> 0 .. MaxAvailTime + 1]
        /\ seenAt'[w][Reserved(holding, w)] = availNow + 2
        /\ \A n \in Counts : n # Reserved(holding, w) => seenAt'[w][n] = seenAt[w][n]
  <2> TAKE w \in AvailWindow
  <2>1. PICK h \in [Counts -> 0 .. MaxAvailTime + 1] : h = seenAt[w] BY <1>5
  <2>2. PICK m \in Counts : m = Reserved(holding, w) BY <1>4
  <2>3. seenAt'[w] = [h EXCEPT ![m] = availNow + 2] BY <1>5, <2>1, <2>2
  <2> QED BY <1>3, <2>1, <2>2, <2>3
<1>7. \A w \in AvailWindow, n \in Counts : seenAt[w][n] \in Nat /\ seenAt[w][n] <= availNow + 1
  <2> TAKE w \in AvailWindow, n \in Counts
  <2>1. MaxAvailTime + 1 \in Nat BY Bounds
  <2>2. seenAt[w][n] \in 0 .. MaxAvailTime + 1 BY <1>2 DEF DbTypes
  <2> QED BY <2>1, <2>2, <1>2 DEF NowSeen
<1>8. DbTypes'
  <2>1. seenAt' \in [AvailWindow -> [Counts -> 0 .. MaxAvailTime + 1]] BY <1>1, <1>6
  <2> QED BY <2>1, <1>1, <1>2 DEF DbTypes
<1>9. \A w \in AvailWindow, n \in Counts :
        seenAt'[w][n] >= seenAt[w][n] /\ seenAt'[w][n] <= availNow' + 1
  <2> TAKE w \in AvailWindow, n \in Counts
  <2>1. CASE n = Reserved(holding, w) BY <2>1, <1>1, <1>2, <1>6, <1>7
  <2>2. CASE n # Reserved(holding, w) BY <2>2, <1>1, <1>2, <1>6, <1>7
  <2> QED BY <2>1, <2>2
<1>10. SeenGrows BY <1>9 DEF SeenGrows
<1>11. NowSeen'
  <2> SUFFICES ASSUME NEW w \in AvailWindow
               PROVE  /\ seenAt'[w][Reserved(holding', w)] = availNow' + 1
                      /\ \A n \in Counts : seenAt'[w][n] <= availNow' + 1
    BY DEF NowSeen, Reserved
  <2>1. holding' = holding /\ availNow' + 1 = availNow + 2 BY <1>1, <1>2
  <2> QED BY <1>6, <1>9, <2>1
<1>11a. ReplicaOK'
  <2>1. \A i \in 1 .. Len(unreplayed) : availNow' <= unreplayed[i].at + MaxLag
    <3> TAKE i \in 1 .. Len(unreplayed)
    <3>1. DOMAIN unreplayed = 1 .. Len(unreplayed) BY <1>2, LenProperties DEF DbTypes
    <3>2. unreplayed[i].at \in Nat BY <1>2, CommitTyped
    <3> PICK t \in Nat : t = unreplayed[i].at BY <3>2
    <3>3. availNow < t + MaxLag BY <1>1, <3>1
    <3> QED BY <1>1, <1>2, <3>3
  <2>2. availNow' >= availNow BY <1>1, <1>2
  <2> QED BY <1>1, <1>2, <1>3, <1>8, <1>10, <2>1, <2>2, ReplicaStays
<1>12. CacheTypes' /\ ConsumerTypes' /\ ClockTypes'
  <2>1. entries' \in [AvailKey -> Entry] BY <1>1, <1>2, NoAnswerTyped
  <2> QED BY <1>1, <1>3, <2>1 DEF AvailInv, CacheTypes, ConsumerTypes, ClockTypes, consumerVars
<1>13. ASSUME NEW k \in AvailKey PROVE EntryOK(k)'
  <2>1. CASE entries[k].until > availNow + 1
    <3>1. entries'[k] = entries[k] /\ entries[k] \in Entry /\ EntryOK(k)
      BY <1>1, <1>2, <2>1 DEF AvailInv
    <3>2. entries[k].until > availNow' BY <1>1, <2>1
    <3> QED BY <1>2, <1>8, <1>10, <3>1, <3>2, EntryStays
  <2>2. CASE ~(entries[k].until > availNow + 1)
    <3>1. entries'[k] = NoEntryYet BY <1>1, <2>2
    <3> QED BY <3>1 DEF EntryOK, NoEntryYet
  <2> QED BY <2>1, <2>2
<1> DEFINE D == {r \in Reader : checks[r].stage = "answered"}
<1>14. ASSUME NEW r \in Reader \ D, CheckOK(checks[r]) PROVE CheckOK(checks[r])'
  <2> PICK c \in AvailCheck : c = checks[r] BY <1>2 DEF CheckTypes
  <2>1. c.stage # "answered" /\ (c.stage # "idle" => availNow < c.since + MaxFlight)
    BY <1>1 DEF Busy
  <2>2. CheckOK(c)' BY <1>1, <1>2, <1>8, <1>10, <1>14, <2>1, CheckTicks
  <2>3. checks'[r] = c BY <1>1
  <2> QED BY <2>2, <2>3
<1>15. checks' = [r \in Reader |-> IF r \in D THEN NoCheck(r) ELSE checks[r]] BY <1>1
<1>16. D \in SUBSET Reader OBVIOUS
<1> HIDE DEF D
<1>17. CheckTypes' /\ \A r \in Reader : CheckOK(checks[r])'
  BY <1>3, <1>8, <1>10, <1>14, <1>15, <1>16, ChecksDropped
<1> QED BY <1>8, <1>11, <1>11a, <1>12, <1>13, <1>17 DEF AvailInv, RowsSeen

LEMMA AvailStep == AvailInv /\ [AvailNext]_availVars => AvailInv'
<1> SUFFICES ASSUME AvailInv, [AvailNext]_availVars PROVE AvailInv' OBVIOUS
<1>1. ASSUME NEW j \in Holder, Take(j) \/ Poll(j) \/ \E t \in EventType : Publish(j, t)
      PROVE AvailInv'
  BY <1>1, TakeStep, PollStep, PublishStep
<1>2. CASE Close \/ Reopen \/ Invalidating \/ Replicate
  BY <1>2, CloseStep, ReopenStep, WindowStep, SegmentStep, ReplicateStep DEF Invalidating
<1>2a. CASE (\E w \in AvailWindow : WindowEnds(w)) \/ ReleaseOrphans
  BY <1>2a, WindowEndsStep, OrphansStep
<1>3. ASSUME NEW r \in Reader, CheckStep(r) \/ \E k \in AvailKey : Check(r, k) PROVE AvailInv'
  BY <1>3, BeginCheck, GetStep, HitStep, CountStep, OverlapStep, SetStep DEF CheckStep
<1>4. CASE EnsureConsumerGroup \/ ProcessMessage \/ Processed \/ ServiceDies \/ AvailTick
  BY <1>4, GroupStep, ProcessStep, ProcessedStep, DiesStep, TickStep
<1>5. CASE UNCHANGED availVars
  <2>1. UNCHANGED <<dbVars, redisOn, entries, shutStale, stale, checks, availNow>>
    BY <1>5 DEF availVars, cacheVars
  <2>2. ConsumerTypes' /\ availFaults' \in 0 .. MaxAvailFaults
    BY <1>5 DEF availVars, consumerVars, AvailInv, ConsumerTypes, ClockTypes
  <2> QED BY <2>1, <2>2, ConsumerOnly
<1> QED BY <1>1, <1>2, <1>2a, <1>3, <1>4, <1>5 DEF AvailNext, Consume

\* What a check answers was so not long ago, and a segment closed for as long
\* as the check ran is not called reservable, for any number of calls,
\* journeys, overlapping windows and entries that outlive an invalidation.
THEOREM AnswersStayFresh == AvailSpec => [](AvailTypeOK /\ AnswersAreFresh)
BY AvailInitOK, AvailStep, AvailInvImplies, PTL DEF AvailSpec

-----------------------------------------------------------------------------
(* Push notifications. *)

\* The rows that were ever made for the driver of a notification.
RowsFor(n) == {i \in DOMAIN deviceRows : deviceRows[i].driver = DriverOf[n]}

DeviceRow == [driver : PushDriver, device : Device, active : BOOLEAN]
Stages == {"new", "stored", "send", "deactivate", "finish", "ended", "dead"}
Delivery == [stage : Stages, todo : SUBSET DOMAIN deviceRows, row : {0} \cup DOMAIN deviceRows,
             attempt : 1 .. MaxAttempts, sent : BOOLEAN]
InboxRow == [status : Final \cup {"none", "PENDING", "RETRYING"}, read : BOOLEAN]

RowTypes ==
  /\ deviceRows \in Seq(DeviceRow)
  /\ registering \in [PushDriver -> Device \cup {NoDevice}]
NoteTypes ==
  /\ inbox \in [Note -> InboxRow] /\ deliveries \in [Note -> Delivery]
  /\ received \in [Note -> SUBSET Device]
ClientTypes == fcmClient \in BOOLEAN /\ oauth \in BOOLEAN /\ pushFaults \in 0 .. MaxPushFaults

\* No two active rows hold one device.
OneHolder == \A i, j \in DOMAIN deviceRows :
  /\ deviceRows[i].active /\ deviceRows[j].active
  /\ deviceRows[i].device = deviceRows[j].device
  => i = j

\* A delivery only works on rows of its driver, what it remembers as sent was
\* received, and while nothing failed it forgets none that was.
DeliveryOK(n) ==
  LET d == deliveries[n]
      status == inbox[n].status IN
  /\ d.todo \subseteq RowsFor(n)
  /\ d.stage \in {"send", "deactivate"} => d.row \in RowsFor(n)
  /\ d.stage \in {"new", "stored"} => received[n] = {}
  /\ d.sent \/ status = "SENT" => received[n] # {}
  /\ \A v \in received[n] : \E i \in RowsFor(n) : deviceRows[i].device = v
  /\ pushFaults = 0 =>
       /\ d.stage # "dead"
       /\ d.stage \in {"send", "deactivate", "finish"} /\ received[n] # {} => d.sent
       /\ d.stage = "ended" => status \in Final /\ (status = "SENT" <=> received[n] # {})

PushInv == ClientTypes /\ RowTypes /\ NoteTypes /\ OneHolder /\ \A n \in Note : DeliveryOK(n)

-----------------------------------------------------------------------------
LEMMA PushInitOK == PushInit => PushInv
<1> SUFFICES ASSUME PushInit PROVE PushInv OBVIOUS
<1> USE PushAssumption DEF PushInit
<1>1. deviceRows \in Seq(DeviceRow) /\ DOMAIN deviceRows = {} BY EmptySeq
<1>2. ClientTypes
  <2>1. MaxPushFaults \in Nat OBVIOUS
  <2>2. 0 \in 0 .. MaxPushFaults BY <2>1
  <2> QED BY <2>2 DEF ClientTypes
<1>3. RowTypes BY <1>1 DEF RowTypes
<1>4. NoteTypes BY DEF NoteTypes, Idle, Delivery, Stages, InboxRow
<1>5. OneHolder BY <1>1 DEF OneHolder
<1>6. \A n \in Note : DeliveryOK(n) BY DEF DeliveryOK, Idle
<1> QED BY <1>2, <1>3, <1>4, <1>5, <1>6 DEF PushInv

\* One active row at most, counted.
LEMMA HeldOnce ==
  ASSUME RowTypes, OneHolder, NEW v PROVE Cardinality(ActiveWith(v)) <= 1
<1>1. CASE ActiveWith(v) = {} BY <1>1, FS_EmptySet
<1>2. CASE ActiveWith(v) # {}
  <2>1. PICK i \in ActiveWith(v) : TRUE BY <1>2
  <2>2. ActiveWith(v) = {i} BY <2>1 DEF ActiveWith, OneHolder
  <2>3. Cardinality(ActiveWith(v)) = 1 BY <2>2, FS_Singleton, Zenon
  <2> QED BY <2>3
<1> QED BY <1>1, <1>2

\* What the invariant says of the two properties that are checked.
LEMMA PushInvImplies == PushInv => PushTypeOK /\ DeliveryStatusIsTrue
<1> SUFFICES ASSUME PushInv PROVE PushTypeOK /\ DeliveryStatusIsTrue OBVIOUS
<1>1. PushTypeOK
  BY HeldOnce DEF PushInv, PushTypeOK, ClientTypes, RowTypes, NoteTypes, Delivery, Stages,
                  InboxRow, DeviceRow
<1>2. DeliveryStatusIsTrue
  BY DEF PushInv, DeliveryStatusIsTrue, DeliveryOK, RowsFor, Stage
<1> QED BY <1>1, <1>2

-----------------------------------------------------------------------------
(* Rows are added and deactivated; their driver and device stay. *)

RowsStay ==
  /\ DOMAIN deviceRows \subseteq (DOMAIN deviceRows)'
  /\ \A i \in DOMAIN deviceRows : /\ deviceRows'[i].driver = deviceRows[i].driver
                                  /\ deviceRows'[i].device = deviceRows[i].device

LEMMA DeactivatedRows ==
  ASSUME RowTypes, OneHolder, NEW ids, deviceRows' = Deactivated(ids)
  PROVE  /\ deviceRows' \in Seq(DeviceRow) /\ RowsStay /\ OneHolder'
         /\ \A i \in ids \cap DOMAIN deviceRows : ~deviceRows'[i].active
         /\ \A i \in DOMAIN deviceRows : deviceRows'[i].active => deviceRows[i].active
<1>1. /\ Len(deviceRows) \in Nat /\ DOMAIN deviceRows = 1 .. Len(deviceRows)
      /\ \A i \in DOMAIN deviceRows : deviceRows[i] \in DeviceRow
  BY LenProperties, ElementOfSeq DEF RowTypes
<1>2. deviceRows' = [i \in 1 .. Len(deviceRows) |->
        IF i \in ids THEN [deviceRows[i] EXCEPT !.active = FALSE] ELSE deviceRows[i]]
  BY <1>1 DEF Deactivated
<1>3. \A i \in 1 .. Len(deviceRows) :
        /\ deviceRows'[i] \in DeviceRow
        /\ deviceRows'[i].driver = deviceRows[i].driver
        /\ deviceRows'[i].device = deviceRows[i].device
        /\ deviceRows'[i].active => deviceRows[i].active
        /\ i \in ids => ~deviceRows'[i].active
  <2> TAKE i \in 1 .. Len(deviceRows)
  <2>1. deviceRows[i] \in DeviceRow BY <1>1
  <2>2. deviceRows'[i] = IF i \in ids THEN [deviceRows[i] EXCEPT !.active = FALSE] ELSE deviceRows[i]
    BY <1>2
  <2> QED BY <2>1, <2>2 DEF DeviceRow
<1>4. (DOMAIN deviceRows)' = DOMAIN deviceRows BY <1>1, <1>2
<1>5. deviceRows' \in Seq(DeviceRow)
  <2>1. deviceRows' \in [1 .. Len(deviceRows) -> DeviceRow] BY <1>2, <1>3
  <2> QED BY <2>1, <1>1, SeqDef
<1>6. RowsStay BY <1>1, <1>3, <1>4 DEF RowsStay
<1>7. OneHolder' BY <1>1, <1>3, <1>4 DEF OneHolder
<1> QED BY <1>1, <1>3, <1>5, <1>6, <1>7

LEMMA AppendedRow ==
  ASSUME RowTypes, OneHolder, NEW d \in PushDriver, NEW v \in Device, ActiveWith(v) = {},
         deviceRows' = Append(deviceRows, [driver |-> d, device |-> v, active |-> TRUE])
  PROVE  deviceRows' \in Seq(DeviceRow) /\ RowsStay /\ OneHolder'
<1> DEFINE r == [driver |-> d, device |-> v, active |-> TRUE]
<1>1. r \in DeviceRow BY DEF DeviceRow
<1>2. /\ Len(deviceRows) \in Nat /\ DOMAIN deviceRows = 1 .. Len(deviceRows)
      /\ \A i \in DOMAIN deviceRows : deviceRows[i] \in DeviceRow
  BY LenProperties, ElementOfSeq DEF RowTypes
<1>3. r.device = v OBVIOUS
<1> HIDE DEF r
<1>4. deviceRows' = Append(deviceRows, r) BY DEF r
<1>5. /\ deviceRows' \in Seq(DeviceRow) /\ Len(deviceRows') = Len(deviceRows) + 1
      /\ \A i \in 1 .. Len(deviceRows) : deviceRows'[i] = deviceRows[i]
      /\ deviceRows'[Len(deviceRows) + 1] = r
  BY <1>1, <1>4, AppendProperties DEF RowTypes
<1>6. DOMAIN deviceRows' = 1 .. Len(deviceRows) + 1 BY <1>5, LenProperties
<1>7. RowsStay BY <1>2, <1>5, <1>6 DEF RowsStay
<1>8. OneHolder'
  <2> SUFFICES ASSUME NEW i \in DOMAIN deviceRows', NEW j \in DOMAIN deviceRows',
                      deviceRows'[i].active, deviceRows'[j].active,
                      deviceRows'[i].device = deviceRows'[j].device
               PROVE  i = j
    BY DEF OneHolder
  <2>1. \A k \in 1 .. Len(deviceRows) : deviceRows[k].active => deviceRows[k].device # v
    BY <1>2 DEF ActiveWith
  <2>2. CASE i \in 1 .. Len(deviceRows) /\ j \in 1 .. Len(deviceRows)
    BY <2>2, <1>2, <1>5 DEF OneHolder
  <2>3. CASE i = Len(deviceRows) + 1 /\ j \in 1 .. Len(deviceRows) BY <2>1, <2>3, <1>5, <1>3
  <2>4. CASE j = Len(deviceRows) + 1 /\ i \in 1 .. Len(deviceRows) BY <2>1, <2>4, <1>5, <1>3
  <2> QED BY <2>2, <2>3, <2>4, <1>6, <1>2
<1> QED BY <1>5, <1>7, <1>8

LEMMA RowsStayFor ==
  ASSUME RowsStay, NEW n \in Note
  PROVE  RowsFor(n) \subseteq RowsFor(n)' /\ DOMAIN deviceRows \subseteq (DOMAIN deviceRows)'
BY DEF RowsStay, RowsFor

-----------------------------------------------------------------------------
(* What the steps of other deliveries, of registrations and of the inbox leave *)
(* of a delivery.                                                             *)

Apart(n) ==
  /\ deliveries'[n] = deliveries[n] /\ received'[n] = received[n]
  /\ inbox'[n].status = inbox[n].status
  /\ RowsStay /\ (pushFaults' = 0 => pushFaults = 0)

LEMMA ApartStays ==
  ASSUME NEW n \in Note, DeliveryOK(n), Apart(n) PROVE DeliveryOK(n)'
<1>1. /\ RowsFor(n) \subseteq RowsFor(n)'
      /\ \A i \in RowsFor(n) : deviceRows'[i].device = deviceRows[i].device
  BY DEF Apart, RowsStay, RowsFor
<1>2. \A v \in received[n] : \E i \in RowsFor(n)' : deviceRows'[i].device = v
  BY <1>1 DEF DeliveryOK
<1> DEFINE d == deliveries[n]  status == inbox[n].status
<1>3. /\ d.todo \subseteq RowsFor(n)' /\ (d.stage \in {"send", "deactivate"} => d.row \in RowsFor(n)')
      /\ (d.stage \in {"new", "stored"} => received[n] = {})
      /\ (d.sent \/ status = "SENT" => received[n] # {})
      /\ pushFaults = 0 =>
           /\ d.stage # "dead"
           /\ d.stage \in {"send", "deactivate", "finish"} /\ received[n] # {} => d.sent
           /\ d.stage = "ended" => status \in Final /\ (status = "SENT" <=> received[n] # {})
  BY <1>1 DEF DeliveryOK
<1>4. /\ d' = d /\ status' = status /\ received'[n] = received[n] /\ (pushFaults' = 0 => pushFaults = 0)
  BY DEF Apart
<1> HIDE DEF d, status
<1>5. /\ d'.todo \subseteq RowsFor(n)' /\ (d'.stage \in {"send", "deactivate"} => d'.row \in RowsFor(n)')
      /\ (d'.stage \in {"new", "stored"} => received'[n] = {})
      /\ (d'.sent \/ status' = "SENT" => received'[n] # {})
      /\ \A v \in received'[n] : \E i \in RowsFor(n)' : deviceRows'[i].device = v
      /\ pushFaults' = 0 =>
           /\ d'.stage # "dead"
           /\ d'.stage \in {"send", "deactivate", "finish"} /\ received'[n] # {} => d'.sent
           /\ d'.stage = "ended" => status' \in Final /\ (status' = "SENT" <=> received'[n] # {})
  BY <1>2, <1>3, <1>4
<1> USE DEF d, status
<1> QED BY <1>5 DEF DeliveryOK, Final

\* The types of the records follow the rows as they grow.
LEMMA DeliveryTypesGrow ==
  ASSUME RowsStay, NEW d \in Delivery PROVE d \in Delivery'
BY DEF RowsStay, Delivery

\* A step of one delivery: it moves on to d, its status to s, its devices to R.
Moves(n, d, s, R) ==
  /\ deliveries' = [deliveries EXCEPT ![n] = d]
  /\ inbox' \in [Note -> InboxRow] /\ inbox'[n].status = s
  /\ \A m \in Note \ {n} : inbox'[m] = inbox[m]
  /\ received' = [received EXCEPT ![n] = R]
  /\ fcmClient' = fcmClient /\ oauth' \in BOOLEAN /\ registering' = registering
  /\ pushFaults' \in {pushFaults, pushFaults + 1} /\ pushFaults' <= MaxPushFaults

LEMMA MovesOK ==
  ASSUME PushInv, NEW n \in Note, NEW d \in Delivery, NEW s, NEW R \in SUBSET Device, Moves(n, d, s, R),
         RowsStay, RowTypes', OneHolder',
         /\ d.todo \subseteq RowsFor(n)
         /\ d.stage \in {"send", "deactivate"} => d.row \in RowsFor(n)
         /\ d.stage \in {"new", "stored"} => R = {}
         /\ d.sent \/ s = "SENT" => R # {}
         /\ \A v \in R : \E i \in RowsFor(n) : deviceRows[i].device = v
         /\ pushFaults' = 0 =>
              /\ d.stage # "dead"
              /\ d.stage \in {"send", "deactivate", "finish"} /\ R # {} => d.sent
              /\ d.stage = "ended" => s \in Final /\ (s = "SENT" <=> R # {})
  PROVE  PushInv'
<1>1. pushFaults \in Nat /\ (pushFaults' = 0 => pushFaults = 0)
  BY DEF PushInv, ClientTypes, Moves
<1>2. ClientTypes'
  <2>1. MaxPushFaults \in Nat BY PushAssumption
  <2> QED BY <2>1, <1>1 DEF PushInv, ClientTypes, Moves
<1>3. NoteTypes'
  <2>1. deliveries' \in [Note -> Delivery'] 
    <3>1. \A m \in Note : deliveries'[m] \in Delivery BY DEF PushInv, NoteTypes, Moves
    <3>2. \A m \in Note : deliveries'[m] \in Delivery' BY <3>1, DeliveryTypesGrow
    <3>3. deliveries' = [m \in Note |-> deliveries'[m]] BY DEF PushInv, NoteTypes, Moves
    <3> QED BY <3>2, <3>3
  <2>2. received' \in [Note -> SUBSET Device] BY DEF PushInv, NoteTypes, Moves
  <2> QED BY <2>1, <2>2 DEF Moves, NoteTypes, InboxRow
<1>4. ASSUME NEW m \in Note \ {n} PROVE DeliveryOK(m)'
  <2>1. Apart(m) BY <1>1 DEF Apart, Moves, PushInv, NoteTypes
  <2> QED BY <2>1, ApartStays DEF PushInv
<1>5. DeliveryOK(n)'
  <2>1. /\ RowsFor(n) \subseteq RowsFor(n)'
        /\ \A i \in RowsFor(n) : deviceRows'[i].device = deviceRows[i].device
    BY DEF RowsStay, RowsFor
  <2>2. \A v \in R : \E i \in RowsFor(n)' : deviceRows'[i].device = v
    BY <2>1
  <2>3. deliveries'[n] = d /\ received'[n] = R /\ inbox'[n].status = s
    BY DEF Moves, PushInv, NoteTypes
  <2>4. d.todo \subseteq RowsFor(n)' /\ (d.stage \in {"send", "deactivate"} => d.row \in RowsFor(n)')
    BY <2>1
  <2> QED BY <2>2, <2>3, <2>4 DEF DeliveryOK, Final
<1>6. \A m \in Note : DeliveryOK(m)' BY <1>4, <1>5
<1> QED BY <1>2, <1>3, <1>6 DEF PushInv

-----------------------------------------------------------------------------
(* The pieces steps are made of. *)

\* The status of a notification is set, or stays as a fault.
Writes(n, s) ==
  /\ inbox' \in [Note -> InboxRow] /\ inbox'[n].status = s
  /\ \A m \in Note \ {n} : inbox'[m] = inbox[m]

Faults == pushFaults' \in {pushFaults, pushFaults + 1} /\ pushFaults' <= MaxPushFaults

LEMMA FaultCounts ==
  ASSUME PushInv
  PROVE  /\ NoPushFault => Faults /\ pushFaults' = pushFaults
         /\ PushFault => Faults /\ pushFaults' # 0
<1>1. MaxPushFaults \in Nat /\ pushFaults \in 0 .. MaxPushFaults
  BY PushAssumption DEF PushInv, ClientTypes
<1> QED BY <1>1 DEF NoPushFault, PushFault, Faults

LEMMA StatusWritten ==
  ASSUME PushInv, NEW n \in Note, NEW s \in Final \cup {"none", "PENDING", "RETRYING"},
         inbox' = [inbox EXCEPT ![n].status = s]
  PROVE  Writes(n, s)
BY DEF PushInv, NoteTypes, InboxRow, Writes

LEMMA StatusStays ==
  ASSUME PushInv, NEW n \in Note, UNCHANGED inbox PROVE Writes(n, inbox[n].status)
BY DEF PushInv, NoteTypes, Writes

LEMMA StatusUpdated ==
  ASSUME PushInv, NEW n \in Note, NEW s \in Final \cup {"none", "PENDING", "RETRYING"},
         UpdateDeliveryStatus(n, s)
  PROVE  Faults /\ \E t \in {s, inbox[n].status} : Writes(n, t) /\ (t = s \/ pushFaults' # 0)
BY FaultCounts, StatusWritten, StatusStays DEF UpdateDeliveryStatus

\* On to the next row, all of the driver.
Takes(n, d, s) ==
  /\ deliveries' = [deliveries EXCEPT ![n] = d] /\ d.sent = s
  /\ d.todo \subseteq RowsFor(n) /\ d.stage \in {"send", "finish"}
  /\ d.stage = "send" => d.row \in RowsFor(n)

LEMMA TokenTaken ==
  ASSUME PushInv, NEW n \in Note, NEW rest \in SUBSET RowsFor(n), NEW s \in BOOLEAN,
         NextToken(n, rest, s)
  PROVE  \E d \in Delivery : Takes(n, d, s)
<1>1. 1 \in 1 .. MaxAttempts BY PushAssumption
<1>2. CASE rest = {}
  <2> DEFINE d == [stage |-> "finish", todo |-> {}, row |-> 0, attempt |-> 1, sent |-> s]
  <2>1. d \in Delivery BY <1>1 DEF Delivery, Stages
  <2>2. Takes(n, d, s) BY <1>2 DEF NextToken, Takes
  <2> QED BY <2>1, <2>2
<1>3. CASE rest # {}
  <2>1. PICK i \in rest : deliveries' = [deliveries EXCEPT ![n] =
           [stage |-> "send", todo |-> rest \ {i}, row |-> i, attempt |-> 1, sent |-> s]]
    BY <1>3 DEF NextToken
  <2> DEFINE d == [stage |-> "send", todo |-> rest \ {i}, row |-> i, attempt |-> 1, sent |-> s]
  <2>2. i \in DOMAIN deviceRows /\ rest \subseteq DOMAIN deviceRows BY DEF RowsFor
  <2>3. d \in Delivery BY <1>1, <2>2 DEF Delivery, Stages
  <2>4. Takes(n, d, s) BY <2>1 DEF Takes
  <2> QED BY <2>3, <2>4
<1> QED BY <1>2, <1>3

\* What is known of a delivery that is under way.
LEMMA UnderWay ==
  ASSUME PushInv, NEW n \in Note
  PROVE  /\ deliveries[n] \in Delivery /\ deliveries[n].todo \subseteq RowsFor(n)
         /\ deliveries[n].sent \in BOOLEAN /\ inbox[n].status \in Final \cup {"none", "PENDING", "RETRYING"}
         /\ received[n] \in SUBSET Device /\ DeliveryOK(n)
BY DEF PushInv, NoteTypes, Delivery, InboxRow, DeliveryOK

LEMMA RowsUnchanged ==
  ASSUME PushInv, UNCHANGED deviceVars PROVE RowsStay /\ RowTypes' /\ OneHolder'
BY DEF PushInv, deviceVars, RowsStay, RowTypes, OneHolder

\* A step of one delivery that leaves the rows alone.
LEMMA MovesAlone ==
  ASSUME PushInv, NEW n \in Note, NEW d \in Delivery, NEW s, NEW R \in SUBSET Device,
         deliveries' = [deliveries EXCEPT ![n] = d], Writes(n, s), Faults,
         received' = [received EXCEPT ![n] = R],
         fcmClient' = fcmClient, oauth' \in BOOLEAN,
         RowsStay, RowTypes', OneHolder', registering' = registering,
         /\ d.todo \subseteq RowsFor(n)
         /\ d.stage \in {"send", "deactivate"} => d.row \in RowsFor(n)
         /\ d.stage \in {"new", "stored"} => R = {}
         /\ d.sent \/ s = "SENT" => R # {}
         /\ \A v \in R : \E i \in RowsFor(n) : deviceRows[i].device = v
         /\ pushFaults' = 0 =>
              /\ d.stage # "dead"
              /\ d.stage \in {"send", "deactivate", "finish"} /\ R # {} => d.sent
              /\ d.stage = "ended" => s \in Final /\ (s = "SENT" <=> R # {})
  PROVE  PushInv'
<1>1. Moves(n, d, s, R) BY DEF Moves, Writes, Faults
<1> QED BY <1>1, MovesOK

\* What is received is a device of a row of the driver.
LEMMA ReceivedFromRows ==
  ASSUME PushInv, NEW n \in Note, Stage(n) = "send", Receive(n)
  PROVE  \E R \in SUBSET Device :
           /\ received' = [received EXCEPT ![n] = R] /\ R # {}
           /\ \A v \in R : \E i \in RowsFor(n) : deviceRows[i].device = v
<1> DEFINE v == deviceRows[deliveries[n].row].device  R == received[n] \cup {v}
<1>1. deliveries[n].row \in RowsFor(n) BY DEF PushInv, DeliveryOK, Stage
<1>2. v \in Device
  <2>1. deliveries[n].row \in DOMAIN deviceRows BY <1>1 DEF RowsFor
  <2>2. deviceRows[deliveries[n].row] \in DeviceRow BY <2>1, ElementOfSeq DEF PushInv, RowTypes
  <2> QED BY <2>2 DEF DeviceRow
<1>3. received' = [received EXCEPT ![n] = R] BY DEF Receive
<1>4. \A u \in R : \E i \in RowsFor(n) : deviceRows[i].device = u
  BY <1>1 DEF PushInv, DeliveryOK
<1>5. R \in SUBSET Device /\ R # {} BY <1>2, UnderWay
<1> QED BY <1>3, <1>4, <1>5

-----------------------------------------------------------------------------
(* The steps of one delivery. *)

LEMMA StoreStep == ASSUME PushInv, NEW n \in Note, Store(n) PROVE PushInv'
<1> DEFINE d == [deliveries[n] EXCEPT !.stage = "stored"]
<1>1. deliveries[n] \in Delivery /\ deliveries[n].todo \subseteq RowsFor(n)
      /\ deliveries[n].stage = "new" /\ received[n] = {} /\ ~deliveries[n].sent
  BY DEF Store, Stage, PushInv, NoteTypes, DeliveryOK
<1>2. d \in Delivery /\ d.stage = "stored" /\ d.todo = deliveries[n].todo /\ ~d.sent
  BY <1>1 DEF Delivery, Stages
<1>3. deliveries' = [deliveries EXCEPT ![n] = d] BY DEF Store
<1> HIDE DEF d
<1>4. Writes(n, "PENDING") BY StatusWritten DEF Store
<1>5. Faults BY FaultCounts DEF Store, NoPushFault
<1>6. received' = [received EXCEPT ![n] = {}] BY <1>1 DEF Store, PushInv, NoteTypes
<1>7. RowsStay /\ RowTypes' /\ OneHolder' /\ registering' = registering
  BY RowsUnchanged DEF Store, deviceVars
<1>8. fcmClient' = fcmClient /\ oauth' \in BOOLEAN BY DEF Store, PushInv, ClientTypes
<1> QED BY <1>1, <1>2, <1>3, <1>4, <1>5, <1>6, <1>7, <1>8, MovesAlone

\* The record of a delivery that is over.
LEMMA OverRecord ==
  ASSUME NEW e \in {"ended", "dead"}, NEW d, d = [Idle EXCEPT !.stage = e]
  PROVE  d \in Delivery /\ d.stage = e /\ d.todo = {} /\ ~d.sent
<1>1. 1 \in 1 .. MaxAttempts BY PushAssumption
<1> QED BY <1>1 DEF Delivery, Stages, Idle

LEMMA EndStep ==
  ASSUME PushInv, NEW n \in Note, NEW s \in Final, EndWith(n, s),
         UNCHANGED <<fcmClient, oauth, deviceVars, received>>,
         s = "SENT" => received[n] # {},
         pushFaults = 0 => (s = "SENT" <=> received[n] # {})
  PROVE  PushInv'
<1> DEFINE d == [Idle EXCEPT !.stage = "ended"]
<1>1. deliveries' = [deliveries EXCEPT ![n] = d] /\ UpdateDeliveryStatus(n, s) BY DEF EndWith
<1>2. d \in Delivery /\ d.stage = "ended" /\ d.todo = {} /\ ~d.sent BY OverRecord
<1> HIDE DEF d
<1>3. PICK t \in {s, inbox[n].status} : Writes(n, t) /\ (t = s \/ pushFaults' # 0)
  BY <1>1, StatusUpdated
<1>4. Faults BY <1>1, StatusUpdated
<1>5. t = "SENT" => received[n] # {} BY UnderWay DEF DeliveryOK
<1>6. pushFaults' = 0 => pushFaults = 0 BY <1>4 DEF Faults, PushInv, ClientTypes
<1>7. pushFaults' = 0 => t \in Final /\ (t = "SENT" <=> received[n] # {}) BY <1>3, <1>6
<1>8. received' = [received EXCEPT ![n] = received[n]] /\ received[n] \in SUBSET Device
  BY DEF PushInv, NoteTypes
<1>9. RowsStay /\ RowTypes' /\ OneHolder' /\ registering' = registering
  BY RowsUnchanged DEF deviceVars
<1>10. fcmClient' = fcmClient /\ oauth' \in BOOLEAN BY DEF PushInv, ClientTypes
<1>11. \A v \in received[n] : \E i \in RowsFor(n) : deviceRows[i].device = v
  BY UnderWay DEF DeliveryOK
<1> QED BY <1>1, <1>2, <1>3, <1>4, <1>5, <1>7, <1>8, <1>9, <1>10, <1>11, MovesAlone

LEMMA FinishStep == ASSUME PushInv, NEW n \in Note, Finish(n) PROVE PushInv'
<1> DEFINE s == IF deliveries[n].sent THEN "SENT" ELSE "FAILED"
<1>1. s \in Final /\ (s = "SENT" <=> deliveries[n].sent) BY DEF Final
<1>2. EndWith(n, s) /\ UNCHANGED <<fcmClient, oauth, deviceVars, received>> BY DEF Finish
<1>3. /\ deliveries[n].sent => received[n] # {}
      /\ pushFaults = 0 /\ received[n] # {} => deliveries[n].sent
  BY UnderWay DEF Finish, Stage, DeliveryOK
<1> HIDE DEF s
<1> QED BY <1>1, <1>2, <1>3, EndStep

LEMMA DispatchStep == ASSUME PushInv, NEW n \in Note, DispatchPush(n) PROVE PushInv'
<1>1. /\ deliveries[n].stage = "stored" /\ received[n] = {} /\ deliveries[n] \in Delivery
      /\ ~deliveries[n].sent /\ deliveries[n].todo \subseteq RowsFor(n)
      /\ inbox[n].status # "SENT"
  BY UnderWay DEF DispatchPush, Stage, DeliveryOK
<1>2. UNCHANGED <<fcmClient, oauth, deviceVars, received>> BY DEF DispatchPush
<1>3. CASE EndWith(n, "SKIPPED") BY <1>1, <1>2, <1>3, EndStep DEF Final
<1>4. received' = [received EXCEPT ![n] = {}] /\ {} \in SUBSET Device
  BY <1>1, <1>2 DEF PushInv, NoteTypes
<1>5. RowsStay /\ RowTypes' /\ OneHolder' /\ registering' = registering
  BY <1>2, RowsUnchanged DEF deviceVars
<1>6. fcmClient' = fcmClient /\ oauth' \in BOOLEAN BY <1>2 DEF PushInv, ClientTypes
<1>7. CASE NextToken(n, ActiveRows(DriverOf[n]), FALSE) /\ NoPushFault /\ UNCHANGED inbox
  <2>1. ActiveRows(DriverOf[n]) \in SUBSET RowsFor(n) BY DEF ActiveRows, RowsFor
  <2>2. PICK d \in Delivery : Takes(n, d, FALSE) BY <1>7, <2>1, TokenTaken
  <2>3. Writes(n, inbox[n].status) /\ Faults BY <1>7, StatusStays, FaultCounts
  <2>4. /\ deliveries' = [deliveries EXCEPT ![n] = d] /\ ~d.sent
        /\ d.todo \subseteq RowsFor(n) /\ d.stage \in {"send", "finish"}
        /\ d.stage = "send" => d.row \in RowsFor(n)
    BY <2>2 DEF Takes
  <2> QED BY <1>1, <1>4, <1>5, <1>6, <2>3, <2>4, MovesAlone
<1>8. CASE /\ PushFault /\ inbox' \in {inbox, [inbox EXCEPT ![n].status = "FAILED"]}
           /\ deliveries' = [deliveries EXCEPT ![n].stage = "ended"]
  <2> DEFINE d == [deliveries[n] EXCEPT !.stage = "ended"]
  <2>1. d \in Delivery /\ d.stage = "ended" /\ d.todo = deliveries[n].todo /\ ~d.sent
    BY <1>1 DEF Delivery, Stages
  <2>2. deliveries' = [deliveries EXCEPT ![n] = d] BY <1>8
  <2> HIDE DEF d
  <2>3. \E t : Writes(n, t) /\ t # "SENT"
    BY <1>1, <1>8, StatusStays, StatusWritten DEF Final
  <2>4. PICK t : Writes(n, t) /\ t # "SENT" BY <2>3
  <2>5. Faults /\ pushFaults' # 0 BY <1>8, FaultCounts
  <2> QED BY <1>1, <1>4, <1>5, <1>6, <2>1, <2>2, <2>4, <2>5, MovesAlone
<1> QED BY <1>3, <1>7, <1>8 DEF DispatchPush

LEMMA DieStep == ASSUME PushInv, NEW n \in Note, Die(n) PROVE PushInv'
<1> DEFINE d == [Idle EXCEPT !.stage = "dead"]
<1>1. deliveries' = [deliveries EXCEPT ![n] = d] /\ PushFault
      /\ UNCHANGED <<fcmClient, oauth, deviceVars, inbox, received>>
  BY DEF Die
<1>2. d \in Delivery /\ d.stage = "dead" /\ d.todo = {} /\ ~d.sent BY OverRecord
<1> HIDE DEF d
<1>3. Writes(n, inbox[n].status) /\ Faults /\ pushFaults' # 0 BY <1>1, StatusStays, FaultCounts
<1>4. received' = [received EXCEPT ![n] = received[n]] /\ received[n] \in SUBSET Device
  BY <1>1 DEF PushInv, NoteTypes
<1>5. RowsStay /\ RowTypes' /\ OneHolder' /\ registering' = registering
  BY <1>1, RowsUnchanged DEF deviceVars
<1>6. fcmClient' = fcmClient /\ oauth' \in BOOLEAN BY <1>1 DEF PushInv, ClientTypes
<1>7. /\ \A v \in received[n] : \E i \in RowsFor(n) : deviceRows[i].device = v
      /\ inbox[n].status = "SENT" => received[n] # {}
  BY UnderWay DEF DeliveryOK
<1> QED BY <1>1, <1>2, <1>3, <1>4, <1>5, <1>6, <1>7, MovesAlone

\* A step on the next token, or one more attempt at this one.
LEMMA GoesOn ==
  ASSUME PushInv, NEW n \in Note, NEW d \in Delivery, deliveries' = [deliveries EXCEPT ![n] = d],
         NEW R \in SUBSET Device, received' = [received EXCEPT ![n] = R],
         \A v \in R : \E i \in RowsFor(n) : deviceRows[i].device = v,
         NEW t, Writes(n, t), Faults, fcmClient' = fcmClient, oauth' \in BOOLEAN,
         RowsStay, RowTypes', OneHolder', registering' = registering,
         d.todo \subseteq RowsFor(n), d.stage \in {"send", "deactivate", "finish"},
         d.stage # "finish" => d.row \in RowsFor(n),
         d.sent \/ t = "SENT" => R # {},
         pushFaults' = 0 /\ R # {} => d.sent
  PROVE  PushInv'
BY MovesAlone

\* Trying the same row again.
LEMMA NextAttempt ==
  ASSUME PushInv, NEW n \in Note, Stage(n) = "send", deliveries[n].attempt # MaxAttempts,
         deliveries' = [deliveries EXCEPT ![n].attempt = @ + 1]
  PROVE  \E d \in Delivery :
           /\ deliveries' = [deliveries EXCEPT ![n] = d] /\ d.sent = deliveries[n].sent
           /\ d.todo \subseteq RowsFor(n) /\ d.stage = "send" /\ d.row \in RowsFor(n)
<1> DEFINE d == [deliveries[n] EXCEPT !.attempt = @ + 1]
<1>1. /\ deliveries[n] \in Delivery /\ deliveries[n].todo \subseteq RowsFor(n)
      /\ deliveries[n].stage = "send" /\ deliveries[n].row \in RowsFor(n)
  BY UnderWay DEF Stage, DeliveryOK
<1>2. deliveries[n].attempt + 1 \in 1 .. MaxAttempts BY <1>1, PushAssumption DEF Delivery
<1>3. d \in Delivery BY <1>1, <1>2 DEF Delivery
<1>4. /\ d.sent = deliveries[n].sent /\ d.todo = deliveries[n].todo
      /\ d.stage = "send" /\ d.row = deliveries[n].row
  BY <1>1 DEF Delivery
<1>5. deliveries' = [deliveries EXCEPT ![n] = d] OBVIOUS
<1> HIDE DEF d
<1> QED BY <1>1, <1>3, <1>4, <1>5

\* A push that counts as failed is tried again or left.
LEMMA RetryStep ==
  ASSUME PushInv, NEW n \in Note, Stage(n) = "send", Retry(n), oauth' \in BOOLEAN,
         UNCHANGED <<fcmClient, deviceVars, received>>
  PROVE  PushInv'
<1>1. received' = [received EXCEPT ![n] = received[n]] /\ received[n] \in SUBSET Device
  BY DEF PushInv, NoteTypes
<1>2. RowsStay /\ RowTypes' /\ OneHolder' /\ registering' = registering
  BY RowsUnchanged DEF deviceVars
<1>3. /\ \A v \in received[n] : \E i \in RowsFor(n) : deviceRows[i].device = v
      /\ deliveries[n].sent \/ inbox[n].status = "SENT" => received[n] # {}
      /\ pushFaults = 0 /\ received[n] # {} => deliveries[n].sent
      /\ deliveries[n].todo \in SUBSET RowsFor(n) /\ deliveries[n].sent \in BOOLEAN
  BY UnderWay DEF Stage, DeliveryOK
<1>4. CASE deliveries[n].attempt = MaxAttempts
  <2>1. NextToken(n, deliveries[n].todo, deliveries[n].sent) /\ NoPushFault /\ UNCHANGED inbox
    BY <1>4 DEF Retry
  <2>2. PICK d \in Delivery : Takes(n, d, deliveries[n].sent) BY <1>3, <2>1, TokenTaken
  <2>3. Writes(n, inbox[n].status) /\ Faults /\ pushFaults' = pushFaults
    BY <2>1, StatusStays, FaultCounts
  <2>4. /\ deliveries' = [deliveries EXCEPT ![n] = d] /\ d.sent = deliveries[n].sent
        /\ d.todo \subseteq RowsFor(n) /\ d.stage \in {"send", "deactivate", "finish"}
        /\ d.stage # "finish" => d.row \in RowsFor(n)
    BY <2>2 DEF Takes
  <2>5. /\ d.sent \/ inbox[n].status = "SENT" => received[n] # {}
        /\ pushFaults' = 0 /\ received[n] # {} => d.sent
    BY <1>3, <2>3, <2>4
  <2>6. fcmClient' = fcmClient OBVIOUS
  <2> QED BY <1>1, <1>2, <1>3, <2>3, <2>4, <2>5, <2>6, GoesOn
<1>5. CASE deliveries[n].attempt # MaxAttempts
  <2>1. UpdateDeliveryStatus(n, "RETRYING") /\ deliveries' = [deliveries EXCEPT ![n].attempt = @ + 1]
    BY <1>5 DEF Retry
  <2>2. PICK d \in Delivery :
           /\ deliveries' = [deliveries EXCEPT ![n] = d] /\ d.sent = deliveries[n].sent
           /\ d.todo \subseteq RowsFor(n) /\ d.stage = "send" /\ d.row \in RowsFor(n)
    BY <1>5, <2>1, NextAttempt
  <2>3. PICK t \in {"RETRYING", inbox[n].status} : Writes(n, t) BY <2>1, StatusUpdated
  <2>4. Faults /\ (pushFaults' = 0 => pushFaults = 0)
    BY <2>1, StatusUpdated DEF Faults, PushInv, ClientTypes
  <2> QED BY <1>1, <1>2, <1>3, <2>2, <2>3, <2>4, GoesOn
<1> QED BY <1>4, <1>5

LEMMA TokenTypes ==
  ASSUME PushInv, NEW ok \in BOOLEAN, AccessToken(ok) PROVE oauth' \in BOOLEAN
BY DEF AccessToken, PushInv, ClientTypes

LEMMA AcceptedStep == ASSUME PushInv, NEW n \in Note, SendAccepted(n) PROVE PushInv'
<1>1. Stage(n) = "send" /\ Receive(n) /\ NextToken(n, deliveries[n].todo, TRUE)
      /\ UNCHANGED <<fcmClient, deviceVars, inbox, pushFaults>> /\ oauth' \in BOOLEAN
  BY TokenTypes DEF SendAccepted
<1>2. PICK R \in SUBSET Device :
        /\ received' = [received EXCEPT ![n] = R] /\ R # {}
        /\ \A v \in R : \E i \in RowsFor(n) : deviceRows[i].device = v
  BY <1>1, ReceivedFromRows
<1>3. deliveries[n].todo \in SUBSET RowsFor(n) BY UnderWay
<1>4. PICK d \in Delivery : Takes(n, d, TRUE) BY <1>1, <1>3, TokenTaken
<1>5. Writes(n, inbox[n].status) /\ Faults
  BY <1>1, StatusStays, FaultCounts DEF NoPushFault
<1>6. RowsStay /\ RowTypes' /\ OneHolder' /\ registering' = registering
  BY <1>1, RowsUnchanged DEF deviceVars
<1>7. /\ deliveries' = [deliveries EXCEPT ![n] = d] /\ d.sent = TRUE
      /\ d.todo \subseteq RowsFor(n) /\ d.stage \in {"send", "deactivate", "finish"}
      /\ d.stage # "finish" => d.row \in RowsFor(n)
  BY <1>4 DEF Takes
<1> QED BY <1>1, <1>2, <1>5, <1>6, <1>7, GoesOn

LEMMA RefusedStep == ASSUME PushInv, NEW n \in Note, SendRefused(n) PROVE PushInv'
<1>1. Stage(n) = "send" /\ oauth' \in BOOLEAN /\ UNCHANGED <<fcmClient, deviceVars, received>>
  BY TokenTypes DEF SendRefused
<1>2. CASE Retry(n) BY <1>1, <1>2, RetryStep
<1>3. CASE deliveries' = [deliveries EXCEPT ![n].stage = "deactivate"] /\ NoPushFault /\ UNCHANGED inbox
  <2> DEFINE d == [deliveries[n] EXCEPT !.stage = "deactivate"]
  <2>1. /\ deliveries[n] \in Delivery /\ deliveries[n].todo \subseteq RowsFor(n)
        /\ deliveries[n].row \in RowsFor(n)
        /\ \A v \in received[n] : \E i \in RowsFor(n) : deviceRows[i].device = v
        /\ deliveries[n].sent \/ inbox[n].status = "SENT" => received[n] # {}
        /\ pushFaults = 0 /\ received[n] # {} => deliveries[n].sent
    BY <1>1, UnderWay DEF Stage, DeliveryOK
  <2>2. /\ d \in Delivery /\ d.stage = "deactivate" /\ d.todo = deliveries[n].todo
        /\ d.row = deliveries[n].row /\ d.sent = deliveries[n].sent
    BY <2>1 DEF Delivery, Stages
  <2>3. deliveries' = [deliveries EXCEPT ![n] = d] BY <1>3
  <2> HIDE DEF d
  <2>4. Writes(n, inbox[n].status) /\ Faults /\ pushFaults' = pushFaults
    BY <1>3, StatusStays, FaultCounts
  <2>5. received' = [received EXCEPT ![n] = received[n]] /\ received[n] \in SUBSET Device
    BY <1>1 DEF PushInv, NoteTypes
  <2>6. RowsStay /\ RowTypes' /\ OneHolder' /\ registering' = registering
    BY <1>1, RowsUnchanged DEF deviceVars
  <2> QED BY <1>1, <2>1, <2>2, <2>3, <2>4, <2>5, <2>6, GoesOn
<1> QED BY <1>2, <1>3 DEF SendRefused

LEMMA FailsStep == ASSUME PushInv, NEW n \in Note, SendFails(n) PROVE PushInv'
BY TokenTypes, RetryStep DEF SendFails

LEMMA AnswerLostStep == ASSUME PushInv, NEW n \in Note, SendAnswerLost(n) PROVE PushInv'
<1>1. Stage(n) = "send" /\ Receive(n) /\ PushFault /\ UNCHANGED <<fcmClient, deviceVars>>
      /\ oauth' \in BOOLEAN
  BY TokenTypes DEF SendAnswerLost
<1>2. PICK R \in SUBSET Device :
        /\ received' = [received EXCEPT ![n] = R] /\ R # {}
        /\ \A v \in R : \E i \in RowsFor(n) : deviceRows[i].device = v
  BY <1>1, ReceivedFromRows
<1>3. deliveries[n].todo \in SUBSET RowsFor(n) /\ deliveries[n].sent \in BOOLEAN BY UnderWay
<1>4. Faults /\ pushFaults' # 0 BY <1>1, FaultCounts
<1>5. RowsStay /\ RowTypes' /\ OneHolder' /\ registering' = registering
  BY <1>1, RowsUnchanged DEF deviceVars
<1>6. CASE NextToken(n, deliveries[n].todo, deliveries[n].sent) /\ UNCHANGED inbox
  <2>1. PICK d \in Delivery : Takes(n, d, deliveries[n].sent) BY <1>3, <1>6, TokenTaken
  <2>2. Writes(n, inbox[n].status) BY <1>6, StatusStays
  <2>3. /\ deliveries' = [deliveries EXCEPT ![n] = d]
        /\ d.todo \subseteq RowsFor(n) /\ d.stage \in {"send", "deactivate", "finish"}
        /\ d.stage # "finish" => d.row \in RowsFor(n)
    BY <2>1 DEF Takes
  <2> QED BY <1>1, <1>2, <1>4, <1>5, <2>2, <2>3, GoesOn
<1>7. CASE /\ deliveries[n].attempt < MaxAttempts
           /\ inbox' \in {inbox, [inbox EXCEPT ![n].status = "RETRYING"]}
           /\ deliveries' = [deliveries EXCEPT ![n].attempt = @ + 1]
  <2>1. deliveries[n].attempt # MaxAttempts
    <3>1. MaxAttempts \in Nat BY PushAssumption
    <3> QED BY <1>7, <3>1
  <2>2. PICK d \in Delivery :
           /\ deliveries' = [deliveries EXCEPT ![n] = d] /\ d.sent = deliveries[n].sent
           /\ d.todo \subseteq RowsFor(n) /\ d.stage = "send" /\ d.row \in RowsFor(n)
    BY <1>1, <1>7, <2>1, NextAttempt
  <2>3. \E t : Writes(n, t) BY <1>7, StatusStays, StatusWritten
  <2>4. PICK t : Writes(n, t) BY <2>3
  <2> QED BY <1>1, <1>2, <1>4, <1>5, <2>2, <2>4, GoesOn
<1> QED BY <1>6, <1>7 DEF SendAnswerLost

LEMMA DeactivateStep == ASSUME PushInv, NEW n \in Note, Deactivate(n) PROVE PushInv'
<1>1. /\ Stage(n) = "deactivate" /\ NextToken(n, deliveries[n].todo, deliveries[n].sent)
      /\ UNCHANGED <<fcmClient, oauth, registering, inbox, received>>
  BY DEF Deactivate
<1>2. RowsStay /\ RowTypes' /\ OneHolder'
  <2>1. CASE deviceRows' = Deactivated({deliveries[n].row})
    BY <1>1, <2>1, DeactivatedRows DEF RowTypes, PushInv
  <2>2. CASE UNCHANGED deviceRows BY <1>1, <2>2, RowsUnchanged DEF deviceVars
  <2> QED BY <2>1, <2>2 DEF Deactivate
<1>3. Faults /\ (pushFaults' = 0 => pushFaults = 0)
  BY FaultCounts DEF Deactivate
<1>4. received' = [received EXCEPT ![n] = received[n]] /\ received[n] \in SUBSET Device
  BY <1>1 DEF PushInv, NoteTypes
<1>5. /\ \A v \in received[n] : \E i \in RowsFor(n) : deviceRows[i].device = v
      /\ deliveries[n].sent \/ inbox[n].status = "SENT" => received[n] # {}
      /\ pushFaults = 0 /\ received[n] # {} => deliveries[n].sent
      /\ deliveries[n].todo \in SUBSET RowsFor(n) /\ deliveries[n].sent \in BOOLEAN
  BY <1>1, UnderWay DEF Stage, DeliveryOK
<1>6. PICK d \in Delivery : Takes(n, d, deliveries[n].sent) BY <1>1, <1>5, TokenTaken
<1>7. Writes(n, inbox[n].status) BY <1>1, StatusStays
<1>8. /\ deliveries' = [deliveries EXCEPT ![n] = d] /\ d.sent = deliveries[n].sent
      /\ d.todo \subseteq RowsFor(n) /\ d.stage \in {"send", "deactivate", "finish"}
      /\ d.stage # "finish" => d.row \in RowsFor(n)
  BY <1>6 DEF Takes
<1>9. fcmClient' = fcmClient /\ oauth' \in BOOLEAN BY <1>1 DEF PushInv, ClientTypes
<1>10. /\ d.sent \/ inbox[n].status = "SENT" => received[n] # {}
       /\ pushFaults' = 0 /\ received[n] # {} => d.sent
  BY <1>3, <1>5, <1>8
<1>11. registering' = registering BY <1>1
<1> QED BY <1>2, <1>3, <1>4, <1>5, <1>7, <1>8, <1>9, <1>10, <1>11, GoesOn

-----------------------------------------------------------------------------
(* Registrations, the inbox and the access token. *)

\* A step that only touches rows of devices, read flags and the access token.
LEMMA ElsewhereStep ==
  ASSUME PushInv, RowsStay, RowTypes', OneHolder', fcmClient' = fcmClient, oauth' \in BOOLEAN,
         UNCHANGED <<deliveries, received, pushFaults>>,
         inbox' \in [Note -> InboxRow], \A n \in Note : inbox'[n].status = inbox[n].status
  PROVE  PushInv'
<1>1. ClientTypes' BY DEF PushInv, ClientTypes
<1>2. NoteTypes'
  <2>1. deliveries' \in [Note -> Delivery']
    BY DeliveryTypesGrow DEF PushInv, NoteTypes
  <2> QED BY <2>1 DEF PushInv, NoteTypes, InboxRow
<1>3. \A n \in Note : DeliveryOK(n)'
  <2> TAKE n \in Note
  <2>1. Apart(n) BY DEF Apart
  <2> QED BY <2>1, ApartStays DEF PushInv
<1> QED BY <1>1, <1>2, <1>3 DEF PushInv

LEMMA DriverStep ==
  ASSUME PushInv, NEW d \in PushDriver,
         RegisterDeviceToken(d) \/ Upsert(d) \/ DeactivateDeviceToken(d)
  PROVE  PushInv'
<1>1. UNCHANGED <<fcmClient, oauth, inbox, deliveries, received, pushFaults>>
  BY DEF RegisterDeviceToken, Upsert, DeactivateDeviceToken
<1>2. registering \in [PushDriver -> Device \cup {NoDevice}] /\ RowTypes /\ OneHolder
  BY DEF PushInv, RowTypes
<1>3. CASE RegisterDeviceToken(d)
  <2>1. PICK v \in Device :
          /\ registering' = [registering EXCEPT ![d] = v]
          /\ deviceRows' = Deactivated({i \in ActiveWith(v) : deviceRows[i].driver # d})
    BY <1>3 DEF RegisterDeviceToken
  <2> DEFINE ids == {i \in ActiveWith(v) : deviceRows[i].driver # d}
  <2>2. deviceRows' = Deactivated(ids) BY <2>1
  <2> HIDE DEF ids
  <2> QED BY <1>1, <1>2, <2>1, <2>2, DeactivatedRows, ElsewhereStep
        DEF RowTypes, PushInv, ClientTypes, NoteTypes
<1>4. CASE Upsert(d)
  <2>1. /\ registering[d] \in Device /\ registering' = [registering EXCEPT ![d] = NoDevice]
        /\ \/ UNCHANGED deviceRows
           \/ /\ ActiveWith(registering[d]) = {}
              /\ deviceRows' = Append(deviceRows, [driver |-> d, device |-> registering[d], active |-> TRUE])
    BY <1>2, <1>4 DEF Upsert
  <2>2. deviceRows' \in Seq(DeviceRow) /\ RowsStay /\ OneHolder'
    <3>1. CASE UNCHANGED deviceRows BY <3>1, <1>2 DEF RowTypes, RowsStay, OneHolder
    <3>2. CASE ~UNCHANGED deviceRows BY <3>2, <1>2, <2>1, AppendedRow
    <3> QED BY <3>1, <3>2
  <2>3. RowTypes' BY <1>2, <2>1, <2>2 DEF RowTypes, DeviceRow
  <2> QED BY <1>1, <2>2, <2>3, ElsewhereStep DEF PushInv, ClientTypes, NoteTypes
<1>5. CASE DeactivateDeviceToken(d)
  <2>1. PICK v \in Device : deviceRows' = Deactivated(ActiveRows(d) \cap ActiveWith(v))
    BY <1>5 DEF DeactivateDeviceToken
  <2>2. registering' = registering BY <1>5 DEF DeactivateDeviceToken
  <2>3. deviceRows' \in Seq(DeviceRow) /\ RowsStay /\ OneHolder' BY <1>2, <2>1, DeactivatedRows
  <2>4. RowTypes' BY <1>2, <2>2, <2>3 DEF RowTypes, DeviceRow
  <2> QED BY <1>1, <2>3, <2>4, ElsewhereStep DEF PushInv, ClientTypes, NoteTypes
<1> QED BY <1>3, <1>4, <1>5

LEMMA ReadStep == ASSUME PushInv, NEW ns, SetRead(ns) PROVE PushInv'
<1> DEFINE unread == {n \in ns : inbox[n].status # "none" /\ ~inbox[n].read}
<1>1. inbox' = [n \in Note |-> IF n \in unread THEN [inbox[n] EXCEPT !.read = TRUE] ELSE inbox[n]]
      /\ UNCHANGED <<fcmClient, oauth, deviceVars, deliveries, received, pushFaults>>
  BY DEF SetRead
<1> HIDE DEF unread
<1>2. \A n \in Note : inbox[n] \in InboxRow BY DEF PushInv, NoteTypes
<1>3. \A n \in Note : inbox'[n] \in InboxRow /\ inbox'[n].status = inbox[n].status
  <2> TAKE n \in Note
  <2>1. inbox'[n] = IF n \in unread THEN [inbox[n] EXCEPT !.read = TRUE] ELSE inbox[n] BY <1>1
  <2> QED BY <1>2, <2>1 DEF InboxRow
<1>4. inbox' \in [Note -> InboxRow] BY <1>1, <1>3
<1>5. RowsStay /\ RowTypes' /\ OneHolder' BY <1>1, RowsUnchanged
<1> QED BY <1>1, <1>3, <1>4, <1>5, ElsewhereStep DEF PushInv, ClientTypes

LEMMA PushStep == PushInv /\ [PushNext]_pushVars => PushInv'
<1> SUFFICES ASSUME PushInv, [PushNext]_pushVars PROVE PushInv' OBVIOUS
<1>1. ASSUME NEW d \in PushDriver, RegisterDeviceToken(d) \/ Upsert(d) \/ DeactivateDeviceToken(d)
      PROVE PushInv'
  BY <1>1, DriverStep
<1>2. ASSUME NEW d \in PushDriver, MarkAllRead(d) PROVE PushInv' BY <1>2, ReadStep DEF MarkAllRead
<1>3. ASSUME NEW n \in Note, MarkRead(n) PROVE PushInv' BY <1>3, ReadStep DEF MarkRead
<1>4. ASSUME NEW n \in Note, Store(n) \/ Deliver(n) \/ Die(n) PROVE PushInv'
  BY <1>4, StoreStep, DispatchStep, AcceptedStep, RefusedStep, FailsStep, AnswerLostStep,
     DeactivateStep, FinishStep, DieStep DEF Deliver, Send
<1>5. CASE OAuthExpires
  <2>1. UNCHANGED <<fcmClient, deviceVars, inbox, deliveries, received, pushFaults>> /\ oauth' \in BOOLEAN
    BY <1>5 DEF OAuthExpires
  <2> QED BY <2>1, RowsUnchanged, ElsewhereStep DEF PushInv, NoteTypes
<1>6. CASE UNCHANGED pushVars
  <2>1. UNCHANGED <<fcmClient, deviceVars, inbox, deliveries, received, pushFaults>> /\ oauth' \in BOOLEAN
    BY <1>6 DEF pushVars, PushInv, ClientTypes
  <2> QED BY <2>1, RowsUnchanged, ElsewhereStep DEF PushInv, NoteTypes
<1> QED BY <1>1, <1>2, <1>3, <1>4, <1>5, <1>6 DEF PushNext

\* What the driver's inbox says of a push is what happened, whatever the push
\* service answers, however devices change hands meanwhile and whichever
\* worker dies; no device is held by two drivers at once.
THEOREM InboxTellsTheTruth == PushSpec => [](PushTypeOK /\ DeliveryStatusIsTrue)
BY PushInitOK, PushStep, PushInvImplies, PTL DEF PushSpec
=============================================================================
