---------------------------- MODULE Availability ----------------------------
(***************************************************************************)
(* What the capacity service tells about one segment: the availability     *)
(* check with its answers cached in Redis, and the consumer that gives     *)
(* slots back when a journey ends, with the cleanup job behind it.         *)
(*                                                                         *)
(* A journey takes one slot of the segment in one window.  Windows are     *)
(* cached apart even when they overlap.  Slots are counted on a read       *)
(* replica, which replays the commits of the master in their order; the    *)
(* closures are read on the master.                                        *)
(***************************************************************************)
EXTENDS Naturals, Sequences, FiniteSets

CONSTANTS
  Reader,        \* calls of the availability check
  Holder,        \* journeys
  AvailWindow,   \* windows
  WindowOf,      \* the window of each journey
  Meets,         \* the windows each window overlaps, itself included
  Level,         \* priority levels
  RoomFor,       \* the effective capacity for each level
  EventType,     \* the types of events that are published
  AvailTTL,      \* cacheTTL
  MaxFlight,     \* how long a check may take (a bound)
  MaxLag,        \* how long the replica may take to replay a commit (a bound)
  MaxTries,      \* maxRetries of the consumer
  MaxAvailTime,  \* the last instant of the clock (a bound)
  MaxAvailFaults \* failing calls and deaths (a bound)

ASSUME AvailAssumption ==
  /\ {MaxFlight, MaxLag, MaxAvailTime, MaxAvailFaults} \subseteq Nat
  /\ {MaxTries, AvailTTL} \subseteq Nat \ {0} /\ IsFiniteSet(Holder)
  /\ AvailWindow # {} /\ Level # {} /\ EventType # {}
  /\ WindowOf \in [Holder -> AvailWindow]
  /\ Meets \in [AvailWindow -> SUBSET AvailWindow]
  /\ RoomFor \in [Level -> Nat]

VARIABLES
  redisOn,     \* whether the service has a Redis client
  holding,     \* the journeys with an active row
  shut,        \* whether a closure of the segment is active
  over,        \* the windows whose end the cleanup job's threshold has passed
  replica,     \* the journeys with an active row on the replica
  unreplayed,  \* the commits it is yet to replay: the rows and the time of each
  entries,     \* the cached answers, by window and level
  checks,      \* the availability checks in flight
  stale,       \* windows whose keys a committed change is about to delete
  shutStale,   \* whether a committed closure is about to delete every key
  events,      \* the entry of each journey's last event in the stream
  worker,      \* the message the consumer is at
  availNow,    \* the clock
  seenAt,      \* history: one more than the last instant at which a count was
               \* the window's, 0 if it never was
  availFaults

rowVars == <<holding, replica, unreplayed, seenAt>>
dbVars == <<shut, over, rowVars>>
cacheVars == <<redisOn, entries, stale, shutStale>>
consumerVars == <<events, worker>>
availVars == <<dbVars, cacheVars, consumerVars, checks, availNow, availFaults>>

AvailKey == AvailWindow \X Level
Counts == 0 .. Cardinality(Holder)
Answer == [reserved : Counts, closed : BOOLEAN, canReserve : BOOLEAN]
NoAnswer == [reserved |-> 0, closed |-> FALSE, canReserve |-> FALSE]
NoEntryYet == [here |-> FALSE, until |-> 0, answer |-> NoAnswer]
NoCheck(r) == [stage |-> "idle", key |-> CHOOSE k \in AvailKey : TRUE, since |-> 0,
               answer |-> NoAnswer, shutAll |-> FALSE, blind |-> FALSE]
NoMessage == "no message"
Starting == [at |-> NoMessage, stage |-> "start", try |-> 0]
Resting == [at |-> NoMessage, stage |-> "poll", try |-> 0]
Disabled == [at |-> NoMessage, stage |-> "off", try |-> 0]

AvailFault == availFaults < MaxAvailFaults /\ availFaults' = availFaults + 1
NoAvailFault == UNCHANGED availFaults

\* SumActiveOverlapping, the LEFT JOIN of the check.
Reserved(H, w) == Cardinality({j \in H : WindowOf[j] \in Meets[w]})

SetHolding(H) ==
  /\ holding' = H /\ UNCHANGED replica
  /\ unreplayed' = Append(unreplayed, [held |-> H, at |-> availNow])
  /\ seenAt' = [w \in AvailWindow |-> [seenAt[w] EXCEPT ![Reserved(H, w)] = availNow + 1]]

Deleted(K) == [k \in AvailKey |-> IF k \in K THEN NoEntryYet ELSE entries[k]]

\* availabilityCacheKey: the windows of the rows themselves, for both levels.
KeysOf(W) == W \X Level

-----------------------------------------------------------------------------
(* The changes: first the commit, then the invalidation. *)

Take(j) ==
  /\ j \notin holding /\ events[j].status = "none" /\ WindowOf[j] \notin over
  /\ SetHolding(holding \cup {j})
  /\ stale' = stale \cup {WindowOf[j]}
  /\ UNCHANGED <<redisOn, entries, shutStale, shut, over, consumerVars, checks, availNow, availFaults>>

Close ==
  /\ ~shut /\ shut' = TRUE /\ shutStale' = TRUE
  /\ UNCHANGED <<redisOn, entries, stale, over, rowVars, consumerVars, checks, availNow, availFaults>>

\* A closure runs out by itself.
Reopen ==
  /\ shut /\ shut' = FALSE
  /\ checks' = [r \in Reader |-> [checks[r] EXCEPT !.shutAll = FALSE]]
  /\ UNCHANGED <<cacheVars, over, rowVars, consumerVars, availNow, availFaults>>

\* How the end of a window lies to the clock, which counts the shorter times
\* of the cache, does not matter.
WindowEnds(w) ==
  /\ w \notin over /\ over' = over \cup {w}
  /\ UNCHANGED <<shut, rowVars, cacheVars, consumerVars, checks, availNow, availFaults>>

Orphans == {j \in holding : WindowOf[j] \in over}

\* Mutant: the job releases the rows of the windows that have not ended.
ReleaseOrphansSwapped ==
  LET J == holding \ Orphans IN
  /\ J # {} /\ SetHolding(holding \ J)
  /\ stale' = stale \cup {WindowOf[j] : j \in J}
  /\ UNCHANGED <<redisOn, entries, shutStale, shut, over, consumerVars, checks, availNow, availFaults>>

\* The cleanup job.  A run that fails changes nothing; another follows.
ReleaseOrphans ==
  /\ Orphans # {} /\ SetHolding(holding \ Orphans)
  /\ stale' = stale \cup {WindowOf[j] : j \in Orphans}
  /\ UNCHANGED <<redisOn, entries, shutStale, shut, over, consumerVars, checks, availNow, availFaults>>

\* The replica replays the next commit.
Replicate ==
  /\ unreplayed # <<>>
  /\ replica' = Head(unreplayed).held /\ unreplayed' = Tail(unreplayed)
  /\ UNCHANGED <<holding, seenAt, shut, over, cacheVars, consumerVars, checks, availNow, availFaults>>

\* A failing DEL or SCAN is logged.
Invalidate(K) ==
  \/ redisOn /\ entries' = Deleted(K) /\ NoAvailFault
  \/ redisOn /\ UNCHANGED entries /\ AvailFault
  \/ ~redisOn /\ UNCHANGED entries /\ NoAvailFault

InvalidateAvailabilityCache(w) ==
  /\ w \in stale /\ stale' = stale \ {w}
  /\ Invalidate(KeysOf({w}))
  /\ UNCHANGED <<redisOn, shutStale, dbVars, consumerVars, checks, availNow>>

InvalidateBySegment ==
  /\ shutStale /\ shutStale' = FALSE
  /\ Invalidate(AvailKey)
  /\ UNCHANGED <<redisOn, stale, dbVars, consumerVars, checks, availNow>>

-----------------------------------------------------------------------------
(* CheckAvailability *)

SetCheck(r, c) == checks' = [checks EXCEPT ![r] = c]
Busy(r) == checks[r].stage \notin {"idle", "answered"}

Check(r, k) ==
  /\ ~Busy(r)
  /\ SetCheck(r, [NoCheck(r) EXCEPT !.stage = "get", !.key = k, !.since = availNow, !.shutAll = shut])
  /\ UNCHANGED <<dbVars, cacheVars, consumerVars, availNow, availFaults>>

\* A Redis that fails counts as a miss.
RedisGet(r) ==
  LET e == entries[checks[r].key] IN
  /\ checks[r].stage = "get"
  /\ \/ /\ redisOn /\ e.here
        /\ SetCheck(r, [checks[r] EXCEPT !.stage = "hit", !.answer = e.answer])
        /\ NoAvailFault
     \/ /\ ~redisOn \/ ~e.here
        /\ SetCheck(r, [checks[r] EXCEPT !.stage = "count"]) /\ NoAvailFault
     \/ redisOn /\ SetCheck(r, [checks[r] EXCEPT !.stage = "count"]) /\ AvailFault
  /\ UNCHANGED <<dbVars, cacheVars, consumerVars, availNow>>

ClosedAnswer(a) == [a EXCEPT !.closed = TRUE, !.canReserve = FALSE]

\* Mutant: a hit is answered as it was stored.
AnswerHit(r) ==
  /\ checks[r].stage = "hit"
  /\ SetCheck(r, [checks[r] EXCEPT !.stage = "answered"]) /\ NoAvailFault
  /\ UNCHANGED <<dbVars, cacheVars, consumerVars, availNow>>

\* A hit is checked against the closures; when that fails it is believed.
CheckHit(r) ==
  LET a == checks[r].answer IN
  /\ checks[r].stage = "hit"
  /\ \/ /\ SetCheck(r, [checks[r] EXCEPT !.stage = "answered",
                          !.answer = IF shut THEN ClosedAnswer(a) ELSE a])
        /\ NoAvailFault
     \/ SetCheck(r, [checks[r] EXCEPT !.stage = "answered", !.blind = TRUE]) /\ AvailFault
  /\ UNCHANGED <<dbVars, cacheVars, consumerVars, availNow>>

\* Counted on the replica, so that a miss right after an invalidation may
\* store the count from before it.  One slot of room makes a segment reservable.
Count(r) ==
  LET n == Reserved(replica, checks[r].key[1]) IN
  /\ checks[r].stage = "count"
  /\ \/ /\ SetCheck(r, [checks[r] EXCEPT !.stage = "closure",
              !.answer = [reserved |-> n, closed |-> FALSE,
                          canReserve |-> RoomFor[checks[r].key[2]] >= n + 1]])
        /\ NoAvailFault
     \/ SetCheck(r, NoCheck(r)) /\ AvailFault   \* answered with 404
  /\ UNCHANGED <<dbVars, cacheVars, consumerVars, availNow>>

FindActiveOverlap(r) ==
  LET a == checks[r].answer IN
  /\ checks[r].stage = "closure"
  /\ \/ /\ SetCheck(r, [checks[r] EXCEPT !.stage = "set",
                          !.answer = IF shut THEN ClosedAnswer(a) ELSE a])
        /\ NoAvailFault
     \/ SetCheck(r, NoCheck(r)) /\ AvailFault
  /\ UNCHANGED <<dbVars, cacheVars, consumerVars, availNow>>

StoredEntry(a) == [here |-> TRUE, until |-> availNow + AvailTTL, answer |-> a]

\* The answer is stored as it was read, whatever was invalidated meanwhile.
RedisSet(r) ==
  /\ checks[r].stage = "set"
  /\ SetCheck(r, [checks[r] EXCEPT !.stage = "answered"])
  /\ \/ /\ entries' = IF redisOn THEN [entries EXCEPT ![checks[r].key] = StoredEntry(checks[r].answer)]
                      ELSE entries
        /\ NoAvailFault
     \/ redisOn /\ UNCHANGED entries /\ AvailFault
  /\ UNCHANGED <<redisOn, stale, shutStale, dbVars, consumerVars, availNow>>

-----------------------------------------------------------------------------
(* The consumer of journey events *)

\* Without its group the consumer is off for the life of the process; a group
\* that exists is none of the errors.  It is started when there is a client.
EnsureConsumerGroup ==
  /\ redisOn /\ worker = Starting
  /\ worker' \in {Resting, Disabled}
  /\ UNCHANGED <<dbVars, cacheVars, events, checks, availNow, availFaults>>

\* The journey service publishes what became of the journey.
Publish(j, t) ==
  /\ events[j].status = "none" /\ j \in holding
  /\ events' = [events EXCEPT ![j] = [status |-> "new", type |-> t]]
  /\ UNCHANGED <<dbVars, cacheVars, worker, checks, availNow, availFaults>>

\* Only messages nobody read before.  That is all a message is ever read, so
\* its acknowledgement, which may fail, makes no difference.
Poll(j) ==
  /\ redisOn /\ worker = Resting /\ events[j].status = "new"
  /\ events' = [events EXCEPT ![j].status = "read"]
  /\ worker' = [at |-> j, stage |-> "process", try |-> 1]
  /\ UNCHANGED <<dbVars, cacheVars, checks, availNow, availFaults>>

Releases(t) == t \in {"journey.cancelled", "journey.completed", "journey.expired"}

\* processMessage; a release that fails is tried again, MaxTries times in all,
\* and then the message is given up.
ProcessMessage ==
  LET j == worker.at IN
  /\ worker.stage = "process"
  /\ \/ /\ ~Releases(events[j].type) \/ j \notin holding
        /\ worker' = Resting
        /\ UNCHANGED <<rowVars, stale>>
     \/ /\ Releases(events[j].type) /\ j \in holding
        /\ SetHolding(holding \ {j})
        /\ stale' = stale \cup {WindowOf[j]}
        /\ worker' = [worker EXCEPT !.stage = "invalidate"]
     \/ /\ Releases(events[j].type)
        /\ worker' = IF worker.try < MaxTries THEN [worker EXCEPT !.try = @ + 1] ELSE Resting
        /\ UNCHANGED <<rowVars, stale>>
  /\ UNCHANGED <<shut, over, redisOn, entries, shutStale, events, checks, availNow, availFaults>>

\* After the invalidation of the window, done or failed.
Processed ==
  /\ worker.stage = "invalidate" /\ WindowOf[worker.at] \notin stale
  /\ worker' = Resting
  /\ UNCHANGED <<dbVars, cacheVars, events, checks, availNow, availFaults>>

\* The process dies and starts again, with Redis if it answers then; what it
\* had read stays pending, and nobody reads that again.
ServiceDies ==
  /\ AvailFault
  /\ redisOn' \in BOOLEAN /\ worker' = Starting
  /\ stale' = {} /\ shutStale' = FALSE
  /\ checks' = [r \in Reader |-> IF Busy(r) THEN NoCheck(r) ELSE checks[r]]
  /\ UNCHANGED <<entries, events, dbVars, availNow>>

\* An entry past its TTL is gone.  A check takes at most MaxFlight, the replay
\* of a commit at most MaxLag; an answer is looked at when it is given.
AvailTick ==
  /\ availNow < MaxAvailTime
  /\ \A r \in Reader : Busy(r) => availNow < checks[r].since + MaxFlight
  /\ \A i \in DOMAIN unreplayed : availNow < unreplayed[i].at + MaxLag
  /\ availNow' = availNow + 1
  /\ seenAt' = [w \in AvailWindow |->
       [seenAt[w] EXCEPT ![Reserved(holding, w)] = availNow + 2]]
  /\ checks' = [r \in Reader |-> IF checks[r].stage = "answered" THEN NoCheck(r) ELSE checks[r]]
  /\ entries' = [k \in AvailKey |-> IF entries[k].until > availNow + 1 THEN entries[k] ELSE NoEntryYet]
  /\ UNCHANGED <<holding, replica, unreplayed, shut, over, redisOn, stale, shutStale, consumerVars, availFaults>>

-----------------------------------------------------------------------------
AvailInit ==
  /\ redisOn \in BOOLEAN /\ holding = {} /\ shut = FALSE /\ over = {}
  /\ replica = {} /\ unreplayed = <<>>
  /\ entries = [k \in AvailKey |-> NoEntryYet]
  /\ checks = [r \in Reader |-> NoCheck(r)]
  /\ stale = {} /\ shutStale = FALSE
  /\ events = [j \in Holder |-> [status |-> "none", type |-> CHOOSE t \in EventType : TRUE]]
  /\ worker = Starting /\ availNow = 0 /\ availFaults = 0
  /\ seenAt = [w \in AvailWindow |-> [n \in Counts |-> IF n = 0 THEN 1 ELSE 0]]

CheckStep(r) == RedisGet(r) \/ CheckHit(r) \/ Count(r) \/ FindActiveOverlap(r) \/ RedisSet(r)
Consume == EnsureConsumerGroup \/ (\E j \in Holder : Poll(j)) \/ ProcessMessage \/ Processed
Invalidating == (\E w \in AvailWindow : InvalidateAvailabilityCache(w)) \/ InvalidateBySegment

AvailNext ==
  \/ \E j \in Holder : Take(j) \/ \E t \in EventType : Publish(j, t)
  \/ Close \/ Reopen \/ Invalidating \/ Replicate
  \/ (\E w \in AvailWindow : WindowEnds(w)) \/ ReleaseOrphans
  \/ \E r \in Reader : CheckStep(r) \/ \E k \in AvailKey : Check(r, k)
  \/ Consume \/ ServiceDies \/ AvailTick

\* Time passes, and the cleanup job runs every five minutes and succeeds once
\* in a while.  Nothing is assumed of the consumer.
AvailFairness ==
  /\ \A w \in AvailWindow : WF_availVars(WindowEnds(w))
  /\ WF_availVars(ReleaseOrphans)

AvailSpec == AvailInit /\ [][AvailNext]_availVars

-----------------------------------------------------------------------------
(* Properties *)

AvailTypeOK ==
  /\ redisOn \in BOOLEAN /\ shut \in BOOLEAN /\ shutStale \in BOOLEAN
  /\ seenAt \in [AvailWindow -> [Counts -> 0 .. MaxAvailTime + 1]]
  /\ holding \subseteq Holder /\ over \subseteq AvailWindow /\ stale \subseteq AvailWindow
  /\ replica \subseteq Holder /\ unreplayed \in Seq([held : SUBSET Holder, at : 0 .. MaxAvailTime])
  /\ entries \in [AvailKey -> [here : BOOLEAN, until : Nat, answer : Answer]]
  /\ checks \in [Reader -> [stage : {"idle", "get", "hit", "count", "closure", "set", "answered"},
       key : AvailKey, since : 0 .. MaxAvailTime, answer : Answer,
       shutAll : BOOLEAN, blind : BOOLEAN]]
  /\ events \in [Holder -> [status : {"none", "new", "read"}, type : EventType]]
  /\ worker \in [at : Holder \cup {NoMessage}, stage : {"start", "off", "poll", "process", "invalidate"},
                 try : 0 .. MaxTries]
  /\ availNow \in 0 .. MaxAvailTime /\ availFaults \in 0 .. MaxAvailFaults

\* What a check answers was so not long ago: its count is one the window had
\* on the master within the life time of an entry, the flight of the check that
\* stored it, the lag of the replica that check counted on, and its own
\* flight.  A segment that was closed for as long as the check ran is never
\* called reservable, whichever cached entry outlived the closure's
\* invalidation, unless the closures could not be read.
AnswersAreFresh == \A r \in Reader :
  LET c == checks[r] IN
  c.stage = "answered" =>
    /\ seenAt[c.key[1]][c.answer.reserved] > 0
    /\ seenAt[c.key[1]][c.answer.reserved] + AvailTTL + 2 * MaxFlight + MaxLag > availNow + 1
    /\ c.shutAll /\ ~c.blind => ~c.answer.canReserve

\* The slots of a journey that has ended come back, whatever becomes of the
\* event that says so: never read because there is no Redis or the consumer
\* could not start, lost with the process that had read it, or acknowledged
\* unprocessed after its attempts.
EndedComesBack == \A j \in Holder :
  (events[j].status # "none" /\ Releases(events[j].type)) ~> j \notin holding

=============================================================================
