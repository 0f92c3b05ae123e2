# Clearway in TLA+

Clearway books journeys on road segments of limited capacity. Five Go services
take part; this directory holds specifications of their core logic, the TLC
configurations that check them on small instances, and TLAPS proofs.

## The system

| Part | State | Operations | Talks to |
|---|---|---|---|
| capacity service | `capacity.segments`, `reservations`, `closures`, `idempotency_cache`, `reservation_sagas`; Redis availability cache | reserve (one region, or several under a saga), register segments, set capacities, close a segment, check availability, occupancy; cleanup job; event consumer | journey service (HTTP), Redis stream, CockroachDB |
| journey service | `journey.journeys`, `journey_segments`, `outbox`, `idempotency_cache` | create, cancel, activate, complete, admin cancel, expiry job, enforcement lookup; outbox relay | map and capacity service, Redis stream |
| notification service | `notifications`, device tokens | consume events, push with retries, reclaim pending messages | Redis stream, FCM |
| IAM service | users, vehicles, refresh tokens, signing keys | register, login, refresh, logout, forced logout, promote | all services (JWT) |
| map service | segment graph, closures, route caches | compute a route, derive segments, traffic view | capacity service, external geo services |

How a booking flows: the journey service computes a route (map service), turns
it into segments with time windows, asks the capacity service to reserve them
under the client's idempotency key, stores the journey with an outbox event in
one transaction; a relay copies the outbox to a Redis stream; the capacity
service consumes the events that end a journey and releases its rows, the
notification service tells the driver.

### What is hard about it

* Every reserve call is a goroutine that makes several round trips to a shared
  database. Calls with one key (client retries, several replicas) and calls for
  one segment interleave with each other, with admin updates, with the cleanup
  job and with release events.
* The process or the client may go away between any two steps; a COMMIT may
  take effect although its caller sees an error; a transaction may be restarted.
* A cross-region reservation is not one transaction but one per region, under a
  record whose updates are best effort.
* The journey service draws a new journey id for every attempt, while the
  capacity service answers a retry by its key; each side has a cache of its own
  that may lose an entry or forget it. Status changes read a replica and write
  to the master later.
* Refreshes, logouts and role changes read a row, or a replica, and write
  later; keys rotate while other services hold a copy of the old set.
* Caches answer in front of changing data: availability in Redis, routes in the
  map database and again in Redis. Each is filled after the read it stores, and
  everything around them fails softly: an error is logged and the call goes on.
* Replicas of a service migrate their database at the same time.
* Every replica runs an outbox relay that marks rows after it has added them to
  the stream. The capacity service may run without its consumer, gives a message
  up after three attempts, and never reads again what it had read before a
  crash; the notification service reclaims what has been pending for a minute,
  also from workers that are only slow.

### What makes each part correct

* *reserve*: no segment is over-subscribed, normal traffic stays out of the
  emergency buffer, all rows of a request or none, one booking per key, answers
  that say reserved name rows that exist, and slots nobody will use come back.
* *saga*: the same across regions, one answer per key, nothing left behind a
  refusal, a record that says COMMITTED stands for a whole reservation, every
  call comes to an end.
* *journey*: one live journey per driver, a live journey has its rows, the end
  of a journey frees them, status changes do not overtake one another.
* *outbox*: no event lost or reordered for one journey.
* *notification*: one notification per event, pushed or given up on; the
  delivery status it shows is what happened.
* *IAM*: a session has one good refresh token until it is signed out and none
  from then on, access tokens end soon after, claims of an admin end soon after
  a demotion, retired keys stop being accepted.
* *availability*: an answer is no older than a cached entry and the replica's lag
  allow, a closed segment is not called reservable, and the slots of a journey
  that has ended come back whatever becomes of its event.
* *map*: the segments of a route are all the roads of one drive in order, and
  known to the capacity service; the city route is a shortest one.
* *migrations*: files apply in order, and a replica serves what it has migrated.

`PROJECT.json` lists every part with what is modelled of it, and the hazards
with the properties aimed at them.

## The modules

| Module | Models | State and actions |
|---|---|---|
| `Slots` | requests, rows and slot counting (`model/`, `SumActiveOverlapping`, `effectiveCapacityForPriority`) | none: constants and operators |
| `CapacityStore` | the tables and everything but Reserve that writes them | `capacity`, `defaultCapacity`, `closures`, `active`, `released`, `idem`, `now`; histories `peak`, `purged` |
| `ReserveTx` | `Reserve` + `doReserveTx` for calls within one region | `pc`, `tries`, `answer` of each call |
| `AtomicBooking` | what a reserve promises | `limit`, `held`, `used` |
| `SagaCoordinator` | `executeSaga` for calls across regions, with single region calls beside them | `saga`, `found`, `booked`, `undo` on top of `ReserveTx` |
| `JourneyBooking` | `CreateJourney`, cancel, activate, complete, admin cancel, the expiry job, release of slots | `journeys`, `replica`, `cache` (journey service); `entry`, `held` (capacity service); `pc`, `got`, `answer` of each attempt; `updates` under way; `clock` |
| `AtLeastOnceStream` | what readers of `journey.events` rely on | `outbox`, `stream` |
| `OutboxRelay` | `relayBatch` in several replicas | `published`; `batch`, `sent` of each relay; `faults` |
| `NotificationConsumer` | `poll`, `process`, `doReclaim` on the stream of `AtLeastOnceStream` | `delivered`, `pending` of the group; `todo`, `stage` of each worker; `rows`, `pushes` of events; `faults`; histories `refused`, `deserted` |
| `Sessions` | `AuthService`, `AdminService`, the two repositories and endpoints, the token purge | `accounts`, `roleReplica`; `tokens`, `purged`, `access`; `calls` being served; `sessionClock`, `roleChanges`; histories `signedOut`, `adminSeen` |
| `Profiles` | profile and vehicles, their validation | `profile` and vehicles of each driver |
| `TokenKeys` | rotation, `BuildJWKS`, `JWKSValidator` | `signing` of each issuer; `known`, `fetchedAt` of the validator; `request` in flight; history `left` |
| `Migrations` | `RunMigrations` in starting replicas | `replica`, `applied`, `recorded`; `together` |
| `Availability` | `CheckAvailability`, its cache and invalidation, the read replica it counts on, the release consumer and the cleanup job | `holding`, `shut`, `over` (master); `replica`, `unreplayed`; `entries`, `stale`, `shutStale`; `checks` in flight; `events`, `worker`; history `seenAt` |
| `PushDelivery` | device tokens, push with retries, delivery status, read flags | `deviceRows`, `registering`; `inbox`, `deliveries`; history `received` |
| `RouteService` | `POST /routes/compute` and the journey service's route cache | `routes`, `stretch`; `registered`; `routeCache`; `route` of each call |
| `ShortestRoute` | the city graph and `calculateShortestRoute` | `rows`, `graph`; `distances`, `visited`, `previous`, `pathEdges` |
| `MCAccounts` | instance of `Sessions`, `Profiles`, `Migrations`, `TokenKeys` | `focus`: the part that moves |
| `MCBestEffort` | instance of `Availability`, `PushDelivery`, `RouteService`, `ShortestRoute` | `focus` |
| `MCReserveTx`, `MCSagaCoordinator`, `MCJourneyBooking`, `MCOutboxRelay`, `MCNotificationConsumer` | instances for TLC | |
| `Capacity_proofs`, `SagaCoordinator_proofs`, `JourneyBooking_proofs`, `OutboxRelay_proofs`, `NotificationConsumer_proofs`, `Accounts_proofs`, `BestEffort_proofs`, `Routes_proofs` | theorems | |

**Rows.** A reservation row is named by the call that inserted it and its
position in the call's request, so its columns are those of the request
(`ItemOf`, `SlotsOf`, `JourneyOf`); the generated reservation id is the call
itself. Statuses are membership in `active` and `released`. `released_at` and
ids are left out. Slots are counted in half slots, so weights are integers.

**Steps.** A serializable transaction is one step at its commit. This is sound
for what a committed transaction does. What an aborted transaction read may be
stale, so `RecheckReplays`, `Refuse`, `UniqueViolation`, `Restart` and `TxError`
are free alternatives, each with the guard the code tests. The other round
trips are steps of their own: the first look at the cache (`Reserve`), the
record of a refusal (`RecordRefusal`), the lookup after a unique violation
(`ReplayWinner`), each write to a saga record, each compensating release.

**Idempotency entries** have three states that matter: absent, fresh, and
expired but not purged, when readers do not see the entry and its primary key
still refuses inserts. An entry lives 24 hours and a call seconds, so an entry
expires only when no call of its key is in flight (`ExpireIdle`).

**Failures** are switched on by `Faults`: `crash` (the goroutine stops, its
open transaction rolls back), `db` (a statement fails), `ambiguous` (COMMIT
takes effect and reports an error), `retry` (CockroachDB restarts the
transaction, up to `MaxTxRetries`), `save` and `release` (writes of the saga
whose errors the code only logs).

**Composition.** `ReserveTx` and `SagaCoordinator` work on the tables of
`CapacityStore`. `JourneyBooking` sees the capacity service as what
`AtomicBooking` promises and `ReserveTx` is proved to keep: an attempt gets all
of its rows or none, once for a key. `OutboxRelay` implements
`AtLeastOnceStream`, and `NotificationConsumer` reads from that stream rather
than from one relay.

**Journeys.** Every attempt draws a fresh journey id before it reserves, so
attempts and journey ids are one set, and a row of the capacity service is
named by the attempt that reserved it. `got` is what the reserve call returned:
it may name the reservation of another attempt with the same key. All journeys
of the model depart at one time; the clock counts phases around it (booking
allowed, cancelling allowed, the grace half hour, later, windows over). A
status change is a read of the replica (`GetByID`, which also tests status and
time) followed by `UpdateStatusWithEvent`, which writes only if the version is
unchanged. Reading and refusing is a stutter and is left out. The event of an
ended journey is consumed by `ReleaseByJourneyID`, at any later time, any
number of times or never.

**Events.** Events are numbered by `created_at`, the start of their transaction.
Those of one journey are committed in that order, because a status change
carries the version it read; those of different journeys in any order, so the
relay may find a smaller number after it has published a larger one. A push is
one step: its retries per token and the delivery status it records change
nothing for the message. A worker takes arbitrarily long over its batch, so
any pending message may be reclaimed at any time.

**Journey events.** `JourneyEnds` is the effect of a consumed release event. It
needs a reserve call of the journey that was answered "reserved": a journey is
stored only after that answer.

**Sessions.** A session is the chain of refresh tokens that one login or
registration starts. Refresh is two steps, because it holds the row lock it took
with `FOR UPDATE` while other requests run; a logout of all sessions waits for
it. Login, logout and a demotion are a lookup and a later write, as in the code.
Requests that are refused have no step. Passwords and token values are left out:
a call names the token it presents. `adminSeen` is the last instant at which an
account was an admin, or a login in progress had read that it was. Access tokens
carry the role they were issued with; `iam-service/IMPLEMENTATION_STATUS.md`
(L1) accepts that a demoted admin's token stays valid for its hour, and
`AdminClaimsEnd` says it is not longer, refreshes included.

**Keys.** A key id is the number of its rotation; a rotation is a restart of an
IAM replica with the next key, and rolls over all replicas before the next
begins. A refresh of the validator's cache may reach any replica and be
overtaken by another refresh.

**Availability.** A change commits first and invalidates afterwards (`stale`); a
check reads and stores afterwards. `CheckAvailability` counts the slots on the
read replica, which replays the commits of the master in order (`Replicate`),
and reads the closures on the master. An answer is judged against the history
`seenAt`, the last instant at which its count was the true one on the master.
The service starts with or without Redis; with it, the consumer is off for the
life of the process when its group cannot be created (`EnsureConsumerGroup`).
The consumer reads each event once, tries a release `MaxTries` times and then
acknowledges the message all the same; what it had read when the process died is
never read again. Behind it the cleanup job (`ReleaseOrphans`) releases the rows
whose window is over. Windows last for minutes or hours and the cache for
seconds, so a window may end at any step of the clock of the cache
(`WindowEnds`).

**Push.** A delivery goes through the tokens it looked up, one attempt at a
time, while drivers register and deactivate devices. `received` remembers which
devices the push service delivered to, whatever the worker was told.

**Routes.** A drive is one answer of OSRM: its steps, each with the segment and
the seconds. `MapRouteStepsToSegments` merges the steps one by one (`Collapse`)
and rounds them as the code does; `AreStretches` is what it is compared with:
each segment stands for consecutive steps of the drive (`Elapsed` is their
time), no two in a row for one road, none left out. What a call holds is read by
two statements, and written by one transaction. In the city graph the search is
compared with all ways there are (`Reached`, `Clock`).

**Independent parts.** `MCAccounts` and `MCBestEffort` each instantiate parts
that share no state and check them in one run: `focus` is chosen in the initial
state and only that part moves. Their state spaces add up rather than multiply.

## The runs

Slots: a car is 2 half slots, `TwoCars` capacity 4, buffer 2 where it matters.

| Run | Shows | Instance and bounds |
|---|---|---|
| `reserve_faults` | a key books once; answers are backed by rows; the path implements `AtomicBooking` | a call, its retry with the same key, and a rival for one of the two segments; all faults of the path; one restart; clock to 3, so that windows end and the orphan job acts |
| `reserve_admin` | `NoOverSubscription`, `BufferIsKept` | a normal car, a normal motorcycle, an emergency car on two segments of which one is registered late; capacities 2 and 4, closures, a changing default |
| `saga_faults` | what the saga guarantees whatever fails | a call over two regions, its retry, a single region rival for one car's capacity; crash, db, ambiguous, lost saga updates |
| `saga_cleanup` | every call ends, every slot comes back | the two crossing calls; crash, ambiguous commit, failed release; clock to 3 |
| `reserve_loop` | *violation*: a route that revisits a segment over-subscribes it | |
| `saga_live` | *violation*: a retry undoes a live saga whose owner then answers reserved | |
| `journey_retry` | live journeys keep their slots; a key has one journey; the life cycle; approved journeys end; slots return | an attempt and its retry with one key and driver; crashes, lost cache entries, stale replica; two status changes at once; all phases of the clock |
| `journey_takeover` | *violation*: the event of a journey that took over another attempt's reservation frees nothing | the same attempts, no failures |
| `outbox_relay` | the relays implement `AtLeastOnceStream`; no event is lost | two relays, three events of two journeys, batches of two, two failures |
| `notify_reclaim` | what is acknowledged was pushed, or is about to be, unless its row was refused or its worker died; no event is pushed twice; every event is stored or refused | two readers, a reclaimer, two events, up to three messages, two crashes or failed XACKs, inserts that fail at any time |
| `accounts`: sessions | one good token per session until it is signed out; access tokens end with it; claims of an admin end | two calls, two users, two spellings of one address; three tokens; life times 1 and 2; `Budget` 4 of instants and role changes together |
| `accounts`: profiles | types, validated where the code validates | one driver, one second vehicle, two vehicle types |
| `accounts`: keys | retired keys age out | two issuers, two requests, two rotations, four instants, an hour and a fetch of one instant each |
| `accounts`: migrations | files apply in order, before serving | two replicas that ship one or two files, four starts, any death |
| `best_effort`: availability | answers are recent; closed segments are not reservable; the slots of ended journeys come back | one check, one journey, one window, with or without Redis, with or without consumer; a lag of one instant, two attempts per message, one fault, four instants |
| `best_effort`: push | statuses are true; deliveries end | two drivers, two devices, one notification, two attempts, one fault, with or without FCM client |
| `best_effort`: routes | routes are whole and registered | two calls; two trips that share a cache key, a trip from a place to itself; four drives; one fault |
| `best_effort`: graph | the route is a shortest one | four nodes, all graphs of up to five roads with times 1 and 3, and the fallback |

The violations are disagreements between the code and a comment, test or
document of the repository; `findings` in `PROJECT.json` quotes both.

**Bounds.** `Horizon` ends the clock, `MaxTxRetries` bounds restarts (5 in the
code; each restart repeats the same steps, so one shows them), `CapacityValues`
and `ClosureDurations` are what admins may choose. Three calls are enough for
the races the code can have: two of one key, and a third that changes what they
find. Each property has a mutant, in `PROJECT.json`, that its run refutes.

Deadlock is not checked: when all calls are done, the clock has stopped and the
admins do nothing more, the model may stop, as the system may be idle.

In `accounts` three tokens are two logins of one user and a refresh, or two
refreshes in a row, which is what a race of refresh and logout needs; no call
that would issue a token starts when there is no room for one. The budget
is three steps: two role changes, which make a second admin and demote one of
the two, and an instant that a claim might outlive. In
`best_effort` a fault may be any of those its part names, and one already
separates what the code says from what happened. One window is enough for the
cache, as an entry that an overlapping window's invalidation misses lives on
like one whose invalidation failed. An answer has a field for the slots and one
for the closure, filled from different tables, so a behaviour changes the slots
or the closures (`focus`). `MaxLag` bounds the lag of the replica, which the code
does not: the theorem holds for every bound, and a deployment that keeps to the
alert threshold of `CAPACITY_SERVICE_SPEC.md` gets the freshness of that one. A
release that fails in the consumer does not count against `MaxAvailFaults`, so
the branch that gives a message up is taken.

`journey_retry` has two attempts because every race it looks for is between two
calls: a third finds what the second left. One driver makes the index of live
journeys matter as well. A stream of at most three messages for two events
repeats either of them; a batch of two is what a slow worker may hold while
another reclaims its second message, and with two faults a message may be left
by a crash and then not be acknowledged.

Some disagreements have no run; `PROJECT.json` lists them as findings without
one. They were met while writing the models and each can be followed in its
module: a logout that loses to a refresh leaves the successor token
(`Sessions!Logout`), two demotions leave no admin (`GuardSoleAdmin`), a device
stays with the driver whose insert came first (`PushDelivery!Upsert`), a crashed
consumer's events are never read again (`Availability!ServiceDies`), a failed
insert of a notification is acknowledged (`NotificationConsumer!InsertError`),
an answer of the availability check is older than its cache entry by the
replica's lag (`Availability!Count`), the retry of a crashed saga cannot create
its record, and three services execute a migration and record it separately
(`Migrations!ExecMigration`). A refusal is reported even when another call of
the key has booked before its record is written, so one key can get two answers.
A crash can leave a saga PENDING for ever, or rows active under a COMPENSATED
record; only the orphan job returns their slots (`SlotsComeBack`). A crash
between the insert of a notification and its push loses the push.

**Fairness.** In the capacity service, `FairSpec` and `FairSagaSpec` assume that
a goroutine serving a call is scheduled (weak fairness of its next step), that
time passes, and that the cleanup ticker fires. Starting a call, retrying it,
crashing, admin operations and journey events are never assumed to happen.

`AvailFairness` assumes that windows come to their ends and that the cleanup job,
which runs every five minutes, succeeds in the end; nothing is assumed of the
consumer or of Redis. `PushFairness` assumes that a worker goes
on with each delivery: every call of the push service has a timeout. Nothing else
in those parts is assumed to happen. `EffortFairness` asks this of the part that
moves.

In `JourneyBooking` attempts go on, the clock and the replica move (weak
fairness each), the cleanup and expiry jobs run, and the write of a status
change is strongly fair: when it is tried again and again (the expiry job tries
every five minutes) it does not fail every time. In `OutboxRelay` each relay's
ticker fires; faults are bounded by `MaxFaults`, as no relay delivers anything
while every attempt fails. In `NotificationConsumer` both kinds of workers go on
after a crash; the producer is not assumed to do anything.

## The proofs

Every invariant, action property and refinement that a passing run checks is
stated by a theorem, for any values of the constants that satisfy the
assumptions of the modules: any finite set of calls and any keys, journeys,
segments, requests, capacities, buffer and faults; any attempts and drivers;
relays, events, workers and batch sizes; tokens, issuers, rotations, replicas
and files; drivers, devices and notifications; trips, drives and cache keys; any
finite city graph.

The assumptions of the modules say what the code or its configuration gives: an
entry of the availability cache has a life time above zero, and there are
finitely many holders of slots; the built-in city graph is a graph and the nodes
are finite; the steps of a drive have a segment and a number of seconds. The
bounds that runs put on clocks that start at 1 (`Budget`, `MaxKeyTime`) are at
least 1. Three theorem hypotheses go beyond them. `DisjointItems` (no request
books a segment twice for overlapping windows) is needed by everything about
loads, as `reserve_loop` shows. `RetriesAgree` (the calls of a key all cross
regions or none does) is needed by the answers of sagas: a key of both kinds
would have two owners; a client that follows the documentation sends the same
request again. The absence of failing compensations is
needed where the theorem says so.

* `Capacity_proofs`: sums of slots are natural numbers, monotone in the set of
  rows, and grow by at most the weight of an added row (a sum is the number of
  (row, half slot) pairs). `TypeCorrect` goes action by action. `StepEffects`
  and `NextEffects` then classify every step: it commits a call or is `Quiet`
  (it only releases rows, or only changes capacities with their peaks, or only
  adds refusals and expires or deletes entries; and no answer becomes "reserved"
  except by replaying the cache). `KeysInv` strengthens `OneReservationPerKey`
  and `ReservedIsBacked`: a key whose rows are stored has an entry or had one
  purged, and an entry that says reserved names a stored reservation of its key.
  Without the first part a commit might follow another of its key; without the
  second a replay might answer anything. `AdmittedFits` is the heart of the
  loads: at an instant that a row of an admitted call occupies, only rows its
  check counted are active, and no second row of the call, so the load is at
  most the effective capacity. `LoadsOK` adds that capacities stay below their
  peaks and states the bounds at every instant; `StepKeepsLoads` keeps it over
  any step that inserts admitted rows of one call. `NoOverSubscription`,
  `BufferIsKept` and the refinement of `AtomicBooking`
  (`ImplementsAtomicBooking`) follow.
* `SagaCoordinator_proofs`: the invariant is about the owner of a key's record,
  the call that created it (`OwnerActs`): only the owner has rows, and whoever
  has a definite answer has the owner's, as has the cache (`KeyOK`). It counts
  what the owner holds: the rows of a region are stored once its number is below
  `booked` (`BookedIsStored`), no others are unless an answer of the database
  was lost (`StoredIsBooked`), and after a refusal nothing is active
  (`RefusedIsReleased`). That the loop over the regions ends with all of them
  booked is `RegionsEnd`: numbered in their order, regions leave no gap
  (`RanksHaveNoGap`). `SagasNeverOverSubscribe` and `SagasKeepTheBuffer` need
  none of this: they follow from `StepKeepsLoads` for one region's rows at a
  time. `LoneSagasHold` is what remains of the claim that `saga_live` refutes: a
  call whose key and journey no other call uses holds all of its rows when it
  answers "reserved", but for those whose windows are so long over that the
  cleanup job took them. Its invariant (`LoneOK`) says that such a call meets no
  record but its own, and that nobody else can name its rows: whoever undoes a
  record undoes that of its own key (`OwnersOK`), an event needs an answer.
* `JourneyBooking_proofs`: `LiveIsBacked` relates a journey to slots that were
  reserved before it was stored, perhaps by another attempt. Its invariant says
  that replies are true (`RepliesOK`): the slots a reserve call reported stay
  held unless the journey of their attempt is stored or the windows are over.
  What happens to those of a stored journey is `LiveHasSlots`. For
  `LegalLifecycle` it says of the replica that each of its rows is the
  journey's own or an older version (`VersionsOK`), so a status change in
  progress is legal or will be refused. `SameJourneyForKey` needs that caches and
  calls remember stored journeys of their key only (`CachesOK`), of which
  there is one (`OneJourneyPerKey`). `StrandedByTakeOver` bounds what
  `journey_takeover` shows: an event leaves its journey's slots held only if
  they were reserved by another attempt of the key, so without retries
  `EventFreesReservation` holds (`EventsFindTheirRows`).
* `OutboxRelay_proofs`: an earlier event of the journey of one in a batch is on
  the stream or ahead of it in the batch (`BatchesOK`), and what is marked is on
  the stream (`MarkedOK`). Without the second, a row absent from a batch because
  another relay had marked it could be missing on the stream.
* `NotificationConsumer_proofs`: a worker past its insert has the row of its
  event, and it is the only one that will push it (`HandsOK`, `PushesOK`). Its
  failing inserts are part of the specification: `AcknowledgedIsHandled` says
  that an acknowledged event was pushed, or is about to be, or is one of two
  kinds of losses, each with a history of its own: the database refused the row
  of just that message (`refused`), or a worker died between the row and the
  push (`deserted`). Every row has been pushed, is in hand or is deserted
  (`RowsHandled`), and an acknowledged message has its row or was refused one
  (`AckedHasRow`).
* `Accounts_proofs`: about `Sessions`, `Profiles`, `TokenKeys` and `Migrations`
  on their own, and about `MCAccounts`, where one of them moves at a time
  (`AccountsAreSound`). Every step of `Sessions` leaves tokens alone, starts a
  session, rotates a token or revokes some; `SessionsInv` says that of the
  tokens of a session just one counts until it is signed out (`LiveTokens`, a
  statement on elements where the property counts) and that the purge takes none
  of those in its life time. `SessionRest` adds that revocations lie in the past
  and that access tokens belong to sessions there are. `ClaimsInv` is about
  roles: who is an admin, or was one when a login in progress read the account,
  was seen as one just now, and a session keeps its account, so a claim expires
  an access token's life time after its account was last seen as an admin at the
  latest (`AdminClaimsAgeOut`). `KeysInv` says that what the cache holds, or a
  request brings, was published at most a fetch before (`RequestOK`).
  `MigrationsInv` says what a replica has still to do (`ReplicaOK`): a file it
  has passed is recorded. The types of `Profiles` say which vehicles are
  validated; they go column by column of a patch.
* `BestEffort_proofs`: for `AnswersAreFresh` the invariant follows the count
  from the master to the answer: what the replica shows was the master's count
  at most `MaxLag` ago, because what it is yet to replay is what happened since,
  in order (`unreplayed`); a check that has counted is no older than the lag
  when it began (`CheckOK`), so an entry is at most the lag and a flight older
  than its life time says (`EntryOK`), and what a check hits was not too old
  when it began. `seenAt` only grows, and for the count of the moment it is the
  present (`NowSeen`), which ties the history to the rows. For
  `DeliveryStatusIsTrue` a delivery works on rows of its driver only, a device
  has one active row (`OneHolder`), what is remembered as sent was received, and
  while nothing failed nothing received is forgotten (`DeliveryOK`).
* `Routes_proofs`: the search keeps, of every node, that a known distance is what
  the edges followed so far add up to, that every edge from a visited node was
  tried, and that no way to a node not visited is faster than the nearest of them
  (`SearchOK`, `NoSooner`); the walk back then adds up to the total (`WalkOK`).
  For routes, the collapsed steps up to any step are stretches of the drive
  (`Stands`, kept by `OneMoreStep`), so the segments of a drive are a whole drive
  (`RouteInv`): rows, cache entries and calls hold the segments of one drive that
  fits the trip or its cache key, and the capacity service knows them or refused
  them. `EffortIsSound` puts the four parts of `MCBestEffort` together.

Induction over numbers is done with sets: a set that has 0, and n + 1 when it has
n, has all numbers, since the least one it lacks has a predecessor (`Least`). The
library's induction theorems take an operator as a parameter, which the provers
do not instantiate.

Only model-checked: liveness (`CallsEnd`, `SlotsComeBack`, `ApprovedEnds`,
`SlotsReturn`, `EveryEventStreams`, `EveryEventNotified`, `PushEnds`,
`EndedComesBack`), which is out of the prover's reach.

## Not modelled

* Listing, reporting and analytics endpoints (journeys, occupancy, traffic
  views, audit logs): they read and format. Enforcement lookup likewise.
* Geocoding, labels, coordinates of segments and the admin views of the map
  service: numerical or textual code over external services.
* The login rate limiter of the IAM service and nginx, an approximate counter in
  Redis; the circuit breakers of the journey service's clients, which are a
  library's. That a call may fail is modelled wherever one is made.
* The unused publisher of the journey service.
* Decoding and validation of HTTP bodies (except the profile's, where the
  endpoints differ), configuration, logging, metrics, tracing, the frontend,
  deployment and load tests.
* The region column of capacity rows, and the read replica where segments are
  listed: neither has a part in what is checked here. (The replica that
  availability checks count on is modelled.)
* An outbox relay that is off because Redis was unreachable at its start
  (`outbox_relay.go`, lines 41-44) and a notification consumer that is off
  because its group could not be created (notification `consumer.go`, lines
  60-63): no event moves until the process is restarted, so `EveryEventStreams`
  and `EveryEventNotified` are about relays and consumers that run.
* Cross-region calls in `JourneyBooking`: its capacity side is `AtomicBooking`,
  the promise of single-region calls. The cross-region answer that `saga_live`
  shows is weaker, and a journey stored on it need not have its rows.

## Plan

Done, in this order: `Slots`, `CapacityStore`, `ReserveTx`, `AtomicBooking`,
`SagaCoordinator`, `JourneyBooking`, `AtLeastOnceStream`, `OutboxRelay`,
`NotificationConsumer` and the proofs about them; then `Sessions`, `Profiles`,
`TokenKeys`, `Migrations`, `Availability`, `PushDelivery`, `RouteService`,
`ShortestRoute` with the two combined runs, `Accounts_proofs`,
`SagaCoordinator_proofs`, `BestEffort_proofs` and `Routes_proofs`.

Left: the refinement of `AtomicBooking` by `JourneyBooking`'s view of the
capacity service (its `entry` and `held`, as a step simulation); what the
clients of a journey see when a crashed saga is retried; the hazards without a
property in `PROJECT.json`.
