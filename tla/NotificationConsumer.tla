------------------------ MODULE NotificationConsumer ------------------------
(***************************************************************************)
(* The notification service's consumer group on journey.events: workers    *)
(* that read new messages in batches, workers that reclaim what has been   *)
(* pending for a minute, the notification rows with their unique event id, *)
(* and the push that follows a successful insert.                          *)
(*                                                                         *)
(* A batch takes as long as its pushes and their retries, so a message may *)
(* be reclaimed while the worker that read it is alive.                    *)
(***************************************************************************)
EXTENDS AtLeastOnceStream, FiniteSets

CONSTANTS
  Poller, Reclaimer,  \* the two kinds of workers
  BatchSize,          \* messages per read
  MaxStream,          \* the length of the stream up to which events repeat
  MaxFaults           \* how many crashes and failed XACKs a run admits

Worker == Poller \cup Reclaimer

ASSUME ConsumerAssumption ==
  /\ BatchSize \in Nat \ {0} /\ MaxStream \in Nat /\ MaxFaults \in Nat

VARIABLES
  delivered,  \* how many messages the group has read
  pending,    \* the messages read and not acknowledged
  todo,       \* the messages each worker has in hand, the first one current
  stage,      \* how far it is with that one: "read", "stored" or "pushed"
  rows,       \* the events with a notification row (of any delivery status)
  pushes,     \* how often the push of each event was dispatched
  refused,    \* history: the messages whose row the database refused
  deserted,   \* history: the events whose worker died between row and push
  faults      \* crashes and failed XACKs so far

rowVars == <<rows, pushes>>
lossVars == <<refused, deserted>>
groupVars == <<delivered, pending, todo, stage, rowVars, lossVars, faults>>
vars == <<streamVars, groupVars>>

Current(w) == Head(todo[w])
EventOf(w) == stream[Current(w)]
HasRow(e) == e \in rows
At(w, s) == todo[w] # <<>> /\ stage[w] = s

\* How many messages the next read takes.
ReadSize == LET new == Len(stream) - delivered IN IF new < BatchSize THEN new ELSE BatchSize

-----------------------------------------------------------------------------
\* Mutant: the read has no COUNT.
PollAll(w) ==
  /\ todo[w] = <<>> /\ delivered < Len(stream)
  /\ todo' = [todo EXCEPT ![w] = [i \in 1..(Len(stream) - delivered) |-> delivered + i]]
  /\ delivered' = Len(stream)
  /\ pending' = pending \cup (delivered + 1)..Len(stream)
  /\ UNCHANGED <<streamVars, stage, rowVars, lossVars, faults>>

\* Mutant: read with NOACK.
PollNoAck(w) ==
  LET n == ReadSize IN
  /\ todo[w] = <<>> /\ n > 0
  /\ todo' = [todo EXCEPT ![w] = [i \in 1..n |-> delivered + i]]
  /\ delivered' = delivered + n
  /\ UNCHANGED <<streamVars, pending, stage, rowVars, lossVars, faults>>

Poll(w) ==
  LET n == ReadSize IN
  /\ todo[w] = <<>> /\ n > 0
  /\ todo' = [todo EXCEPT ![w] = [i \in 1..n |-> delivered + i]]
  /\ delivered' = delivered + n
  /\ pending' = pending \cup (delivered + 1)..(delivered + n)
  /\ UNCHANGED <<streamVars, stage, rowVars, lossVars, faults>>

\* Mutant: the range of XPENDING leaves out its first message.
ReclaimFromSecond(w) ==
  /\ todo[w] = <<>>
  /\ \E m \in pending \ {1} : todo' = [todo EXCEPT ![w] = <<m>>]
  /\ UNCHANGED <<streamVars, delivered, pending, stage, rowVars, lossVars, faults>>

DoReclaim(w) ==
  /\ todo[w] = <<>>
  /\ \E m \in pending : todo' = [todo EXCEPT ![w] = <<m>>]
  /\ UNCHANGED <<streamVars, delivered, pending, stage, rowVars, lossVars, faults>>

-----------------------------------------------------------------------------
\* XACK, whose failure is only logged, then the next message.
Ack(w) ==
  /\ \/ pending' = pending \ {Current(w)} /\ UNCHANGED faults
     \/ faults < MaxFaults /\ faults' = faults + 1 /\ UNCHANGED pending
  /\ todo' = [todo EXCEPT ![w] = Tail(@)]
  /\ stage' = [stage EXCEPT ![w] = "read"]

Insert(w) ==
  /\ At(w, "read") /\ ~HasRow(EventOf(w))
  /\ rows' = rows \cup {EventOf(w)}
  /\ stage' = [stage EXCEPT ![w] = "stored"]
  /\ UNCHANGED <<streamVars, delivered, pending, todo, pushes, lossVars, faults>>

\* Mutant: a duplicate is pushed again.
PushDuplicate(w) ==
  /\ At(w, "read") /\ HasRow(EventOf(w))
  /\ stage' = [stage EXCEPT ![w] = "stored"]
  /\ UNCHANGED <<streamVars, delivered, pending, todo, rowVars, lossVars, faults>>

\* Any error of the insert is taken for a duplicate: a row that is there, and
\* a database that refuses a new one.
InsertError(w) ==
  /\ At(w, "read")
  /\ refused' = IF HasRow(EventOf(w)) THEN refused ELSE refused \cup {Current(w)}
  /\ Ack(w)
  /\ UNCHANGED <<streamVars, delivered, rowVars, deserted>>

\* All tokens of the driver are tried; the outcome, which the row's delivery
\* status records at best, changes nothing for the message.
DispatchPush(w) ==
  /\ At(w, "stored")
  /\ pushes' = [pushes EXCEPT ![EventOf(w)] = @ + 1]
  /\ stage' = [stage EXCEPT ![w] = "pushed"]
  /\ UNCHANGED <<streamVars, delivered, pending, todo, rows, lossVars, faults>>

Processed(w) ==
  /\ At(w, "pushed")
  /\ Ack(w)
  /\ UNCHANGED <<streamVars, delivered, rowVars, lossVars>>

Crash(w) ==
  /\ faults < MaxFaults /\ faults' = faults + 1
  /\ todo[w] # <<>>
  /\ todo' = [todo EXCEPT ![w] = <<>>]
  /\ stage' = [stage EXCEPT ![w] = "read"]
  /\ deserted' = IF At(w, "stored") THEN deserted \cup {EventOf(w)} ELSE deserted
  /\ UNCHANGED <<streamVars, delivered, pending, rowVars, refused>>

-----------------------------------------------------------------------------
Init ==
  /\ StreamInit
  /\ delivered = 0 /\ pending = {}
  /\ todo = [w \in Worker |-> <<>>]
  /\ stage = [w \in Worker |-> "read"]
  /\ rows = {}
  /\ pushes = [e \in Event |-> 0]
  /\ refused = {} /\ deserted = {}
  /\ faults = 0

\* Room is kept for the events that have not been published yet.
Produce ==
  /\ UNCHANGED groupVars
  /\ \E e \in Event :
       \/ Enqueue(e)
       \/ /\ Len(stream) + Cardinality((Event \ Streamed) \ {e}) < MaxStream
          /\ Publish(e)

Process(w) == Insert(w) \/ InsertError(w) \/ DispatchPush(w) \/ Processed(w)

Next ==
  \/ Produce
  \/ \E w \in Poller : Poll(w)
  \/ \E w \in Reclaimer : DoReclaim(w)
  \/ \E w \in Worker : Process(w) \/ Crash(w)

Spec == Init /\ [][Next]_vars

\* Workers keep reading, reclaiming and processing; the producer need not go on.
FairSpec ==
  /\ Spec
  /\ \A w \in Poller : WF_vars(Poll(w) \/ Process(w))
  /\ \A w \in Reclaimer : WF_vars(DoReclaim(w) \/ Process(w))

-----------------------------------------------------------------------------
(* What a worker has in hand has been read by the group, and a read takes  *)
(* no more than BatchSize messages.                                        *)
ConsumerTypeOK ==
  /\ outbox \subseteq Event /\ stream \in Seq(Event)
  /\ delivered \in 0..Len(stream) /\ pending \subseteq 1..delivered
  /\ todo \in [Worker -> Seq(1..delivered)]
  /\ \A w \in Worker : Len(todo[w]) <= BatchSize
  /\ stage \in [Worker -> {"read", "stored", "pushed"}]
  /\ rows \subseteq Event
  /\ pushes \in [Event -> Nat]
  /\ refused \subseteq 1..delivered /\ deserted \subseteq Event
  /\ faults \in 0..MaxFaults

\* An acknowledged message is not coming back, so its event was pushed, or is
\* about to be by the worker that stored it, not always the one that
\* acknowledged.  What is lost is lost in two ways: the database refused the
\* message's row, or a worker died between the row and the push.
AckedIsHandled ==
  \A m \in (1..delivered) \ pending :
    \/ m \in refused \/ stream[m] \in deserted
    \/ pushes[stream[m]] = 1
    \/ \E w \in Worker : At(w, "stored") /\ EventOf(w) = stream[m]

\* The push of an event is dispatched at most once, although events repeat
\* on the stream and messages are reclaimed from workers that are alive.
PushedOnce == \A e \in Event : pushes[e] <= 1

\* The event of every message on the stream becomes a notification, although
\* workers crash with messages in hand and XACKs fail, unless the database
\* refused a row for just that message.
EveryEventNotified == \A m \in 1..MaxStream :
  m <= Len(stream) ~> m <= Len(stream) /\ (HasRow(stream[m]) \/ m \in refused)

=============================================================================
