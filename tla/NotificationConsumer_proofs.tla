---------------------- MODULE NotificationConsumer_proofs ----------------------
(***************************************************************************)
(* What is acknowledged is handled or lost in one of two ways, and nothing *)
(* is pushed twice, for any number of workers, events, crashes, refused    *)
(* rows and reclaimed messages.                                            *)
(***************************************************************************)
EXTENDS NotificationConsumer, SequenceTheorems, TLAPS

USE EventAssumption, ConsumerAssumption

-----------------------------------------------------------------------------
(* The inductive invariant. *)

\* A worker with nothing in hand is about to read, and the event of a message
\* it is past inserting has its row.
HandsOK ==
  \A w \in Worker :
    /\ todo[w] = <<>> => stage[w] = "read"
    /\ At(w, "stored") \/ At(w, "pushed") => HasRow(EventOf(w))

\* Whoever has inserted the row of an event is the only one to push it.
PushesOK ==
  /\ \A e \in Event : ~HasRow(e) => pushes[e] = 0
  /\ \A w \in Worker : At(w, "stored") =>
       /\ pushes[EventOf(w)] = 0
       /\ \A v \in Worker : v # w /\ At(v, "stored") => EventOf(v) # EventOf(w)

\* Every row has been pushed, or has a worker who will, or lost it.
RowsHandled == \A e \in rows :
  \/ e \in deserted \/ pushes[e] = 1
  \/ \E w \in Worker : At(w, "stored") /\ EventOf(w) = e

\* An acknowledged message has its row or was refused one.
AckedHasRow == \A m \in (1..delivered) \ pending : m \in refused \/ HasRow(stream[m])

IInv == ConsumerTypeOK /\ HandsOK /\ PushesOK /\ PushedOnce /\ RowsHandled /\ AckedHasRow

-----------------------------------------------------------------------------
LEMMA InitOK == Init => IInv
<1> SUFFICES ASSUME Init PROVE IInv OBVIOUS
<1> USE DEF Init, StreamInit
<1>1. <<>> \in Seq(Event) /\ <<>> \in Seq(1..0) /\ Len(<<>>) = 0 OBVIOUS
<1>2. ConsumerTypeOK BY <1>1 DEF ConsumerTypeOK
<1>3. HandsOK BY DEF HandsOK, At
<1>4. PushesOK BY DEF PushesOK, At, HasRow
<1>5. PushedOnce BY DEF PushedOnce
<1>6. RowsHandled BY DEF RowsHandled
<1>7. AckedHasRow BY DEF AckedHasRow
<1> QED BY <1>2, <1>3, <1>4, <1>5, <1>6, <1>7 DEF IInv

\* The message in hand has been read by the group, its event is one.
LEMMA InHand ==
  ASSUME ConsumerTypeOK, NEW w \in Worker, todo[w] # <<>>
  PROVE  /\ Current(w) \in 1..delivered /\ EventOf(w) \in Event
         /\ Current(w) \in 1..Len(stream)
         /\ Tail(todo[w]) \in Seq(1..delivered) /\ Len(Tail(todo[w])) <= BatchSize
<1>1. todo[w] \in Seq(1..delivered) /\ Len(todo[w]) <= BatchSize /\ Len(todo[w]) \in Nat
  BY LenProperties DEF ConsumerTypeOK
<1>2. /\ Current(w) \in 1..delivered /\ Tail(todo[w]) \in Seq(1..delivered)
      /\ Len(Tail(todo[w])) = Len(todo[w]) - 1
  BY <1>1, HeadTailProperties DEF Current
<1>3. Len(stream) \in Nat /\ delivered \in 0..Len(stream) BY LenProperties DEF ConsumerTypeOK
<1>4. Current(w) \in 1..Len(stream) BY <1>2, <1>3
<1>5. EventOf(w) \in Event BY <1>4, ElementOfSeq DEF EventOf, ConsumerTypeOK
<1> QED BY <1>1, <1>2, <1>4, <1>5, <1>3 DEF ConsumerTypeOK

-----------------------------------------------------------------------------
(* Groups of steps.  The producer only appends to the stream; a worker takes *)
(* up messages; a worker leaves its current message.                         *)

Grown ==
  /\ outbox' \subseteq Event /\ stream' \in Seq(Event) /\ Len(stream) <= Len(stream')
  /\ \A m \in 1..Len(stream) : stream'[m] = stream[m]
  /\ UNCHANGED groupVars

LEMMA ProduceGrows == ASSUME ConsumerTypeOK, Produce PROVE Grown
<1>1. ASSUME NEW e \in Event, Enqueue(e), UNCHANGED groupVars PROVE Grown
  BY <1>1, LenProperties DEF Enqueue, Grown, ConsumerTypeOK
<1>2. ASSUME NEW e \in Event, Publish(e), UNCHANGED groupVars PROVE Grown
  <2>1. stream' = Append(stream, e) /\ UNCHANGED outbox BY <1>2 DEF Publish
  <2>2. /\ stream' \in Seq(Event) /\ Len(stream') = Len(stream) + 1
        /\ \A m \in 1..Len(stream) : stream'[m] = stream[m]
    BY <2>1, AppendProperties DEF ConsumerTypeOK
  <2>3. Len(stream) \in Nat BY LenProperties DEF ConsumerTypeOK
  <2> QED BY <1>2, <2>1, <2>2, <2>3 DEF Grown, ConsumerTypeOK
<1> QED BY <1>1, <1>2 DEF Produce

TakesUp(w) ==
  /\ todo[w] = <<>> /\ \E q \in Seq(1..delivered') :
       Len(q) <= BatchSize /\ todo' = [todo EXCEPT ![w] = q]
  /\ delivered' \in delivered..Len(stream)
  /\ pending' \subseteq 1..delivered'
  /\ pending \cup ((delivered + 1)..delivered') \subseteq pending'
  /\ UNCHANGED <<streamVars, stage, rowVars, lossVars, faults>>

LEMMA PollTakesUp == ASSUME ConsumerTypeOK, NEW w \in Worker, Poll(w) PROVE TakesUp(w)
<1> DEFINE n == ReadSize  q == [i \in 1..n |-> delivered + i]
<1>1. Len(stream) \in Nat /\ delivered \in 0..Len(stream) BY LenProperties DEF ConsumerTypeOK
<1>2. n \in Nat /\ n <= BatchSize /\ delivered + n <= Len(stream) BY <1>1 DEF ReadSize
<1>3. /\ todo[w] = <<>> /\ todo' = [todo EXCEPT ![w] = q]
      /\ delivered' = delivered + n
      /\ pending' = pending \cup (delivered + 1)..(delivered + n)
      /\ UNCHANGED <<streamVars, stage, rowVars, lossVars, faults>>
  BY DEF Poll
<1> HIDE DEF n
<1>4. q \in Seq(1..delivered') /\ Len(q) = n BY <1>1, <1>2, <1>3
<1>5. pending' \subseteq 1..delivered' BY <1>1, <1>2, <1>3 DEF ConsumerTypeOK
<1>6. pending \cup ((delivered + 1)..delivered') \subseteq pending' BY <1>3
<1>7. delivered' \in delivered..Len(stream) BY <1>1, <1>2, <1>3
<1> HIDE DEF q
<1>8. \E r \in Seq(1..delivered') : Len(r) <= BatchSize /\ todo' = [todo EXCEPT ![w] = r]
  BY <1>2, <1>3, <1>4
<1> QED BY <1>3, <1>5, <1>6, <1>7, <1>8 DEF TakesUp

LEMMA ReclaimTakesUp ==
  ASSUME ConsumerTypeOK, NEW w \in Worker, DoReclaim(w) PROVE TakesUp(w)
<1>1. PICK m \in pending : todo' = [todo EXCEPT ![w] = <<m>>] BY DEF DoReclaim
<1>2. todo[w] = <<>> /\ UNCHANGED <<streamVars, delivered, pending, stage, rowVars, lossVars, faults>>
  BY DEF DoReclaim
<1>3. Len(stream) \in Nat /\ delivered \in 0..Len(stream) BY LenProperties DEF ConsumerTypeOK
<1>4. <<m>> \in Seq(1..delivered') /\ Len(<<m>>) = 1 BY <1>2 DEF ConsumerTypeOK
<1>5. \E r \in Seq(1..delivered') : Len(r) <= BatchSize /\ todo' = [todo EXCEPT ![w] = r]
  <2>1. 1 <= BatchSize OBVIOUS
  <2> DEFINE r == <<m>>
  <2>2. r \in Seq(1..delivered') /\ Len(r) <= BatchSize /\ todo' = [todo EXCEPT ![w] = r]
    BY <1>1, <1>4, <2>1
  <2> HIDE DEF r
  <2> QED BY <2>2
<1>6. pending' \subseteq 1..delivered' BY <1>2 DEF ConsumerTypeOK
<1>7. delivered' \in delivered..Len(stream) BY <1>2, <1>3
<1>8. (delivered + 1)..delivered' = {} BY <1>2, <1>3
<1> QED BY <1>2, <1>5, <1>6, <1>7, <1>8 DEF TakesUp

\* The worker drops its current message, or all it has in hand.  It
\* acknowledges the current one at most, and only if the event has its row or
\* was refused one.  The event of a row it leaves unpushed is deserted.
Leaves(w) ==
  /\ \E q \in Seq(1..delivered) : Len(q) <= BatchSize /\ todo' = [todo EXCEPT ![w] = q]
  /\ stage' = [stage EXCEPT ![w] = "read"]
  /\ pending' \subseteq pending /\ faults' \in 0..MaxFaults
  /\ refused \subseteq refused' /\ refused' \subseteq 1..delivered
  /\ deserted \subseteq deserted' /\ deserted' \subseteq Event
  /\ At(w, "stored") => EventOf(w) \in deserted'
  /\ \A m \in pending \ pending' : m \in refused' \/ HasRow(stream[m])
  /\ UNCHANGED <<streamVars, delivered, rowVars>>

LEMMA AckLeaves ==
  ASSUME ConsumerTypeOK, NEW w \in Worker, todo[w] # <<>>, ~At(w, "stored"), Ack(w),
         refused \subseteq refused', refused' \subseteq refused \cup {Current(w)},
         Current(w) \in refused' \/ HasRow(EventOf(w)),
         deserted' = deserted, UNCHANGED <<streamVars, delivered, rowVars>>
  PROVE  Leaves(w)
<1>1. faults' \in 0..MaxFaults BY DEF Ack, ConsumerTypeOK
<1>2. pending' \subseteq pending BY DEF Ack
<1>3. \A m \in pending \ pending' : m \in refused' \/ HasRow(stream[m]) BY DEF Ack, EventOf
<1>4. todo' = [todo EXCEPT ![w] = Tail(todo[w])] BY DEF Ack, ConsumerTypeOK
<1>5. stage' = [stage EXCEPT ![w] = "read"] BY DEF Ack
<1>6. refused' \subseteq 1..delivered /\ deserted' \subseteq Event BY InHand DEF ConsumerTypeOK
<1> QED BY <1>1, <1>2, <1>3, <1>4, <1>5, <1>6, InHand DEF Leaves

LEMMA CrashLeaves == ASSUME ConsumerTypeOK, NEW w \in Worker, Crash(w) PROVE Leaves(w)
<1>1. <<>> \in Seq(1..delivered) /\ Len(<<>>) = 0 OBVIOUS
<1>2. faults' \in 0..MaxFaults BY DEF Crash, ConsumerTypeOK
<1>3. /\ todo' = [todo EXCEPT ![w] = <<>>] /\ stage' = [stage EXCEPT ![w] = "read"]
      /\ pending' = pending /\ refused' = refused /\ UNCHANGED <<streamVars, delivered, rowVars>>
  BY DEF Crash
<1>4. \E q \in Seq(1..delivered) : Len(q) <= BatchSize /\ todo' = [todo EXCEPT ![w] = q]
  <2>1. Len(<<>>) <= BatchSize BY <1>1
  <2> QED BY <1>1, <1>3, <2>1
<1>5. /\ deserted \subseteq deserted' /\ deserted' \subseteq Event
      /\ At(w, "stored") => EventOf(w) \in deserted'
  <2>1. deserted' = IF At(w, "stored") THEN deserted \cup {EventOf(w)} ELSE deserted BY DEF Crash
  <2>2. EventOf(w) \in Event BY InHand DEF Crash
  <2> QED BY <2>1, <2>2 DEF ConsumerTypeOK
<1>6. refused \subseteq 1..delivered BY DEF ConsumerTypeOK
<1> QED BY <1>2, <1>3, <1>4, <1>5, <1>6 DEF Leaves

LEMMA Steps ==
  ASSUME ConsumerTypeOK, HandsOK, [Next]_vars
  PROVE  \/ Grown \/ UNCHANGED vars
         \/ \E w \in Worker : TakesUp(w) \/ Leaves(w) \/ Insert(w) \/ DispatchPush(w)
<1>1. ASSUME NEW w \in Worker, InsertError(w) PROVE Leaves(w)
  <2>1. /\ todo[w] # <<>> /\ ~At(w, "stored") /\ Ack(w) /\ deserted' = deserted
        /\ UNCHANGED <<streamVars, delivered, rowVars>>
        /\ refused' = IF HasRow(EventOf(w)) THEN refused ELSE refused \cup {Current(w)}
    BY <1>1 DEF InsertError, At
  <2> QED BY <2>1, AckLeaves
<1>2. ASSUME NEW w \in Worker, Processed(w) PROVE Leaves(w)
  <2>1. /\ todo[w] # <<>> /\ ~At(w, "stored") /\ Ack(w) /\ HasRow(EventOf(w))
        /\ deserted' = deserted /\ refused' = refused
        /\ UNCHANGED <<streamVars, delivered, rowVars>>
    BY <1>2 DEF Processed, At, HandsOK, lossVars
  <2> QED BY <2>1, AckLeaves
<1> QED BY <1>1, <1>2, ProduceGrows, PollTakesUp, ReclaimTakesUp, CrashLeaves
        DEF Next, Process, Worker

-----------------------------------------------------------------------------
(* Most steps are calm: they store and push nothing, and bring no worker   *)
(* past its insert; who leaves a row unpushed deserts it.                  *)

Calm ==
  /\ UNCHANGED rowVars
  /\ deserted \subseteq deserted'
  /\ \A v \in Worker : At(v, "stored") =>
       \/ EventOf(v) \in deserted'
       \/ At(v, "stored")' /\ EventOf(v)' = EventOf(v)
  /\ \A v \in Worker : \A s \in {"stored", "pushed"} :
       At(v, s)' => At(v, s) /\ EventOf(v)' = EventOf(v)

LEMMA CalmKeeps ==
  ASSUME IInv, Calm
  PROVE  /\ PushesOK' /\ PushedOnce' /\ RowsHandled'
         /\ \A v \in Worker : (At(v, "stored") \/ At(v, "pushed"))' => HasRow(EventOf(v))'
<1>1. UNCHANGED <<rows, pushes>> BY DEF Calm, rowVars
<1>2. PushedOnce' BY <1>1 DEF IInv, PushedOnce
<1>3. \A v \in Worker : (At(v, "stored") \/ At(v, "pushed"))' => HasRow(EventOf(v))'
  BY <1>1 DEF IInv, HandsOK, Calm, HasRow
<1>4. \A e \in Event : ~HasRow(e)' => pushes'[e] = 0 BY <1>1 DEF IInv, PushesOK, HasRow
<1>5. \A v \in Worker : At(v, "stored")' =>
        /\ pushes'[EventOf(v)'] = 0
        /\ \A u \in Worker : u # v /\ At(u, "stored")' => EventOf(u)' # EventOf(v)'
  BY <1>1 DEF IInv, PushesOK, Calm
<1>6. ASSUME NEW e \in rows'
      PROVE  \/ e \in deserted' \/ pushes'[e] = 1
             \/ \E v \in Worker : At(v, "stored")' /\ EventOf(v)' = e
  <2>1. e \in rows /\ deserted \subseteq deserted' BY <1>1, <1>6 DEF Calm
  <2>2. CASE e \in deserted \/ pushes[e] = 1 BY <1>1, <2>1, <2>2
  <2>3. ASSUME NEW v \in Worker, At(v, "stored"), EventOf(v) = e
        PROVE  e \in deserted' \/ \E u \in Worker : At(u, "stored")' /\ EventOf(u)' = e
    BY <2>3 DEF Calm
  <2> QED BY <2>1, <2>2, <2>3 DEF IInv, RowsHandled
<1> QED BY <1>2, <1>3, <1>4, <1>5, <1>6 DEF PushesOK, RowsHandled

LEMMA GrownKeeps == ASSUME IInv, Grown PROVE IInv'
<1> USE DEF IInv
<1>0. UNCHANGED <<delivered, pending, todo, stage, rows, pushes, refused, deserted, faults>>
  BY DEF Grown, groupVars, rowVars, lossVars
<1>1. ConsumerTypeOK'
  <2>1. Len(stream) \in Nat /\ Len(stream') \in Nat /\ Len(stream) <= Len(stream')
    BY LenProperties DEF ConsumerTypeOK, Grown
  <2>2. delivered' \in 0..Len(stream') BY <1>0, <2>1 DEF ConsumerTypeOK
  <2> QED BY <1>0, <2>2 DEF ConsumerTypeOK, Grown
<1>2. \A v \in Worker : todo[v] # <<>> => EventOf(v)' = EventOf(v)
  BY <1>0, InHand DEF Grown, EventOf, Current
<1>3. Calm BY <1>0, <1>2 DEF Calm, At, rowVars
<1>4. \A v \in Worker : todo'[v] = <<>> => stage'[v] = "read" BY <1>0 DEF HandsOK
<1>5. AckedHasRow'
  <2>1. Len(stream) \in Nat /\ delivered \in 0..Len(stream) BY LenProperties DEF ConsumerTypeOK
  <2>2. \A m \in 1..delivered : m \in 1..Len(stream) BY <2>1
  <2> QED BY <1>0, <2>2 DEF AckedHasRow, HasRow, Grown
<1> QED BY <1>1, <1>3, <1>4, <1>5, CalmKeeps DEF HandsOK

LEMMA TakesUpKeeps == ASSUME IInv, NEW w \in Worker, TakesUp(w) PROVE IInv'
<1> USE DEF IInv
<1>0. UNCHANGED <<outbox, stream, stage, rows, pushes, refused, deserted, faults>>
  BY DEF TakesUp, rowVars, streamVars, lossVars
<1>1. PICK q \in Seq(1..delivered') : Len(q) <= BatchSize /\ todo' = [todo EXCEPT ![w] = q]
  BY DEF TakesUp
<1>2. \A v \in Worker : v # w => todo'[v] = todo[v] BY <1>1 DEF ConsumerTypeOK
<1>3. stage'[w] = "read" BY <1>0 DEF TakesUp, HandsOK
<1>4. ConsumerTypeOK'
  <2>1. Len(stream) \in Nat /\ delivered \in Nat /\ delivered' \in delivered..Len(stream)
    BY LenProperties DEF ConsumerTypeOK, TakesUp
  <2>2. 1..delivered \subseteq 1..delivered' /\ delivered' \in 0..Len(stream') BY <1>0, <2>1
  <2>3. ASSUME NEW v \in Worker PROVE todo[v] \in Seq(1..delivered') /\ Len(todo[v]) <= BatchSize
    <3>1. todo[v] \in Seq(1..delivered) /\ Len(todo[v]) <= BatchSize BY DEF ConsumerTypeOK
    <3> QED BY <2>2, <3>1, SeqMonotonic
  <2>4. todo' \in [Worker -> Seq(1..delivered')] BY <1>1, <2>3 DEF ConsumerTypeOK
  <2>5. \A v \in Worker : Len(todo'[v]) <= BatchSize BY <1>1, <2>3 DEF ConsumerTypeOK
  <2> QED BY <1>0, <2>2, <2>4, <2>5 DEF ConsumerTypeOK, TakesUp
<1>5. Calm
  <2>1. ~At(w, "stored") BY DEF TakesUp, At
  <2> QED BY <1>0, <1>2, <1>3, <2>1 DEF Calm, At, EventOf, Current, rowVars
<1>6. \A v \in Worker : todo'[v] = <<>> => stage'[v] = "read" BY <1>0, <1>2, <1>3 DEF HandsOK
<1>7. AckedHasRow'
  <2>1. ASSUME NEW m \in (1..delivered') \ pending' PROVE m \in (1..delivered) \ pending
    <3>1. delivered \in Nat /\ delivered' \in Nat BY LenProperties DEF ConsumerTypeOK, TakesUp
    <3>2. m \notin pending /\ m \notin (delivered + 1)..delivered' BY DEF TakesUp
    <3> QED BY <3>1, <3>2
  <2> QED BY <1>0, <2>1 DEF AckedHasRow, HasRow
<1> QED BY <1>4, <1>5, <1>6, <1>7, CalmKeeps DEF HandsOK

LEMMA LeavesKeeps == ASSUME IInv, NEW w \in Worker, Leaves(w) PROVE IInv'
<1> USE DEF IInv
<1>0. UNCHANGED <<outbox, stream, delivered, rows, pushes>>
  BY DEF Leaves, rowVars, streamVars
<1>1. PICK q \in Seq(1..delivered) : Len(q) <= BatchSize /\ todo' = [todo EXCEPT ![w] = q]
  BY DEF Leaves
<1>2. \A v \in Worker : v # w => todo'[v] = todo[v] /\ stage'[v] = stage[v]
  BY <1>1 DEF ConsumerTypeOK, Leaves
<1>3. stage'[w] = "read" BY DEF ConsumerTypeOK, Leaves
<1>4. ConsumerTypeOK'
  <2>1. todo' \in [Worker -> Seq(1..delivered')] BY <1>0, <1>1 DEF ConsumerTypeOK
  <2>2. \A v \in Worker : Len(todo'[v]) <= BatchSize BY <1>1 DEF ConsumerTypeOK
  <2>3. stage' \in [Worker -> {"read", "stored", "pushed"}] BY DEF ConsumerTypeOK, Leaves
  <2>4. /\ pending' \subseteq 1..delivered' /\ faults' \in 0..MaxFaults
        /\ refused' \subseteq 1..delivered' /\ deserted' \subseteq Event
    BY <1>0 DEF ConsumerTypeOK, Leaves
  <2> QED BY <1>0, <2>1, <2>2, <2>3, <2>4 DEF ConsumerTypeOK
<1>5. Calm
  <2>1. deserted \subseteq deserted' /\ (At(w, "stored") => EventOf(w) \in deserted') BY DEF Leaves
  <2> QED BY <1>0, <1>2, <1>3, <2>1 DEF Calm, At, EventOf, Current, rowVars
<1>6. \A v \in Worker : todo'[v] = <<>> => stage'[v] = "read" BY <1>2, <1>3 DEF HandsOK
<1>7. AckedHasRow' BY <1>0 DEF AckedHasRow, HasRow, Leaves
<1> QED BY <1>4, <1>5, <1>6, <1>7, CalmKeeps DEF HandsOK

-----------------------------------------------------------------------------
(* The two steps of a new event. *)

\* Only a worker that finds no row inserts one, and becomes the only one to
\* have the push of the event before it.
LEMMA InsertKeeps == ASSUME IInv, NEW w \in Worker, Insert(w) PROVE IInv'
<1> USE DEF IInv
<1> DEFINE e == EventOf(w)
<1>0. /\ At(w, "read") /\ ~HasRow(e) /\ rows' = rows \cup {e}
      /\ stage' = [stage EXCEPT ![w] = "stored"]
      /\ UNCHANGED <<outbox, stream, delivered, pending, todo, pushes, refused, deserted, faults>>
  BY DEF Insert, streamVars, lossVars
<1>1. todo[w] # <<>> /\ e \in Event BY <1>0, InHand DEF At
<1>2. \A v \in Worker : EventOf(v)' = EventOf(v) BY <1>0 DEF EventOf, Current
<1> HIDE DEF e
<1>3. stage'[w] = "stored" /\ \A v \in Worker : v # w => stage'[v] = stage[v]
  BY <1>0 DEF ConsumerTypeOK
<1>4. ConsumerTypeOK' BY <1>0, <1>1 DEF ConsumerTypeOK
<1>5. \A v \in Worker : v # w => At(v, "stored")' = At(v, "stored") /\ At(v, "pushed")' = At(v, "pushed")
  BY <1>0, <1>3 DEF At
<1>6. HandsOK'
  <2>1. ASSUME NEW v \in Worker, (At(v, "stored") \/ At(v, "pushed"))' PROVE HasRow(EventOf(v))'
    <3>1. CASE v = w BY <3>1, <1>0, <1>2 DEF HasRow, e
    <3>2. CASE v # w BY <2>1, <3>2, <1>0, <1>2, <1>5 DEF HasRow, HandsOK
    <3> QED BY <3>1, <3>2
  <2>2. \A v \in Worker : todo'[v] = <<>> => stage'[v] = "read" BY <1>0, <1>1, <1>3 DEF HandsOK
  <2> QED BY <2>1, <2>2 DEF HandsOK
<1>7. PushesOK'
  <2>1. pushes[e] = 0 BY <1>0, <1>1 DEF PushesOK
  <2>2. \A v \in Worker : v # w /\ At(v, "stored")' => EventOf(v) # e
    BY <1>0, <1>5 DEF HandsOK, HasRow
  <2>3. \A d \in Event : ~HasRow(d)' => pushes'[d] = 0 BY <1>0 DEF PushesOK, HasRow
  <2>4. ASSUME NEW v \in Worker, At(v, "stored")' PROVE pushes'[EventOf(v)'] = 0
    <3>1. CASE v = w BY <3>1, <1>0, <1>2, <2>1 DEF e
    <3>2. CASE v # w BY <2>4, <3>2, <1>0, <1>2, <1>5 DEF PushesOK
    <3> QED BY <3>1, <3>2
  <2>5. ASSUME NEW v \in Worker, At(v, "stored")', NEW u \in Worker, u # v, At(u, "stored")'
        PROVE  EventOf(u)' # EventOf(v)'
    <3>1. CASE v = w BY <3>1, <2>5, <1>2, <2>2 DEF e
    <3>2. CASE u = w BY <3>2, <2>5, <1>2, <2>2 DEF e
    <3>3. CASE v # w /\ u # w BY <3>3, <2>5, <1>2, <1>5 DEF PushesOK
    <3> QED BY <3>1, <3>2, <3>3
  <2> QED BY <2>3, <2>4, <2>5 DEF PushesOK
<1>8. PushedOnce' BY <1>0 DEF PushedOnce
<1>9. RowsHandled'
  <2> SUFFICES ASSUME NEW d \in rows'
               PROVE  \/ d \in deserted' \/ pushes'[d] = 1
                      \/ \E v \in Worker : At(v, "stored")' /\ EventOf(v)' = d
    BY DEF RowsHandled
  <2>1. CASE d = e
    <3>1. At(w, "stored")' /\ EventOf(w)' = e BY <1>0, <1>1, <1>2, <1>3 DEF At, e
    <3> QED BY <2>1, <3>1
  <2>2. CASE d \in rows
    <3>1. ASSUME NEW v \in Worker, At(v, "stored"), EventOf(v) = d
          PROVE  At(v, "stored")' /\ EventOf(v)' = d
      <4>1. v # w BY <1>0, <3>1 DEF At
      <4> QED BY <1>2, <1>5, <3>1, <4>1
    <3> QED BY <1>0, <2>2, <3>1 DEF RowsHandled
  <2> QED BY <1>0, <2>1, <2>2
<1>10. AckedHasRow' BY <1>0 DEF AckedHasRow, HasRow
<1> QED BY <1>4, <1>6, <1>7, <1>8, <1>9, <1>10

LEMMA DispatchKeeps == ASSUME IInv, NEW w \in Worker, DispatchPush(w) PROVE IInv'
<1> USE DEF IInv
<1> DEFINE e == EventOf(w)
<1>0. /\ At(w, "stored") /\ pushes' = [pushes EXCEPT ![e] = @ + 1]
      /\ stage' = [stage EXCEPT ![w] = "pushed"]
      /\ UNCHANGED <<outbox, stream, delivered, pending, todo, rows, refused, deserted, faults>>
  BY DEF DispatchPush, streamVars, lossVars
<1>1. todo[w] # <<>> /\ e \in Event BY <1>0, InHand DEF At
<1>2. \A v \in Worker : EventOf(v)' = EventOf(v) BY <1>0 DEF EventOf, Current
<1>3. pushes[e] = 0 /\ HasRow(e) BY <1>0 DEF PushesOK, HandsOK
<1>4. \A v \in Worker : v # w /\ At(v, "stored") => EventOf(v) # e BY <1>0 DEF PushesOK
<1> HIDE DEF e
<1>5. stage'[w] = "pushed" /\ \A v \in Worker : v # w => stage'[v] = stage[v]
  BY <1>0 DEF ConsumerTypeOK
<1>6. pushes'[e] = 1 /\ \A d \in Event : d # e => pushes'[d] = pushes[d]
  BY <1>0, <1>1, <1>3 DEF ConsumerTypeOK
<1>7. ConsumerTypeOK'
  <2>1. pushes' \in [Event -> Nat] BY <1>0, <1>1, <1>3 DEF ConsumerTypeOK
  <2>2. stage' \in [Worker -> {"read", "stored", "pushed"}] BY <1>0 DEF ConsumerTypeOK
  <2> QED BY <1>0, <2>1, <2>2 DEF ConsumerTypeOK
<1>8. \A v \in Worker :
        /\ At(v, "stored")' => v # w /\ At(v, "stored")
        /\ At(v, "pushed")' => v = w \/ At(v, "pushed")
  BY <1>0, <1>5 DEF At
<1>9. HandsOK'
  <2>1. \A v \in Worker : (At(v, "stored") \/ At(v, "pushed"))' => HasRow(EventOf(v))'
    BY <1>0, <1>2, <1>3, <1>8 DEF HandsOK, HasRow, e
  <2>2. \A v \in Worker : todo'[v] = <<>> => stage'[v] = "read" BY <1>0, <1>1, <1>5 DEF HandsOK
  <2> QED BY <2>1, <2>2 DEF HandsOK
<1>10. PushesOK'
  <2>1. \A d \in Event : ~HasRow(d)' => pushes'[d] = 0
    BY <1>0, <1>3, <1>6 DEF PushesOK, HasRow
  <2>2. ASSUME NEW v \in Worker, At(v, "stored")'
        PROVE  /\ pushes'[EventOf(v)'] = 0
               /\ \A u \in Worker : u # v /\ At(u, "stored")' => EventOf(u)' # EventOf(v)'
    <3>1. v # w /\ At(v, "stored") /\ EventOf(v) # e BY <2>2, <1>4, <1>8
    <3>2. EventOf(v) \in Event BY <3>1, InHand DEF At
    <3>3. pushes[EventOf(v)] = 0 BY <3>1 DEF PushesOK
    <3>4. \A u \in Worker : u # v /\ At(u, "stored")' => EventOf(u)' # EventOf(v)'
      BY <3>1, <1>2, <1>8 DEF PushesOK
    <3> QED BY <3>1, <3>2, <3>3, <3>4, <1>2, <1>6
  <2> QED BY <2>1, <2>2 DEF PushesOK
<1>11. PushedOnce' BY <1>6 DEF PushedOnce
<1>12. RowsHandled'
  <2> SUFFICES ASSUME NEW d \in rows, d # e
               PROVE  \/ d \in deserted' \/ pushes'[d] = 1
                      \/ \E v \in Worker : At(v, "stored")' /\ EventOf(v)' = d
    BY <1>0, <1>6 DEF RowsHandled
  <2>1. pushes'[d] = pushes[d] BY <1>6 DEF ConsumerTypeOK
  <2>2. ASSUME NEW v \in Worker, At(v, "stored"), EventOf(v) = d
        PROVE  At(v, "stored")' /\ EventOf(v)' = d
    <3>1. v # w BY <2>2 DEF e
    <3> QED BY <1>0, <1>2, <1>5, <2>2, <3>1 DEF At
  <2> QED BY <1>0, <2>1, <2>2 DEF RowsHandled
<1>13. AckedHasRow' BY <1>0 DEF AckedHasRow, HasRow
<1> QED BY <1>7, <1>9, <1>10, <1>11, <1>12, <1>13

-----------------------------------------------------------------------------
LEMMA NextKeeps == ASSUME IInv, [Next]_vars PROVE IInv'
<1>1. CASE UNCHANGED vars
  BY <1>1 DEF IInv, vars, groupVars, streamVars, rowVars, lossVars, ConsumerTypeOK, HandsOK, PushesOK,
              PushedOnce, RowsHandled, AckedHasRow, At, EventOf, Current, HasRow
<1> QED BY <1>1, Steps, GrownKeeps, TakesUpKeeps, LeavesKeeps, InsertKeeps, DispatchKeeps DEF IInv

THEOREM IInvHolds == Spec => []IInv
<1>1. IInv /\ [Next]_vars => IInv' BY NextKeeps
<1> QED BY InitOK, <1>1, PTL DEF Spec

\* What a worker has in hand has been read by the group, no read exceeds the
\* batch size, and the stages, rows and counters are well formed.
THEOREM ConsumerTypeCorrect == Spec => []ConsumerTypeOK
<1>1. IInv => ConsumerTypeOK BY DEF IInv
<1> QED BY <1>1, IInvHolds, PTL

\* However often an event is repeated on the stream, read and reclaimed, its
\* push is dispatched once at most.
THEOREM PushedAtMostOnce == Spec => []PushedOnce
<1>1. IInv => PushedOnce BY DEF IInv
<1> QED BY <1>1, IInvHolds, PTL

\* What is acknowledged is pushed, or about to be, but for a row that the
\* database refused and a row whose worker died before the push: a message of
\* an event that another worker has in hand is never lost with that worker
\* otherwise.
THEOREM AcknowledgedIsHandled == Spec => []AckedIsHandled
<1>1. ASSUME IInv, NEW m \in (1..delivered) \ pending, m \notin refused
      PROVE  \/ stream[m] \in deserted \/ pushes[stream[m]] = 1
             \/ \E w \in Worker : At(w, "stored") /\ EventOf(w) = stream[m]
  <2>1. stream[m] \in rows BY <1>1 DEF IInv, AckedHasRow, HasRow
  <2> QED BY <1>1, <2>1 DEF IInv, RowsHandled
<1>2. IInv => AckedIsHandled BY <1>1 DEF AckedIsHandled
<1> QED BY <1>2, IInvHolds, PTL

=============================================================================
