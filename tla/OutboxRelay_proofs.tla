------------------------- MODULE OutboxRelay_proofs -------------------------
(***************************************************************************)
(* The outbox relays, however many and whatever fails, implement the       *)
(* stream of AtLeastOnceStream.                                            *)
(***************************************************************************)
EXTENDS OutboxRelay, SequenceTheorems, FiniteSetTheorems, TLAPS

USE EventAssumption, RelayAssumption

-----------------------------------------------------------------------------
(* The inductive invariant. *)

\* The outbox is finite, and holds the earlier events of each of its events.
OutboxOK == IsFiniteSet(outbox) /\ \A e \in outbox : EarlierOf(e) \subseteq outbox

\* What is marked, or about to be, is on the stream.
MarkedOK == published \subseteq Streamed /\ \A r \in Relay : sent[r] \subseteq Streamed

\* An earlier event of one in a batch is on the stream or ahead of it there.
BatchesOK ==
  \A r \in Relay : \A i \in 1..Len(batch[r]) : \A d \in EarlierOf(batch[r][i]) :
    d \in Streamed \/ \E h \in 1..(i - 1) : batch[r][h] = d

SentFinite == \A r \in Relay : IsFiniteSet(sent[r])

IInv == RelayTypeOK /\ OutboxOK /\ MarkedOK /\ BatchesOK /\ SentFinite

-----------------------------------------------------------------------------
LEMMA StreamGrows ==
  ASSUME stream \in Seq(Event), NEW e \in Event, stream' = Append(stream, e)
  PROVE  stream' \in Seq(Event) /\ Streamed' = Streamed \cup {e}
<1>1. /\ stream' \in Seq(Event) /\ Len(stream') = Len(stream) + 1
      /\ \A i \in 1..Len(stream) : stream'[i] = stream[i]
      /\ stream'[Len(stream) + 1] = e
  BY AppendProperties
<1>2. /\ Len(stream) \in Nat /\ DOMAIN stream = 1..Len(stream)
      /\ DOMAIN stream' = 1..(Len(stream) + 1)
  BY <1>1, LenProperties
<1> QED BY <1>1, <1>2 DEF Streamed, ToSet

\* A fetched batch: unpublished rows, no more than asked for, each after the
\* unpublished rows created before it.
LEMMA OldestOK ==
  ASSUME RelayTypeOK, NEW n \in Nat, NEW q \in Oldest(n)
  PROVE  /\ q \in Seq(outbox) /\ Len(q) = n
         /\ \A i \in 1..n : q[i] \in Unpublished
         /\ \A i \in 1..n : \A d \in Unpublished :
              d < q[i] => \E h \in 1..(i - 1) : q[h] = d
<1>1. /\ q \in [1..n -> Unpublished]
      /\ \A i, j \in 1..n : i < j => q[i] < q[j]
      /\ \A d \in Unpublished, i \in 1..n : d < q[i] => \E j \in 1..n : q[j] = d
  BY DEF Oldest
<1>2. q \in Seq(outbox) /\ Len(q) = n
  BY <1>1 DEF Unpublished
<1>3. ASSUME NEW i \in 1..n, NEW d \in Unpublished, d < q[i]
      PROVE  \E h \in 1..(i - 1) : q[h] = d
  <2>1. PICK j \in 1..n : q[j] = d BY <1>1, <1>3
  <2>2. q[i] \in Nat /\ q[j] \in Nat BY <1>1 DEF Unpublished, RelayTypeOK
  <2>3. ~(i <= j) BY <1>1, <1>3, <2>1, <2>2
  <2> QED BY <2>1, <2>3
<1> QED BY <1>1, <1>2, <1>3

LEMMA InitOK == Init => IInv
<1> SUFFICES ASSUME Init PROVE IInv OBVIOUS
<1> USE DEF Init, StreamInit
<1>1. <<>> \in Seq(Event) /\ <<>> \in Seq(outbox) /\ Len(<<>>) = 0 OBVIOUS
<1>2. IsFiniteSet({}) /\ Cardinality({}) = 0 BY FS_EmptySet
<1>3. RelayTypeOK BY <1>1, <1>2 DEF RelayTypeOK
<1>4. OutboxOK BY <1>2 DEF OutboxOK
<1>5. MarkedOK BY DEF MarkedOK
<1>6. BatchesOK BY <1>1 DEF BatchesOK
<1>7. SentFinite BY <1>2 DEF SentFinite
<1> QED BY <1>3, <1>4, <1>5, <1>6, <1>7 DEF IInv

-----------------------------------------------------------------------------
(* Each step, on the stream and on the relay that takes it. *)

LEMMA HeadIsNext ==
  ASSUME IInv, NEW r \in Relay, batch[r] # <<>>
  PROVE  /\ Head(batch[r]) \in outbox /\ Head(batch[r]) \in Event
         /\ EarlierOf(Head(batch[r])) \subseteq Streamed
<1>1. batch[r] \in Seq(outbox) /\ Len(batch[r]) \in Nat \ {0}
  BY EmptySeq DEF IInv, RelayTypeOK
<1>2. Head(batch[r]) = batch[r][1] /\ Head(batch[r]) \in outbox
  BY <1>1, HeadTailProperties
<1>3. EarlierOf(batch[r][1]) \subseteq Streamed
  BY <1>1 DEF IInv, BatchesOK
<1> QED BY <1>2, <1>3 DEF IInv, RelayTypeOK

LEMMA AddPublishes ==
  ASSUME IInv, NEW r \in Relay, batch[r] # <<>>,
         stream' = Append(stream, Head(batch[r])), UNCHANGED outbox
  PROVE  /\ Publish(Head(batch[r])) /\ Head(batch[r]) \in Event
         /\ stream' \in Seq(Event) /\ Streamed' = Streamed \cup {Head(batch[r])}
BY HeadIsNext, StreamGrows DEF Publish, IInv, RelayTypeOK

\* Every step is one of the stream or leaves the stream's variables alone.
LEMMA StreamSteps == IInv /\ [Next]_vars => [StreamNext]_streamVars
<1> SUFFICES ASSUME IInv, [Next]_vars PROVE [StreamNext]_streamVars OBVIOUS
<1>1. ASSUME NEW e \in Event, Enqueue(e) PROVE StreamNext
  BY <1>1 DEF StreamNext
<1>2. ASSUME NEW r \in Relay, XAdd(r) PROVE StreamNext
  BY <1>2, AddPublishes DEF XAdd, StreamNext
<1>3. ASSUME NEW r \in Relay, XAddFails(r) PROVE [StreamNext]_streamVars
  BY <1>3, AddPublishes DEF XAddFails, StreamNext, streamVars
<1>4. ASSUME NEW r \in Relay, FetchUnpublishedOutbox(r) \/ MarkOutboxPublished(r) \/ Abandon(r)
      PROVE UNCHANGED streamVars
  BY <1>4 DEF FetchUnpublishedOutbox, MarkOutboxPublished, Abandon
<1> QED BY <1>1, <1>2, <1>3, <1>4 DEF Next, RelayBatch, vars

\* The outbox and the stream only grow, and what a relay has not touched stays
\* as good as it was.
LEMMA Growth ==
  ASSUME IInv, [StreamNext]_streamVars
  PROVE  /\ outbox \subseteq outbox' /\ outbox' \subseteq Event
         /\ stream' \in Seq(Event) /\ Streamed \subseteq Streamed'
         /\ OutboxOK'
<1> USE DEF IInv, RelayTypeOK
<1>1. ASSUME NEW e \in Event, Enqueue(e)
      PROVE  /\ outbox' = outbox \cup {e} /\ UNCHANGED stream /\ OutboxOK'
  <2>1. IsFiniteSet(outbox \cup {e}) BY FS_AddElement DEF OutboxOK
  <2> QED BY <1>1, <2>1 DEF Enqueue, OutboxOK, EarlierOf
<1>2. ASSUME NEW e \in Event, Publish(e)
      PROVE  /\ UNCHANGED outbox /\ OutboxOK'
             /\ stream' \in Seq(Event) /\ Streamed \subseteq Streamed'
  BY <1>2, StreamGrows DEF Publish, OutboxOK, EarlierOf
<1>3. CASE UNCHANGED streamVars
  BY <1>3 DEF streamVars, Streamed, OutboxOK, EarlierOf
<1> QED BY <1>1, <1>2, <1>3 DEF StreamNext, Streamed

\* What is in hand of one relay: it fits, and is in order.
RelayOK(r) ==
  /\ batch[r] \in Seq(outbox) /\ sent[r] \in SUBSET outbox
  /\ IsFiniteSet(sent[r]) /\ Len(batch[r]) + Cardinality(sent[r]) <= BatchLimit
  /\ sent[r] \subseteq Streamed
  /\ \A i \in 1..Len(batch[r]) : \A d \in EarlierOf(batch[r][i]) :
       d \in Streamed \/ \E h \in 1..(i - 1) : batch[r][h] = d

LEMMA IdleStays ==
  ASSUME IInv, [StreamNext]_streamVars, NEW r \in Relay,
         batch'[r] = batch[r], sent'[r] = sent[r]
  PROVE  RelayOK(r)'
<1>1. RelayOK(r)
  BY DEF IInv, RelayTypeOK, MarkedOK, BatchesOK, SentFinite, RelayOK
<1>2. batch[r] \in Seq(outbox') BY <1>1, Growth, SeqMonotonic DEF RelayOK
<1> QED BY <1>1, <1>2, Growth DEF RelayOK, EarlierOf

LEMMA EmptyIsOK ==
  ASSUME IInv, NEW r \in Relay, batch'[r] = <<>>, sent'[r] = {}
  PROVE  RelayOK(r)'
<1>1. Len(<<>>) = 0 /\ <<>> \in Seq(outbox') OBVIOUS
<1>2. IsFiniteSet({}) /\ Cardinality({}) = 0 BY FS_EmptySet
<1> QED BY <1>1, <1>2 DEF RelayOK

LEMMA FetchOK ==
  ASSUME IInv, NEW r \in Relay, FetchUnpublishedOutbox(r)
  PROVE  RelayOK(r)'
<1> DEFINE all == Cardinality(Unpublished)
           n == IF all < BatchLimit THEN all ELSE BatchLimit
<1>1. PICK q \in Oldest(n) : batch' = [batch EXCEPT ![r] = q]
  BY DEF FetchUnpublishedOutbox
<1>2. /\ UNCHANGED <<outbox, stream, sent>> /\ sent[r] = {}
  BY DEF FetchUnpublishedOutbox, Busy, streamVars
<1>3. n \in Nat /\ n <= BatchLimit
  <2>1. IsFiniteSet(Unpublished) BY FS_Subset DEF IInv, OutboxOK, Unpublished
  <2>2. all \in Nat BY <2>1, FS_CardinalityType
  <2> QED BY <2>2
<1> HIDE DEF n
<1>4. /\ q \in Seq(outbox) /\ Len(q) = n
      /\ \A i \in 1..n : q[i] \in Unpublished
      /\ \A i \in 1..n : \A d \in Unpublished :
           d < q[i] => \E h \in 1..(i - 1) : q[h] = d
  BY <1>3, OldestOK DEF IInv
<1>5. batch'[r] = q /\ sent'[r] = {} BY <1>1, <1>2 DEF IInv, RelayTypeOK
<1>6. IsFiniteSet({}) /\ Cardinality({}) = 0 BY FS_EmptySet
<1>7. ASSUME NEW i \in 1..n, NEW d \in EarlierOf(q[i])
      PROVE  d \in Streamed \/ \E h \in 1..(i - 1) : q[h] = d
  <2>1. q[i] \in outbox BY <1>4 DEF Unpublished
  <2>2. d \in outbox /\ d < q[i] BY <2>1, <1>7 DEF IInv, OutboxOK, EarlierOf
  <2>3. CASE d \in published BY <2>3 DEF IInv, MarkedOK
  <2>4. CASE d \in Unpublished BY <1>4, <2>2, <2>4
  <2> QED BY <2>2, <2>3, <2>4 DEF Unpublished
<1> QED BY <1>2, <1>3, <1>4, <1>5, <1>6, <1>7 DEF RelayOK, Streamed, EarlierOf

LEMMA AddOK ==
  ASSUME IInv, NEW r \in Relay, XAdd(r)
  PROVE  RelayOK(r)'
<1> DEFINE e == Head(batch[r])  q == Tail(batch[r])
<1>1. /\ batch[r] # <<>> /\ UNCHANGED outbox /\ batch'[r] = q
      /\ sent'[r] = sent[r] \cup {e}
  BY DEF XAdd, IInv, RelayTypeOK
<1>2. /\ Streamed' = Streamed \cup {e} /\ e \in outbox
  BY <1>1, AddPublishes, HeadIsNext DEF XAdd
<1>3. batch[r] \in Seq(outbox) /\ Len(batch[r]) \in Nat
  BY LenProperties DEF IInv, RelayTypeOK
<1>4. /\ q \in Seq(outbox) /\ Len(q) = Len(batch[r]) - 1 /\ e = batch[r][1]
      /\ \A i \in 1..Len(q) : q[i] = batch[r][i + 1]
  BY <1>1, <1>3, HeadTailProperties
<1>5. /\ IsFiniteSet(sent[r] \cup {e})
      /\ Cardinality(sent[r] \cup {e}) <= Cardinality(sent[r]) + 1
      /\ Cardinality(sent[r]) \in Nat /\ Cardinality(sent[r] \cup {e}) \in Nat
  <2>1. IsFiniteSet(sent[r]) BY DEF IInv, SentFinite
  <2>2. Cardinality(sent[r]) \in Nat BY <2>1, FS_CardinalityType
  <2>3. /\ IsFiniteSet(sent[r] \cup {e})
        /\ \/ Cardinality(sent[r] \cup {e}) = Cardinality(sent[r])
           \/ Cardinality(sent[r] \cup {e}) = Cardinality(sent[r]) + 1
    BY <2>1, FS_AddElement
  <2> QED BY <2>2, <2>3
<1> HIDE DEF e, q
<1>6. Len(q) + Cardinality(sent[r] \cup {e}) <= BatchLimit
  BY <1>3, <1>4, <1>5 DEF IInv, RelayTypeOK
<1>7. ASSUME NEW i \in 1..Len(q), NEW d \in EarlierOf(q[i])
      PROVE  d \in Streamed' \/ \E h \in 1..(i - 1) : q[h] = d
  <2>1. i + 1 \in 1..Len(batch[r]) /\ q[i] = batch[r][i + 1] BY <1>3, <1>4
  <2>2. d \in Streamed \/ \E h \in 1..i : batch[r][h] = d
    BY <1>7, <2>1 DEF IInv, BatchesOK
  <2>3. ASSUME NEW h \in 1..i, batch[r][h] = d, d # e PROVE \E g \in 1..(i - 1) : q[g] = d
    <3>1. h # 1 BY <1>4, <2>3
    <3>2. h - 1 \in 1..(i - 1) /\ h - 1 \in 1..Len(q) BY <3>1, <1>3, <1>4
    <3>3. q[h - 1] = batch[r][h]
      <4>1. (h - 1) + 1 = h BY <3>2
      <4> QED BY <1>4, <3>2, <4>1
    <3> QED BY <2>3, <3>2, <3>3
  <2> QED BY <1>2, <2>2, <2>3
<1>8. sent[r] \cup {e} \in SUBSET outbox /\ sent[r] \cup {e} \subseteq Streamed'
  BY <1>2 DEF IInv, RelayTypeOK, MarkedOK
<1> QED BY <1>1, <1>4, <1>5, <1>6, <1>7, <1>8 DEF RelayOK, EarlierOf

-----------------------------------------------------------------------------
\* Every step keeps the invariant.
LEMMA Inductive == IInv /\ [Next]_vars => IInv'
<1> SUFFICES ASSUME IInv, [Next]_vars PROVE IInv' OBVIOUS
<1>s. [StreamNext]_streamVars BY StreamSteps
<1>1. ASSUME \A r \in Relay : RelayOK(r)',
             published' \subseteq published \cup UNION {sent[r] : r \in Relay},
             batch' \in [Relay -> Seq(outbox')], sent' \in [Relay -> SUBSET outbox'],
             faults' \in 0..MaxFaults
      PROVE  IInv'
  <2>1. published' \subseteq outbox /\ published' \subseteq Streamed
    BY <1>1 DEF IInv, RelayTypeOK, MarkedOK
  <2>2. RelayTypeOK' BY <1>1, <1>s, <2>1, Growth DEF RelayTypeOK, RelayOK
  <2>3. MarkedOK' BY <1>1, <1>s, <2>1, Growth DEF MarkedOK, RelayOK
  <2>4. BatchesOK' /\ SentFinite' BY <1>1 DEF BatchesOK, SentFinite, RelayOK
  <2> QED BY <1>s, <2>2, <2>3, <2>4, Growth DEF IInv
<1>2. ASSUME NEW r \in Relay, RelayOK(r)',
             \A q \in Relay : q # r => batch'[q] = batch[q] /\ sent'[q] = sent[q],
             DOMAIN batch' = Relay, DOMAIN sent' = Relay,
             published' = published \/ published' = published \cup sent[r],
             faults' \in 0..MaxFaults,
             batch' = [q \in Relay |-> batch'[q]], sent' = [q \in Relay |-> sent'[q]]
      PROVE  IInv'
  <2>1. \A q \in Relay : RelayOK(q)' BY <1>s, <1>2, IdleStays
  <2>2. batch' \in [Relay -> Seq(outbox')] /\ sent' \in [Relay -> SUBSET outbox']
    BY <1>2, <2>1 DEF RelayOK
  <2> QED BY <1>1, <1>2, <2>1, <2>2
<1>f. Fault => faults' \in 0..MaxFaults BY DEF Fault, IInv, RelayTypeOK
<1>3. ASSUME NEW e \in Event, Enqueue(e), UNCHANGED relayVars PROVE IInv'
  <2>1. \A q \in Relay : RelayOK(q)' BY <1>s, <1>3, IdleStays DEF relayVars
  <2>2. batch' \in [Relay -> Seq(outbox')] /\ sent' \in [Relay -> SUBSET outbox']
    BY <1>3, <2>1 DEF RelayOK, relayVars, IInv, RelayTypeOK
  <2> QED BY <1>1, <1>3, <2>1, <2>2 DEF relayVars, IInv, RelayTypeOK
<1>4. ASSUME NEW r \in Relay, FetchUnpublishedOutbox(r) PROVE IInv'
  <2>1. RelayOK(r)' BY <1>4, FetchOK
  <2> QED BY <1>2, <1>4, <2>1 DEF FetchUnpublishedOutbox, NoFault, IInv, RelayTypeOK
<1>5. ASSUME NEW r \in Relay, XAdd(r) PROVE IInv'
  <2>1. RelayOK(r)' BY <1>5, AddOK
  <2> QED BY <1>2, <1>5, <2>1 DEF XAdd, NoFault, IInv, RelayTypeOK
<1>6. ASSUME NEW r \in Relay, MarkOutboxPublished(r) PROVE IInv'
  <2>1. RelayOK(r)' BY <1>6, EmptyIsOK DEF MarkOutboxPublished, IInv, RelayTypeOK
  <2> QED BY <1>2, <1>6, <2>1 DEF MarkOutboxPublished, NoFault, IInv, RelayTypeOK
<1>7. ASSUME NEW r \in Relay, Abandon(r) PROVE IInv'
  <2>1. RelayOK(r)' BY <1>7, EmptyIsOK DEF Abandon, IInv, RelayTypeOK
  <2>2. /\ batch' = [batch EXCEPT ![r] = <<>>] /\ UNCHANGED published
        /\ faults' \in 0..MaxFaults
        /\ sent' = [sent EXCEPT ![r] = {}]
    BY <1>f, <1>7 DEF Abandon
  <2> QED BY <1>2, <2>1, <2>2 DEF IInv, RelayTypeOK
<1>8. ASSUME NEW r \in Relay, XAddFails(r) PROVE IInv'
  <2>1. RelayOK(r)'
    <3>1. /\ batch'[r] = <<>> /\ sent'[r] = sent[r] /\ UNCHANGED outbox
      BY <1>8 DEF XAddFails, IInv, RelayTypeOK
    <3>2. <<>> \in Seq(outbox') /\ Len(<<>>) = 0 OBVIOUS
    <3>3. /\ IsFiniteSet(sent[r]) /\ Cardinality(sent[r]) \in Nat
          /\ Cardinality(sent[r]) <= BatchLimit
      <4>1. IsFiniteSet(sent[r]) BY DEF IInv, SentFinite
      <4>2. Cardinality(sent[r]) \in Nat BY <4>1, FS_CardinalityType
      <4>3. Len(batch[r]) \in Nat BY LenProperties DEF IInv, RelayTypeOK
      <4> QED BY <4>1, <4>2, <4>3 DEF IInv, RelayTypeOK
    <3>4. sent[r] \subseteq Streamed' /\ sent[r] \in SUBSET outbox'
      BY <1>s, <3>1, Growth DEF IInv, RelayTypeOK, MarkedOK
    <3> QED BY <3>1, <3>2, <3>3, <3>4 DEF RelayOK
  <2>2. /\ batch' = [batch EXCEPT ![r] = <<>>] /\ UNCHANGED published
        /\ faults' \in 0..MaxFaults
        /\ UNCHANGED sent
    BY <1>f, <1>8 DEF XAddFails
  <2> QED BY <1>2, <2>1, <2>2 DEF IInv, RelayTypeOK
<1>9. CASE UNCHANGED vars
  <2>1. \A q \in Relay : RelayOK(q)' BY <1>s, <1>9, IdleStays DEF vars, relayVars
  <2> QED BY <1>1, <1>9, <2>1 DEF vars, relayVars, streamVars, IInv, RelayTypeOK
<1> QED BY <1>3, <1>4, <1>5, <1>6, <1>7, <1>8, <1>9 DEF Next, RelayBatch

LEMMA Invariance == Spec => []IInv
BY InitOK, Inductive, PTL DEF Spec

\* A relay holds a run of at most BatchLimit committed rows and marks no row
\* that is not committed.
THEOREM RelayTypeCorrect == Spec => []RelayTypeOK
<1>1. IInv => RelayTypeOK BY DEF IInv
<1> QED BY <1>1, Invariance, PTL

\* What readers of the stream may rely on: an event is added only after it was
\* committed and after every earlier event of its journey.
THEOREM RelaysImplementStream == Spec => StreamSpec
<1>1. Init => StreamInit BY DEF Init
<1> QED BY <1>1, Invariance, StreamSteps, PTL DEF Spec, StreamSpec

=============================================================================
