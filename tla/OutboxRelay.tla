----------------------------- MODULE OutboxRelay -----------------------------
(***************************************************************************)
(* The transactional outbox of the journey service: every replica runs a   *)
(* relay that reads unpublished rows, adds them to the stream one by one   *)
(* and marks what it added afterwards.                                     *)
(***************************************************************************)
EXTENDS AtLeastOnceStream, FiniteSets

CONSTANTS
  Relay,
  BatchLimit,  \* rows per fetch
  MaxFaults    \* how many failures and crashes a run admits

ASSUME RelayAssumption == BatchLimit \in Nat \ {0} /\ MaxFaults \in Nat

VARIABLES
  published,  \* the rows marked as published
  batch,      \* what each relay has fetched and not yet added
  sent,       \* what it has added and not yet marked
  faults      \* failures so far

relayVars == <<published, batch, sent, faults>>
vars == <<streamVars, relayVars>>

Fault == faults < MaxFaults /\ faults' = faults + 1
NoFault == UNCHANGED faults
Busy(r) == batch[r] # <<>> \/ sent[r] # {}

-----------------------------------------------------------------------------
Unpublished == outbox \ published

\* ORDER BY created_at LIMIT n.
Oldest(n) ==
  {q \in [1..n -> Unpublished] :
     /\ \A i, j \in 1..n : i < j => q[i] < q[j]
     /\ \A e \in Unpublished, i \in 1..n : e < q[i] => \E j \in 1..n : q[j] = e}

\* Mutant: no LIMIT.
FetchAll(r) ==
  /\ ~Busy(r) /\ Unpublished # {}
  /\ \E q \in Oldest(Cardinality(Unpublished)) : batch' = [batch EXCEPT ![r] = q]
  /\ NoFault /\ UNCHANGED <<streamVars, published, sent>>

FetchUnpublishedOutbox(r) ==
  LET all == Cardinality(Unpublished)
      n == IF all < BatchLimit THEN all ELSE BatchLimit IN
  /\ ~Busy(r) /\ Unpublished # {}
  /\ \E q \in Oldest(n) : batch' = [batch EXCEPT ![r] = q]
  /\ NoFault /\ UNCHANGED <<streamVars, published, sent>>

XAdd(r) ==
  /\ batch[r] # <<>>
  /\ stream' = Append(stream, Head(batch[r]))
  /\ batch' = [batch EXCEPT ![r] = Tail(@)]
  /\ sent' = [sent EXCEPT ![r] = @ \cup {Head(batch[r])}]
  /\ NoFault /\ UNCHANGED <<outbox, published>>

\* Mutant: a failed event is skipped and the rest of the batch goes on.
XAddSkips(r) ==
  /\ batch[r] # <<>> /\ Fault
  /\ batch' = [batch EXCEPT ![r] = Tail(@)]
  /\ UNCHANGED <<streamVars, published, sent>>

\* The batch ends at the first error, with or without effect on the stream.
XAddFails(r) ==
  /\ batch[r] # <<>> /\ Fault
  /\ \/ UNCHANGED stream
     \/ stream' = Append(stream, Head(batch[r]))
  /\ batch' = [batch EXCEPT ![r] = <<>>]
  /\ UNCHANGED <<outbox, published, sent>>

\* Mutant: what was fetched is marked, not what was added.
MarkUpToLast(r) ==
  /\ batch[r] = <<>> /\ sent[r] # {}
  /\ published' = published \cup {e \in outbox : \E s \in sent[r] : e <= s}
  /\ sent' = [sent EXCEPT ![r] = {}]
  /\ NoFault /\ UNCHANGED <<streamVars, batch>>

MarkOutboxPublished(r) ==
  /\ batch[r] = <<>> /\ sent[r] # {}
  /\ published' = published \cup sent[r]
  /\ sent' = [sent EXCEPT ![r] = {}]
  /\ NoFault /\ UNCHANGED <<streamVars, batch>>

\* The marking fails, or the process dies at any point of its batch.
Abandon(r) ==
  /\ Busy(r) /\ Fault
  /\ batch' = [batch EXCEPT ![r] = <<>>]
  /\ sent' = [sent EXCEPT ![r] = {}]
  /\ UNCHANGED <<streamVars, published>>

-----------------------------------------------------------------------------
Init ==
  /\ StreamInit
  /\ published = {}
  /\ batch = [r \in Relay |-> <<>>]
  /\ sent = [r \in Relay |-> {}]
  /\ faults = 0

RelayBatch(r) == FetchUnpublishedOutbox(r) \/ XAdd(r) \/ MarkOutboxPublished(r)

Next ==
  \/ \E e \in Event : Enqueue(e) /\ UNCHANGED relayVars
  \/ \E r \in Relay : RelayBatch(r) \/ XAddFails(r) \/ Abandon(r)

Spec == Init /\ [][Next]_vars

\* Each relay's ticker fires again and again, whatever happened before.
FairSpec == Spec /\ \A r \in Relay : WF_vars(RelayBatch(r))

-----------------------------------------------------------------------------
(* A batch is a run of at most BatchLimit committed rows in order, and a   *)
(* relay marks only what it added.                                         *)
RelayTypeOK ==
  /\ outbox \subseteq Event /\ published \subseteq outbox
  /\ stream \in Seq(Event)
  /\ batch \in [Relay -> Seq(outbox)] /\ sent \in [Relay -> SUBSET outbox]
  /\ \A r \in Relay : Len(batch[r]) + Cardinality(sent[r]) <= BatchLimit
  /\ faults \in 0..MaxFaults

\* Every committed event reaches the stream, however its relays fail and
\* although rows are committed out of the order they are fetched in.
EveryEventStreams == \A e \in Event : e \in outbox ~> e \in Streamed

=============================================================================
