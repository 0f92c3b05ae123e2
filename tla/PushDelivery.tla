---------------------------- MODULE PushDelivery ----------------------------
(***************************************************************************)
(* What follows the insert of a notification: the push to the driver's     *)
(* devices with its retries and its delivery status, the registration of   *)
(* device tokens, and the driver's inbox.                                  *)
(*                                                                         *)
(* A delivery runs in the worker that stored the notification; several run *)
(* at once.  What the push service answers is chosen freely.               *)
(***************************************************************************)
EXTENDS Naturals, Sequences, FiniteSets

CONSTANTS
  PushDriver,   \* drivers
  Device,       \* values of FCM tokens
  Note,         \* notifications
  DriverOf,     \* the driver of each
  MaxAttempts,  \* maxDeliveryAttempts
  MaxRows,      \* rows of device tokens a run may insert
  MaxPushFaults \* failing statements, lost answers and deaths

ASSUME PushAssumption ==
  /\ MaxAttempts \in Nat \ {0} /\ {MaxRows, MaxPushFaults} \subseteq Nat
  /\ DriverOf \in [Note -> PushDriver]

VARIABLES
  fcmClient,    \* whether the process has an FCM client
  oauth,        \* whether the client holds a usable access token
  deviceRows,   \* notification.device_tokens, in the order of their creation
  registering,  \* the device each driver's registration is about to insert
  inbox,        \* notification.notifications: delivery status and read flag
  deliveries,   \* the push of each notification
  received,     \* history: the devices that received it
  pushFaults

deviceVars == <<deviceRows, registering>>
pushVars == <<fcmClient, oauth, deviceVars, inbox, deliveries, received, pushFaults>>

NoDevice == "no device"
Idle == [stage |-> "new", todo |-> {}, row |-> 0, attempt |-> 1, sent |-> FALSE]
Stage(n) == deliveries[n].stage
Final == {"SENT", "FAILED", "SKIPPED"}

PushFault == pushFaults < MaxPushFaults /\ pushFaults' = pushFaults + 1
NoPushFault == UNCHANGED pushFaults

-----------------------------------------------------------------------------
(* Device tokens *)

ActiveRows(d) == {i \in DOMAIN deviceRows : deviceRows[i].driver = d /\ deviceRows[i].active}
ActiveWith(v) == {i \in DOMAIN deviceRows : deviceRows[i].device = v /\ deviceRows[i].active}
Deactivated(ids) == [i \in DOMAIN deviceRows |->
  IF i \in ids THEN [deviceRows[i] EXCEPT !.active = FALSE] ELSE deviceRows[i]]

\* The first statement of Upsert: other drivers lose the device.
RegisterDeviceToken(d) ==
  /\ registering[d] = NoDevice
  /\ \E v \in Device :
       /\ registering' = [registering EXCEPT ![d] = v]
       /\ deviceRows' = Deactivated({i \in ActiveWith(v) : deviceRows[i].driver # d})
  /\ UNCHANGED <<fcmClient, oauth, inbox, deliveries, received, pushFaults>>

\* Mutant: a plain INSERT, without the unique index.
InsertAnyway(d) ==
  /\ registering[d] # NoDevice /\ Len(deviceRows) < MaxRows
  /\ registering' = [registering EXCEPT ![d] = NoDevice]
  /\ deviceRows' = Append(deviceRows, [driver |-> d, device |-> registering[d], active |-> TRUE])
  /\ UNCHANGED <<fcmClient, oauth, inbox, deliveries, received, pushFaults>>

\* Its second statement: INSERT ... ON CONFLICT (fcm_token) WHERE is_active,
\* which leaves the driver of a conflicting row as it is.
Upsert(d) ==
  LET v == registering[d] IN
  /\ v # NoDevice
  /\ registering' = [registering EXCEPT ![d] = NoDevice]
  /\ IF ActiveWith(v) # {} THEN UNCHANGED deviceRows
     ELSE /\ Len(deviceRows) < MaxRows
          /\ deviceRows' = Append(deviceRows, [driver |-> d, device |-> v, active |-> TRUE])
  /\ UNCHANGED <<fcmClient, oauth, inbox, deliveries, received, pushFaults>>

DeactivateDeviceToken(d) ==
  /\ \E v \in Device :
       /\ ActiveRows(d) \cap ActiveWith(v) # {}
       /\ deviceRows' = Deactivated(ActiveRows(d) \cap ActiveWith(v))
  /\ UNCHANGED <<fcmClient, oauth, registering, inbox, deliveries, received, pushFaults>>

-----------------------------------------------------------------------------
(* The push *)

\* A status that cannot be written is logged.
UpdateDeliveryStatus(n, s) ==
  \/ inbox' = [inbox EXCEPT ![n].status = s] /\ NoPushFault
  \/ UNCHANGED inbox /\ PushFault

EndWith(n, s) ==
  /\ UpdateDeliveryStatus(n, s)
  /\ deliveries' = [deliveries EXCEPT ![n] = [Idle EXCEPT !.stage = "ended"]]

\* The insert that precedes the push.
Store(n) ==
  /\ Stage(n) = "new"
  /\ deliveries' = [deliveries EXCEPT ![n].stage = "stored"]
  /\ inbox' = [inbox EXCEPT ![n].status = "PENDING"]
  /\ UNCHANGED <<fcmClient, oauth, deviceVars, received, pushFaults>>

\* On to the next of the tokens that were looked up, or to the end.
NextToken(n, rest, s) ==
  IF rest = {} THEN deliveries' = [deliveries EXCEPT ![n] =
                      [stage |-> "finish", todo |-> {}, row |-> 0, attempt |-> 1, sent |-> s]]
  ELSE \E i \in rest : deliveries' = [deliveries EXCEPT ![n] =
         [stage |-> "send", todo |-> rest \ {i}, row |-> i, attempt |-> 1, sent |-> s]]

DispatchPush(n) ==
  /\ Stage(n) = "stored"
  /\ \/ /\ ~fcmClient \/ ActiveRows(DriverOf[n]) = {}
        /\ EndWith(n, "SKIPPED")
     \/ /\ fcmClient /\ ActiveRows(DriverOf[n]) # {}
        /\ NextToken(n, ActiveRows(DriverOf[n]), FALSE)
        /\ NoPushFault /\ UNCHANGED inbox
     \/ /\ fcmClient /\ PushFault   \* the lookup fails; so may the write of the status
        /\ inbox' \in {inbox, [inbox EXCEPT ![n].status = "FAILED"]}
        /\ deliveries' = [deliveries EXCEPT ![n].stage = "ended"]
  /\ UNCHANGED <<fcmClient, oauth, deviceVars, received>>

IsPermanent(r) == r \in {"UNREGISTERED", "INVALID_ARGUMENT", "400", "404"}

\* The token cached by the client, or a new one from the OAuth server.
AccessToken(ok) == IF ok THEN oauth' = TRUE ELSE ~oauth /\ UNCHANGED oauth

\* Mutant: every attempt is taken for the first.
RetrySame(n) ==
  /\ UpdateDeliveryStatus(n, "RETRYING")
  /\ UNCHANGED deliveries

\* A delivery error that may pass, an error of another kind or no answer.
Retry(n) ==
  IF deliveries[n].attempt = MaxAttempts
  THEN NextToken(n, deliveries[n].todo, deliveries[n].sent) /\ NoPushFault /\ UNCHANGED inbox
  ELSE /\ UpdateDeliveryStatus(n, "RETRYING")
       /\ deliveries' = [deliveries EXCEPT ![n].attempt = @ + 1]

Receive(n) == received' = [received EXCEPT ![n] = @ \cup {deviceRows[deliveries[n].row].device}]

\* Mutant: an accepted push is not remembered.
AcceptedForgotten(n) ==
  /\ Stage(n) = "send" /\ AccessToken(TRUE)
  /\ Receive(n)
  /\ NextToken(n, deliveries[n].todo, deliveries[n].sent)
  /\ UNCHANGED <<fcmClient, deviceVars, inbox, pushFaults>>

SendAccepted(n) ==
  /\ Stage(n) = "send" /\ AccessToken(TRUE)
  /\ Receive(n)
  /\ NextToken(n, deliveries[n].todo, TRUE)
  /\ UNCHANGED <<fcmClient, deviceVars, inbox, pushFaults>>

SendRefused(n) ==
  /\ Stage(n) = "send" /\ AccessToken(TRUE)
  /\ \E r \in {"UNREGISTERED", "503"} :
       IF IsPermanent(r)
       THEN /\ deliveries' = [deliveries EXCEPT ![n].stage = "deactivate"]
            /\ NoPushFault /\ UNCHANGED inbox
       ELSE Retry(n)
  /\ UNCHANGED <<fcmClient, deviceVars, received>>

\* No access token, or no connection.
SendFails(n) ==
  /\ Stage(n) = "send" /\ AccessToken(FALSE)
  /\ Retry(n)
  /\ UNCHANGED <<fcmClient, deviceVars, received>>

\* The push is delivered but its answer is lost: for the worker it failed.
SendAnswerLost(n) ==
  /\ Stage(n) = "send" /\ AccessToken(TRUE)
  /\ Receive(n) /\ PushFault
  /\ \/ /\ deliveries[n].attempt = MaxAttempts
        /\ NextToken(n, deliveries[n].todo, deliveries[n].sent) /\ UNCHANGED inbox
     \/ /\ deliveries[n].attempt < MaxAttempts
        /\ inbox' \in {inbox, [inbox EXCEPT ![n].status = "RETRYING"]}
        /\ deliveries' = [deliveries EXCEPT ![n].attempt = @ + 1]
  /\ UNCHANGED <<fcmClient, deviceVars>>

\* By the id of the row, whoever it belongs to by now.
Deactivate(n) ==
  /\ Stage(n) = "deactivate"
  /\ \/ deviceRows' = Deactivated({deliveries[n].row}) /\ NoPushFault
     \/ UNCHANGED deviceRows /\ PushFault
  /\ NextToken(n, deliveries[n].todo, deliveries[n].sent)
  /\ UNCHANGED <<fcmClient, oauth, registering, inbox, received>>

Finish(n) ==
  /\ Stage(n) = "finish"
  /\ EndWith(n, IF deliveries[n].sent THEN "SENT" ELSE "FAILED")
  /\ UNCHANGED <<fcmClient, oauth, deviceVars, received>>

\* The worker dies; nobody takes the delivery up again.
Die(n) ==
  /\ Stage(n) \notin {"new", "ended", "dead"} /\ PushFault
  /\ deliveries' = [deliveries EXCEPT ![n] = [Idle EXCEPT !.stage = "dead"]]
  /\ UNCHANGED <<fcmClient, oauth, deviceVars, inbox, received>>

OAuthExpires ==
  /\ oauth /\ oauth' = FALSE
  /\ UNCHANGED <<fcmClient, deviceVars, inbox, deliveries, received, pushFaults>>

-----------------------------------------------------------------------------
(* The inbox *)

\* The UPDATE of is_read, which only touches unread rows.
SetRead(ns) ==
  LET unread == {n \in ns : inbox[n].status # "none" /\ ~inbox[n].read} IN
  /\ unread # {}
  /\ inbox' = [n \in Note |-> IF n \in unread THEN [inbox[n] EXCEPT !.read = TRUE] ELSE inbox[n]]
  /\ UNCHANGED <<fcmClient, oauth, deviceVars, deliveries, received, pushFaults>>

\* The row is updated whatever the caller is told.
MarkRead(n) == SetRead({n})
MarkAllRead(d) == SetRead({n \in Note : DriverOf[n] = d})

-----------------------------------------------------------------------------
PushInit ==
  /\ fcmClient \in BOOLEAN /\ oauth = FALSE
  /\ deviceRows = <<>> /\ registering = [d \in PushDriver |-> NoDevice]
  /\ inbox = [n \in Note |-> [status |-> "none", read |-> FALSE]]
  /\ deliveries = [n \in Note |-> Idle]
  /\ received = [n \in Note |-> {}] /\ pushFaults = 0

Send(n) == SendAccepted(n) \/ SendRefused(n) \/ SendFails(n) \/ SendAnswerLost(n)
Deliver(n) == DispatchPush(n) \/ Send(n) \/ Deactivate(n) \/ Finish(n)

PushNext ==
  \/ \E d \in PushDriver :
       RegisterDeviceToken(d) \/ Upsert(d) \/ DeactivateDeviceToken(d) \/ MarkAllRead(d)
  \/ \E n \in Note : Store(n) \/ Deliver(n) \/ Die(n) \/ MarkRead(n)
  \/ OAuthExpires

PushSpec == PushInit /\ [][PushNext]_pushVars

\* A worker goes on with its delivery; calls of the push service time out.
PushFairness == \A n \in Note : WF_pushVars(Deliver(n))

-----------------------------------------------------------------------------
(* Properties *)

PushTypeOK ==
  /\ fcmClient \in BOOLEAN /\ oauth \in BOOLEAN /\ pushFaults \in 0 .. MaxPushFaults
  /\ deviceRows \in Seq([driver : PushDriver, device : Device, active : BOOLEAN])
  /\ registering \in [PushDriver -> Device \cup {NoDevice}]
  /\ inbox \in [Note -> [status : Final \cup {"none", "PENDING", "RETRYING"}, read : BOOLEAN]]
  /\ deliveries \in [Note ->
       [stage : {"new", "stored", "send", "deactivate", "finish", "ended", "dead"},
        todo : SUBSET DOMAIN deviceRows, row : {0} \cup DOMAIN deviceRows,
        attempt : 1 .. MaxAttempts, sent : BOOLEAN]]
  /\ received \in [Note -> SUBSET Device]
  /\ \A v \in Device : Cardinality(ActiveWith(v)) <= 1

\* What the driver's inbox says of a push is what happened: SENT only when a
\* device registered for that very driver received it, and, unless something
\* failed on the way, a final status that is SENT exactly when one did.
DeliveryStatusIsTrue == \A n \in Note :
  /\ inbox[n].status = "SENT" => received[n] # {}
  /\ \A v \in received[n] : \E i \in DOMAIN deviceRows :
       deviceRows[i].device = v /\ deviceRows[i].driver = DriverOf[n]
  /\ Stage(n) = "ended" /\ pushFaults = 0 =>
       inbox[n].status \in Final /\ (inbox[n].status = "SENT" <=> received[n] # {})

\* Whatever the push service answers, the worker comes to the end of a
\* delivery, unless it dies, and goes on to the next message of the stream.
PushEnds == \A n \in Note : Stage(n) = "stored" ~> Stage(n) \in {"ended", "dead"}

=============================================================================
