------------------------------ MODULE Migrations ------------------------------
(***************************************************************************)
(* The start of a service replica: connect, apply the pending *.sql files  *)
(* in lexical order, serve.  Replicas of one service start at the same     *)
(* time, and a rolling release starts replicas with more files next to     *)
(* replicas with fewer.                                                    *)
(*                                                                         *)
(* A file is the number of its place in the order.  The capacity service   *)
(* commits its statements and its record together; the other services      *)
(* execute one after the other.                                            *)
(***************************************************************************)
EXTENDS Naturals, Sequences, Functions

CONSTANTS
  Replica,    \* replicas of the service
  Files,      \* how many files the newest release has
  MaxStarts   \* starts of replicas (a bound)

ASSUME MigrationsAssumption == Files \in Nat /\ MaxStarts \in Nat

VARIABLES
  together,   \* whether a file and its record commit together
  replica,    \* [stage, files: how many it ships, next: the file it is at]
  applied,    \* the files in the order their statements took effect
  recorded,   \* the rows of schema_migrations
  starts

migrationVars == <<together, replica, applied, recorded, starts>>

Down == [stage |-> "down", files |-> 0, next |-> 1]
SetReplica(r, s) == replica' = [replica EXCEPT ![r] = s]
NoDatabase == UNCHANGED <<together, applied, recorded>>

\* Any error on the way to serving is fatal; the container is started again.
Fatal(r) == SetReplica(r, Down)

-----------------------------------------------------------------------------

StartReplica(r, n) ==
  /\ replica[r].stage = "down" /\ starts < MaxStarts
  /\ starts' = starts + 1
  /\ SetReplica(r, [stage |-> "connect", files |-> n, next |-> 1])
  /\ NoDatabase

\* NewConnectionPools: both pools must answer a ping.
ConnectPools(r) ==
  /\ replica[r].stage = "connect"
  /\ \/ SetReplica(r, [replica[r] EXCEPT !.stage = "check"])
     \/ Fatal(r)
  /\ NoDatabase /\ UNCHANGED starts

\* One round of the loop over the files, up to the COUNT.
CheckMigration(r) ==
  LET f == replica[r].next IN
  /\ replica[r].stage = "check" /\ f <= replica[r].files
  /\ \/ SetReplica(r, IF f \in recorded THEN [replica[r] EXCEPT !.next = f + 1]
                      ELSE [replica[r] EXCEPT !.stage = "apply"])
     \/ Fatal(r)
  /\ NoDatabase /\ UNCHANGED starts

TakesEffect(f) == applied' = Append(applied, f)

\* filename is the primary key: a second record fails.
\* Mutant: the record is written ON CONFLICT DO NOTHING.
RecordAnyway(f) == recorded' = recorded \cup {f}
RecordMigration(f) == f \notin recorded /\ recorded' = recorded \cup {f}

\* A statement whose answer is lost counts as failed.
Continue(r) ==
  \/ SetReplica(r, [stage |-> "check", files |-> replica[r].files, next |-> replica[r].next + 1])
  \/ Fatal(r)

\* The transaction of a file: a record that fails takes the statements with it.
ApplyMigration(r) ==
  LET f == replica[r].next IN
  /\ together /\ replica[r].stage = "apply"
  /\ \/ TakesEffect(f) /\ RecordMigration(f) /\ Continue(r)
     \/ UNCHANGED <<applied, recorded>> /\ Fatal(r)
  /\ UNCHANGED <<together, starts>>

\* The statements of a file are one batch, one implicit transaction.
ExecMigration(r) ==
  /\ ~together /\ replica[r].stage = "apply"
  /\ \/ /\ TakesEffect(replica[r].next)
        /\ SetReplica(r, [replica[r] EXCEPT !.stage = "record"]) \/ Fatal(r)
     \/ UNCHANGED applied /\ Fatal(r)
  /\ UNCHANGED <<together, recorded, starts>>

RecordApplied(r) ==
  /\ replica[r].stage = "record"
  /\ \/ RecordMigration(replica[r].next) /\ Continue(r)
     \/ UNCHANGED recorded /\ Fatal(r)
  /\ UNCHANGED <<together, applied, starts>>

Serve(r) ==
  /\ replica[r].stage = "check" /\ replica[r].next > replica[r].files
  /\ SetReplica(r, [replica[r] EXCEPT !.stage = "serving"])
  /\ NoDatabase /\ UNCHANGED starts

\* SIGTERM while serving, and a kill at any moment: an open transaction rolls back.
StopReplica(r) ==
  /\ replica[r].stage # "down" /\ Fatal(r)
  /\ NoDatabase /\ UNCHANGED starts

-----------------------------------------------------------------------------

MigrationsInit ==
  /\ together \in BOOLEAN /\ replica = [r \in Replica |-> Down]
  /\ applied = <<>> /\ recorded = {} /\ starts = 0

MigrationsNext ==
  \E r \in Replica :
    \/ \E n \in 1 .. Files : StartReplica(r, n)
    \/ ConnectPools(r) \/ CheckMigration(r)
    \/ ApplyMigration(r) \/ ExecMigration(r) \/ RecordApplied(r)
    \/ Serve(r) \/ StopReplica(r)

MigrationsSpec == MigrationsInit /\ [][MigrationsNext]_migrationVars

-----------------------------------------------------------------------------

MigrationsTypeOK ==
  /\ replica \in [Replica -> [stage : {"down", "connect", "check", "apply", "record", "serving"},
                              files : 0 .. Files, next : 1 .. Files + 1]]
  /\ together \in BOOLEAN /\ applied \in Seq(1 .. Files)
  /\ recorded \subseteq 1 .. Files
  /\ starts \in 0 .. MaxStarts

\* However many replicas start at once, and wherever they die, a file takes
\* effect after the one before it, is recorded only when it did, and takes
\* effect once if its record commits with it; a replica serves only a database
\* that has every file it ships (RunMigrations before ListenAndServe).
ServingIsMigrated ==
  /\ recorded \subseteq Range(applied)
  /\ \A i \in DOMAIN applied : applied[i] # 1 => \E k \in 1 .. i - 1 : applied[k] + 1 = applied[i]
  /\ together => \A i, k \in DOMAIN applied : applied[i] = applied[k] => i = k
  /\ \A r \in Replica : replica[r].stage = "serving" => 1 .. replica[r].files \subseteq recorded
=============================================================================
