--------------------------- MODULE Accounts_proofs ---------------------------
(***************************************************************************)
(* Theorems about the parts of MCAccounts: the migrations of a starting    *)
(* service, the keys of access tokens, accounts and sessions, profiles and *)
(* vehicles; last, of all of them together.                                *)
(***************************************************************************)
EXTENDS MCAccounts, FiniteSetTheorems, SequenceTheorems, TLAPS

-----------------------------------------------------------------------------
(* Migrations *)

\* What a replica knows: the files before the one it is at are recorded, the
\* one whose record it is about to write took effect.
ReplicaOK(r) ==
  /\ replica[r].stage # "down" => 1 .. replica[r].next - 1 \subseteq recorded
  /\ replica[r].stage \in {"apply", "record"} => replica[r].next <= replica[r].files
  /\ replica[r].stage = "record" => replica[r].next \in Range(applied)
  /\ replica[r].stage = "serving" => replica[r].next > replica[r].files

\* The invariant: with a record that commits with its file, what took effect
\* is what is recorded.
MigrationsInv ==
  /\ MigrationsTypeOK
  /\ recorded \subseteq Range(applied)
  /\ \A i \in DOMAIN applied : applied[i] # 1 => \E k \in 1 .. i - 1 : applied[k] + 1 = applied[i]
  /\ together =>
       /\ Range(applied) \subseteq recorded
       /\ \A i, k \in DOMAIN applied : applied[i] = applied[k] => i = k
  /\ \A r \in Replica : ReplicaOK(r)

LEMMA MigrationsInvServes == MigrationsInv => ServingIsMigrated
<1> SUFFICES ASSUME MigrationsInv, NEW r \in Replica, replica[r].stage = "serving",
                    NEW f \in 1 .. replica[r].files
             PROVE  f \in recorded
  BY DEF MigrationsInv, ServingIsMigrated
<1>1. ReplicaOK(r) BY DEF MigrationsInv
<1>2. replica[r].files \in Nat /\ replica[r].next \in Nat
  BY MigrationsAssumption DEF MigrationsInv, MigrationsTypeOK
<1>3. f \in 1 .. replica[r].next - 1 BY <1>1, <1>2 DEF ReplicaOK
<1> QED BY <1>1, <1>3 DEF ReplicaOK

\* A file that takes effect keeps what is known of the others.
LEMMA EffectAppends ==
  ASSUME MigrationsInv, NEW f \in 1 .. Files, TakesEffect(f)
  PROVE  /\ applied' \in Seq(1 .. Files)
         /\ Range(applied') = Range(applied) \cup {f}
         /\ DOMAIN applied' = 1 .. Len(applied) + 1
         /\ Len(applied) \in Nat /\ DOMAIN applied = 1 .. Len(applied)
         /\ \A i \in DOMAIN applied : applied'[i] = applied[i]
         /\ applied'[Len(applied) + 1] = f
<1>1. applied \in Seq(1 .. Files) BY DEF MigrationsInv, MigrationsTypeOK
<1>2. applied' = Append(applied, f) BY DEF TakesEffect
<1>3. /\ applied' \in Seq(1 .. Files) /\ Len(applied') = Len(applied) + 1
      /\ \A i \in 1 .. Len(applied) : applied'[i] = applied[i]
      /\ applied'[Len(applied) + 1] = f
  BY <1>1, <1>2, AppendProperties
<1>4. /\ DOMAIN applied' = 1 .. Len(applied) + 1 /\ Len(applied) \in Nat
      /\ DOMAIN applied = 1 .. Len(applied)
  BY <1>1, <1>3, LenProperties
<1>5. Range(applied') = Range(applied) \cup {f}
  BY <1>3, <1>4 DEF Range
<1> QED BY <1>3, <1>4, <1>5

\* Statements that take effect leave the invariant, when the file is one the
\* replica may apply.
LEMMA EffectKeepsOrder ==
  ASSUME MigrationsInv, NEW r \in Replica, replica[r].stage = "apply",
         NEW f, f = replica[r].next, TakesEffect(f)
  PROVE  /\ f \in 1 .. Files
         /\ recorded \subseteq Range(applied')
         /\ \A i \in DOMAIN applied' :
              applied'[i] # 1 => \E k \in 1 .. i - 1 : applied'[k] + 1 = applied'[i]
<1>1. ReplicaOK(r) BY DEF MigrationsInv
<1>2. /\ replica[r].next \in 1 .. Files + 1 /\ replica[r].files \in 0 .. Files
      /\ Files \in Nat
  BY MigrationsAssumption DEF MigrationsInv, MigrationsTypeOK
<1>3. f \in 1 .. Files BY <1>1, <1>2 DEF ReplicaOK
<1> USE <1>3
<1>4. /\ applied' \in Seq(1 .. Files)
      /\ Range(applied') = Range(applied) \cup {f}
      /\ DOMAIN applied' = 1 .. Len(applied) + 1
      /\ Len(applied) \in Nat /\ DOMAIN applied = 1 .. Len(applied)
      /\ \A i \in DOMAIN applied : applied'[i] = applied[i]
      /\ applied'[Len(applied) + 1] = f
  BY EffectAppends
<1>5. recorded \subseteq Range(applied') BY <1>4 DEF MigrationsInv
<1>6. ASSUME NEW i \in DOMAIN applied', applied'[i] # 1
      PROVE  \E k \in 1 .. i - 1 : applied'[k] + 1 = applied'[i]
  <2>1. CASE i \in DOMAIN applied
    <3>1. PICK k \in 1 .. i - 1 : applied[k] + 1 = applied[i]
      BY <1>4, <1>6, <2>1 DEF MigrationsInv
    <3>2. k \in DOMAIN applied BY <1>4, <2>1, <3>1
    <3> QED BY <1>4, <2>1, <3>1, <3>2
  <2>2. CASE i = Len(applied) + 1
    <3>1. f # 1 BY <1>4, <1>6, <2>2
    <3>2. f - 1 \in 1 .. f - 1 BY <3>1
    <3>3. f - 1 \in recorded BY <1>1, <3>2 DEF ReplicaOK
    <3>4. PICK k \in DOMAIN applied : applied[k] = f - 1
      BY <3>3 DEF MigrationsInv, Range
    <3>5. k \in 1 .. i - 1 /\ applied'[k] + 1 = applied'[i]
      BY <1>4, <2>2, <3>4
    <3> QED BY <3>5
  <2> QED BY <1>4, <2>1, <2>2
<1> QED BY <1>3, <1>5, <1>6

\* What a replica knows stays true when others only add records and effects.
LEMMA ReplicaStays ==
  ASSUME MigrationsInv, NEW r \in Replica, replica'[r] = replica[r],
         recorded \subseteq recorded', Range(applied) \subseteq Range(applied')
  PROVE  ReplicaOK(r)'
BY DEF MigrationsInv, ReplicaOK

ReplicaRow == [stage : {"down", "connect", "check", "apply", "record", "serving"},
               files : 0 .. Files, next : 1 .. Files + 1]

LEMMA SetReplicaTyped ==
  ASSUME MigrationsTypeOK, NEW r \in Replica, NEW s \in ReplicaRow, SetReplica(r, s)
  PROVE  replica' \in [Replica -> ReplicaRow]
BY DEF MigrationsTypeOK, ReplicaRow, SetReplica

\* The rows a replica may be given.
LEMMA RowsTyped ==
  ASSUME MigrationsTypeOK, NEW r \in Replica
  PROVE  /\ Down \in ReplicaRow
         /\ \A st \in {"down", "connect", "check", "apply", "record", "serving"} :
              [replica[r] EXCEPT !.stage = st] \in ReplicaRow
         /\ \A n \in 1 .. Files + 1 :
              /\ [replica[r] EXCEPT !.next = n] \in ReplicaRow
              /\ [stage |-> "check", files |-> replica[r].files, next |-> n] \in ReplicaRow
<1>1. replica[r] \in ReplicaRow BY DEF MigrationsTypeOK, ReplicaRow
<1>2. Down \in ReplicaRow BY MigrationsAssumption DEF Down, ReplicaRow
<1>3. ASSUME NEW st \in {"down", "connect", "check", "apply", "record", "serving"}
      PROVE [replica[r] EXCEPT !.stage = st] \in ReplicaRow
  BY <1>1 DEF ReplicaRow
<1>4. ASSUME NEW n \in 1 .. Files + 1
      PROVE  /\ [replica[r] EXCEPT !.next = n] \in ReplicaRow
             /\ [stage |-> "check", files |-> replica[r].files, next |-> n] \in ReplicaRow
  BY <1>1 DEF ReplicaRow
<1> QED BY <1>2, <1>3, <1>4

LEMMA MigrationsTypeStays ==
  ASSUME MigrationsInv, [MigrationsNext]_migrationVars
  PROVE  MigrationsTypeOK'
<1> USE MigrationsAssumption
<1>0. MigrationsTypeOK BY DEF MigrationsInv
<1> DEFINE Typed == replica' \in [Replica -> ReplicaRow]
<1>1. CASE UNCHANGED migrationVars BY <1>0, <1>1 DEF migrationVars, MigrationsTypeOK
<1>2. ASSUME NEW r \in Replica, NEW n \in 1 .. Files, StartReplica(r, n)
      PROVE  MigrationsTypeOK'
  BY <1>0, <1>2 DEF StartReplica, SetReplica, NoDatabase, MigrationsTypeOK
<1>a. ASSUME NEW r \in Replica, Fatal(r) PROVE Typed
  BY <1>0, <1>a, RowsTyped, SetReplicaTyped DEF Fatal
<1>b. ASSUME NEW r \in Replica, NEW st \in {"down", "connect", "check", "apply", "record", "serving"},
             SetReplica(r, [replica[r] EXCEPT !.stage = st])
      PROVE  Typed
  BY <1>0, <1>b, RowsTyped, SetReplicaTyped
<1>c. ASSUME NEW r \in Replica, Typed, NoDatabase, starts' = starts PROVE MigrationsTypeOK'
  BY <1>0, <1>c DEF NoDatabase, ReplicaRow, MigrationsTypeOK
<1>3. ASSUME NEW r \in Replica, ConnectPools(r) PROVE MigrationsTypeOK'
  <2>1. SetReplica(r, [replica[r] EXCEPT !.stage = "check"]) \/ Fatal(r)
    BY <1>3 DEF ConnectPools
  <2>2. Typed BY <2>1, <1>a, <1>b
  <2> QED BY <1>3, <1>c, <2>2 DEF ConnectPools
<1>4. ASSUME NEW r \in Replica, CheckMigration(r) PROVE MigrationsTypeOK'
  <2>1. PICK n : n = replica[r].next + 1 OBVIOUS
  <2>2. n \in 1 .. Files + 1 BY <1>0, <1>4, <2>1 DEF CheckMigration, MigrationsTypeOK
  <2>3. \/ SetReplica(r, [replica[r] EXCEPT !.next = n])
        \/ SetReplica(r, [replica[r] EXCEPT !.stage = "apply"])
        \/ Fatal(r)
    BY <1>4, <2>1 DEF CheckMigration
  <2>5. Typed
    <3>1. CASE SetReplica(r, [replica[r] EXCEPT !.next = n])
      BY <1>0, <2>2, <3>1, RowsTyped, SetReplicaTyped
    <3> QED BY <2>3, <3>1, <1>a, <1>b
  <2> QED BY <1>4, <1>c, <2>5 DEF CheckMigration
<1>5. ASSUME NEW r \in Replica, replica[r].stage \in {"apply", "record"} PROVE replica[r].next \in 1 .. Files
  <2>1. ReplicaOK(r) BY DEF MigrationsInv
  <2> QED BY <1>0, <1>5, <2>1 DEF ReplicaOK, MigrationsTypeOK
<1>6. ASSUME NEW r \in Replica, Continue(r), replica[r].stage \in {"apply", "record"}
      PROVE Typed
  <2>1. PICK n : n = replica[r].next + 1 OBVIOUS
  <2>2. n \in 1 .. Files + 1 BY <1>5, <1>6, <2>1
  <2>3. SetReplica(r, [stage |-> "check", files |-> replica[r].files, next |-> n]) \/ Fatal(r)
    BY <1>6, <2>1 DEF Continue
  <2>4. CASE SetReplica(r, [stage |-> "check", files |-> replica[r].files, next |-> n])
    BY <1>0, <2>2, <2>4, RowsTyped, SetReplicaTyped
  <2> QED BY <2>3, <2>4, <1>a
<1>d. ASSUME NEW r \in Replica, Typed, together' = together, starts' = starts,
             applied' \in Seq(1 .. Files), recorded' \subseteq 1 .. Files
      PROVE  MigrationsTypeOK'
  BY <1>0, <1>d DEF ReplicaRow, MigrationsTypeOK
<1>e. applied \in Seq(1 .. Files) /\ recorded \subseteq 1 .. Files
  BY <1>0 DEF MigrationsTypeOK
<1>7. ASSUME NEW r \in Replica, ApplyMigration(r) PROVE MigrationsTypeOK'
  <2>1. CASE UNCHANGED <<applied, recorded>> /\ Fatal(r)
    BY <1>7, <1>a, <1>d, <1>e, <2>1 DEF ApplyMigration
  <2>2. CASE TakesEffect(replica[r].next) /\ RecordMigration(replica[r].next) /\ Continue(r)
    <3>1. applied' \in Seq(1 .. Files) BY <1>5, <1>7, <2>2, EffectAppends DEF ApplyMigration
    <3>2. recorded' \subseteq 1 .. Files
      BY <1>e, <1>5, <1>7, <2>2 DEF ApplyMigration, RecordMigration
    <3> QED BY <1>6, <1>7, <1>d, <2>2, <3>1, <3>2 DEF ApplyMigration
  <2> QED BY <1>7, <2>1, <2>2 DEF ApplyMigration
<1>8. ASSUME NEW r \in Replica, ExecMigration(r) PROVE MigrationsTypeOK'
  <2>1. CASE UNCHANGED applied /\ Fatal(r)
    BY <1>8, <1>a, <1>d, <1>e, <2>1 DEF ExecMigration
  <2>2. CASE TakesEffect(replica[r].next) /\ (SetReplica(r, [replica[r] EXCEPT !.stage = "record"]) \/ Fatal(r))
    <3>1. applied' \in Seq(1 .. Files) BY <1>5, <1>8, <2>2, EffectAppends DEF ExecMigration
    <3>2. Typed BY <2>2, <1>a, <1>b
    <3> QED BY <1>8, <1>d, <1>e, <3>1, <3>2 DEF ExecMigration
  <2> QED BY <1>8, <2>1, <2>2 DEF ExecMigration
<1>9. ASSUME NEW r \in Replica, RecordApplied(r) PROVE MigrationsTypeOK'
  <2>1. CASE UNCHANGED recorded /\ Fatal(r)
    BY <1>9, <1>a, <1>d, <1>e, <2>1 DEF RecordApplied
  <2>2. CASE RecordMigration(replica[r].next) /\ Continue(r)
    <3>1. recorded' \subseteq 1 .. Files
      BY <1>e, <1>5, <1>9, <2>2 DEF RecordApplied, RecordMigration
    <3> QED BY <1>6, <1>9, <1>d, <1>e, <2>2, <3>1 DEF RecordApplied
  <2> QED BY <1>9, <2>1, <2>2 DEF RecordApplied
<1>10. ASSUME NEW r \in Replica, Serve(r) PROVE MigrationsTypeOK'
  BY <1>10, <1>b, <1>c DEF Serve
<1>11. ASSUME NEW r \in Replica, StopReplica(r) PROVE MigrationsTypeOK'
  BY <1>11, <1>a, <1>c DEF StopReplica
<1> QED BY <1>1, <1>2, <1>3, <1>4, <1>7, <1>8, <1>9, <1>10, <1>11 DEF MigrationsNext

\* The step of a replica that leaves the database alone.
LEMMA QuietStart ==
  ASSUME MigrationsInv, MigrationsTypeOK', NoDatabase, NEW r \in Replica,
         NEW s, SetReplica(r, s), ReplicaOK(r)'
  PROVE  MigrationsInv'
<1>1. \A x \in Replica : ReplicaOK(x)'
  <2> TAKE x \in Replica
  <2>1. CASE x = r BY <2>1
  <2>2. CASE x # r
    <3>1. replica'[x] = replica[x] BY <2>2 DEF SetReplica, MigrationsInv, MigrationsTypeOK
    <3> QED BY <3>1, ReplicaStays DEF NoDatabase
  <2> QED BY <2>1, <2>2
<1> QED BY <1>1 DEF MigrationsInv, NoDatabase

\* A step that applies or records, of a replica that goes on or is down after it.
LEMMA DatabaseGrows ==
  ASSUME MigrationsInv, MigrationsTypeOK', NEW r \in Replica, NEW s, SetReplica(r, s),
         recorded \subseteq recorded', Range(applied) \subseteq Range(applied'), ReplicaOK(r)'
  PROVE  \A x \in Replica : ReplicaOK(x)'
<1> TAKE x \in Replica
<1>1. CASE x = r BY <1>1
<1>2. CASE x # r
  <2>1. replica'[x] = replica[x] BY <1>2 DEF SetReplica, MigrationsInv, MigrationsTypeOK
  <2> QED BY <2>1, ReplicaStays
<1> QED BY <1>1, <1>2

LEMMA MigrationsInvStays ==
  ASSUME MigrationsInv, [MigrationsNext]_migrationVars
  PROVE  MigrationsInv'
<1> USE MigrationsAssumption
<1>t. MigrationsTypeOK' BY MigrationsTypeStays
<1>0. MigrationsTypeOK BY DEF MigrationsInv
<1>1. CASE UNCHANGED migrationVars
  BY <1>0, <1>1, <1>t DEF migrationVars, MigrationsInv, MigrationsTypeOK, ReplicaOK
<1>d. ASSUME NEW r \in Replica, Fatal(r) PROVE ReplicaOK(r)'
  BY <1>0, <1>d DEF Fatal, SetReplica, Down, ReplicaOK, MigrationsTypeOK
<1>q. ASSUME NEW r \in Replica, Fatal(r), NoDatabase PROVE MigrationsInv'
  BY <1>d, <1>q, <1>t, QuietStart DEF Fatal
<1>2. ASSUME NEW r \in Replica, NEW n \in 1 .. Files, StartReplica(r, n)
      PROVE  MigrationsInv'
  <2>1. ReplicaOK(r)'
    BY <1>0, <1>2 DEF StartReplica, SetReplica, MigrationsTypeOK, ReplicaOK
  <2> QED BY <1>2, <1>t, <2>1, QuietStart DEF StartReplica
<1>3. ASSUME NEW r \in Replica, ConnectPools(r) PROVE MigrationsInv'
  <2>1. CASE SetReplica(r, [replica[r] EXCEPT !.stage = "check"])
    <3>1. ReplicaOK(r)'
      BY <1>0, <1>3, <2>1 DEF ConnectPools, SetReplica, NoDatabase, MigrationsInv, MigrationsTypeOK, ReplicaOK
    <3> QED BY <1>3, <1>t, <2>1, <3>1, QuietStart DEF ConnectPools
  <2> QED BY <1>3, <1>q, <2>1 DEF ConnectPools
<1>4. ASSUME NEW r \in Replica, CheckMigration(r) PROVE MigrationsInv'
  <2>o. ReplicaOK(r) BY DEF MigrationsInv
  <2>1. CASE replica[r].next \in recorded /\ SetReplica(r, [replica[r] EXCEPT !.next = replica[r].next + 1])
    <3>1. ReplicaOK(r)'
      <4>1. /\ replica'[r].stage = "check" /\ replica'[r].next = replica[r].next + 1
            /\ recorded' = recorded
        BY <1>0, <1>4, <2>1 DEF CheckMigration, SetReplica, NoDatabase, MigrationsTypeOK
      <4>2. replica[r].next \in Nat BY <1>0 DEF MigrationsTypeOK
      <4>3. 1 .. replica[r].next - 1 \subseteq recorded BY <1>4, <2>o DEF ReplicaOK, CheckMigration
      <4>4. 1 .. replica[r].next \subseteq recorded BY <2>1, <4>2, <4>3
      <4> QED BY <4>1, <4>2, <4>4 DEF ReplicaOK
    <3> QED BY <1>4, <1>t, <2>1, <3>1, QuietStart DEF CheckMigration
  <2>2. CASE SetReplica(r, [replica[r] EXCEPT !.stage = "apply"])
    <3>1. ReplicaOK(r)'
      BY <1>0, <1>4, <2>2, <2>o DEF CheckMigration, SetReplica, NoDatabase, MigrationsTypeOK, ReplicaOK
    <3> QED BY <1>4, <1>t, <2>2, <3>1, QuietStart DEF CheckMigration
  <2> QED BY <1>4, <1>q, <2>1, <2>2 DEF CheckMigration
<1>c. ASSUME NEW r \in Replica, replica[r].stage \in {"apply", "record"}, Continue(r),
             RecordMigration(replica[r].next), Range(applied) \subseteq Range(applied')
      PROVE  \A x \in Replica : ReplicaOK(x)'
  <2>1. replica[r].next \in Nat BY <1>0 DEF MigrationsTypeOK
  <2>2. 1 .. replica[r].next - 1 \subseteq recorded BY <1>c DEF MigrationsInv, ReplicaOK
  <2>3. 1 .. replica[r].next \subseteq recorded' BY <1>c, <2>1, <2>2 DEF RecordMigration
  <2>4. CASE SetReplica(r, [stage |-> "check", files |-> replica[r].files, next |-> replica[r].next + 1])
    <3>1. replica'[r] = [stage |-> "check", files |-> replica[r].files, next |-> replica[r].next + 1]
      BY <1>0, <2>4 DEF SetReplica, MigrationsTypeOK
    <3>2. ReplicaOK(r)' BY <2>1, <2>3, <3>1 DEF ReplicaOK
    <3> QED BY <1>c, <1>t, <2>4, <3>2, DatabaseGrows DEF RecordMigration
  <2>5. CASE Fatal(r)
    BY <1>c, <1>d, <1>t, <2>5, DatabaseGrows DEF RecordMigration, Fatal
  <2> QED BY <1>c, <2>4, <2>5 DEF Continue
<1>5. ASSUME NEW r \in Replica, ApplyMigration(r) PROVE MigrationsInv'
  <2> DEFINE f == replica[r].next
  <2>1. CASE UNCHANGED <<applied, recorded>> /\ Fatal(r)
    BY <1>5, <1>q, <2>1 DEF ApplyMigration, NoDatabase
  <2>2. CASE TakesEffect(f) /\ RecordMigration(f) /\ Continue(r)
    <3>1. /\ f \in 1 .. Files
          /\ recorded \subseteq Range(applied')
          /\ \A i \in DOMAIN applied' :
               applied'[i] # 1 => \E k \in 1 .. i - 1 : applied'[k] + 1 = applied'[i]
      BY <1>5, <2>2, EffectKeepsOrder DEF ApplyMigration
    <3>2. /\ Range(applied') = Range(applied) \cup {f}
          /\ DOMAIN applied' = 1 .. Len(applied) + 1
          /\ Len(applied) \in Nat /\ DOMAIN applied = 1 .. Len(applied)
          /\ \A i \in DOMAIN applied : applied'[i] = applied[i]
          /\ applied'[Len(applied) + 1] = f
      BY <2>2, <3>1, EffectAppends
    <3>3. \A x \in Replica : ReplicaOK(x)' BY <1>5, <1>c, <2>2, <3>2 DEF ApplyMigration
    <3>4. recorded' \subseteq Range(applied') BY <2>2, <3>1, <3>2 DEF RecordMigration
    <3>5. f \notin Range(applied)
      BY <1>5, <2>2 DEF ApplyMigration, RecordMigration, MigrationsInv
    <3>6. Range(applied') \subseteq recorded'
      BY <1>5, <2>2, <3>2 DEF ApplyMigration, RecordMigration, MigrationsInv
    <3>7. \A i, k \in DOMAIN applied' : applied'[i] = applied'[k] => i = k
      <4>1. \A i \in DOMAIN applied : applied[i] # f BY <3>5 DEF Range
      <4>2. \A i, k \in DOMAIN applied : applied[i] = applied[k] => i = k
        BY <1>5 DEF ApplyMigration, MigrationsInv
      <4>3. \A i \in DOMAIN applied' : i \in DOMAIN applied \/ i = Len(applied) + 1 BY <3>2
      <4> QED BY <3>2, <4>1, <4>2, <4>3
    <3> QED BY <1>5, <1>t, <3>1, <3>3, <3>4, <3>6, <3>7 DEF ApplyMigration, MigrationsInv
  <2> QED BY <1>5, <2>1, <2>2 DEF ApplyMigration
<1>6. ASSUME NEW r \in Replica, ExecMigration(r) PROVE MigrationsInv'
  <2> DEFINE f == replica[r].next
  <2>1. CASE UNCHANGED applied /\ Fatal(r)
    BY <1>6, <1>q, <2>1 DEF ExecMigration, NoDatabase
  <2>2. CASE TakesEffect(f) /\ (SetReplica(r, [replica[r] EXCEPT !.stage = "record"]) \/ Fatal(r))
    <3>1. /\ f \in 1 .. Files
          /\ recorded \subseteq Range(applied')
          /\ \A i \in DOMAIN applied' :
               applied'[i] # 1 => \E k \in 1 .. i - 1 : applied'[k] + 1 = applied'[i]
      BY <1>6, <2>2, EffectKeepsOrder DEF ExecMigration
    <3>2. Range(applied') = Range(applied) \cup {f}
      BY <2>2, <3>1, EffectAppends
    <3>3. \A x \in Replica : ReplicaOK(x)'
      <4>1. CASE Fatal(r)
        BY <1>6, <1>d, <1>t, <3>2, <4>1, DatabaseGrows DEF ExecMigration, Fatal
      <4>2. CASE SetReplica(r, [replica[r] EXCEPT !.stage = "record"])
        <5>1. ReplicaOK(r) BY DEF MigrationsInv
        <5>2. /\ replica'[r].stage = "record" /\ replica'[r].next = f
              /\ replica'[r].files = replica[r].files
          BY <1>0, <4>2 DEF SetReplica, MigrationsTypeOK
        <5>3. ReplicaOK(r)' BY <1>6, <3>2, <5>1, <5>2 DEF ExecMigration, ReplicaOK
        <5> QED BY <1>6, <1>t, <3>2, <4>2, <5>3, DatabaseGrows DEF ExecMigration
      <4> QED BY <2>2, <4>1, <4>2
    <3> QED BY <1>6, <1>t, <3>1, <3>3 DEF ExecMigration, MigrationsInv
  <2> QED BY <1>6, <2>1, <2>2 DEF ExecMigration
<1>7. ASSUME NEW r \in Replica, RecordApplied(r) PROVE MigrationsInv'
  <2>1. CASE UNCHANGED recorded /\ Fatal(r)
    BY <1>7, <1>q, <2>1 DEF RecordApplied, NoDatabase
  <2>2. CASE RecordMigration(replica[r].next) /\ Continue(r)
    <3>1. \A x \in Replica : ReplicaOK(x)' BY <1>7, <1>c, <2>2 DEF RecordApplied
    <3>2. recorded' \subseteq Range(applied)
      BY <1>7, <2>2 DEF RecordApplied, RecordMigration, MigrationsInv, ReplicaOK
    <3>3. recorded \subseteq recorded' BY <2>2 DEF RecordMigration
    <3> QED BY <1>7, <1>t, <3>1, <3>2, <3>3 DEF RecordApplied, MigrationsInv
  <2> QED BY <1>7, <2>1, <2>2 DEF RecordApplied
<1>8. ASSUME NEW r \in Replica, Serve(r) PROVE MigrationsInv'
  <2>o. ReplicaOK(r) BY DEF MigrationsInv
  <2>1. ReplicaOK(r)'
    BY <1>0, <1>8, <2>o DEF Serve, SetReplica, NoDatabase, MigrationsTypeOK, ReplicaOK
  <2> QED BY <1>8, <1>t, <2>1, QuietStart DEF Serve
<1>9. ASSUME NEW r \in Replica, StopReplica(r) PROVE MigrationsInv'
  BY <1>9, <1>q DEF StopReplica
<1> QED BY <1>1, <1>2, <1>3, <1>4, <1>5, <1>6, <1>7, <1>8, <1>9 DEF MigrationsNext

LEMMA MigrationsInvStarts == MigrationsInit => MigrationsInv
<1> SUFFICES ASSUME MigrationsInit PROVE MigrationsInv OBVIOUS
<1>1. MigrationsTypeOK
  BY MigrationsAssumption DEF MigrationsInit, MigrationsTypeOK, Down
<1>2. \A r \in Replica : ReplicaOK(r) BY DEF MigrationsInit, ReplicaOK, Down
<1>3. DOMAIN applied = {} BY DEF MigrationsInit
<1> QED BY <1>1, <1>2, <1>3 DEF MigrationsInit, MigrationsInv, Range

\* Any number of replicas that start, race and die at any point: a file takes
\* effect after the one before it and is recorded only then, once if both
\* commit together, and who serves has all its files (RunMigrations).
THEOREM MigratedBeforeServing == MigrationsSpec => []ServingIsMigrated
<1>1. MigrationsSpec => []MigrationsInv
  BY MigrationsInvStarts, MigrationsInvStays, PTL DEF MigrationsSpec
<1> QED BY <1>1, MigrationsInvServes, PTL

-----------------------------------------------------------------------------
(* The keys of access tokens *)

RequestRow == [stage : {"idle", "fetch", "store", "again", "granted", "refused"},
               kid : Kid, since : Nat, keys : SUBSET Kid, failed : BOOLEAN]

KeyTypes ==
  /\ signing \in [Issuer -> Kid] /\ left \in [Kid -> Nat]
  /\ known \subseteq Kid /\ fetchedAt \in Nat /\ keyNow \in Nat
  /\ request \in [Request -> RequestRow]

\* A key was published at instant t or later.
PublishedAt(k, t) == k \in Published \/ left[k] > t

\* A response holds keys that were published when it was served, so not before
\* its request; a request that has just refreshed the cache looks at it at once.
RequestOK(q) ==
  /\ request[q].stage \in {"fetch", "store"} =>
       /\ request[q].since <= keyNow /\ keyNow <= request[q].since + FetchTime
       /\ \A k \in request[q].keys : PublishedAt(k, request[q].since)
  /\ request[q].stage = "again" /\ ~request[q].failed => fetchedAt = keyNow
  /\ request[q].stage = "granted" /\ ~request[q].failed =>
       \/ request[q].kid \in Published
       \/ keyNow < left[request[q].kid] + KeyTTL + FetchTime

\* What the cache holds was published at most a fetch before it was stored.
KeysInv ==
  /\ KeyTypes
  /\ fetchedAt <= keyNow
  /\ \A k \in Kid : left[k] <= keyNow + 1
  /\ \A k \in known : k \in Published \/ left[k] + FetchTime > fetchedAt
  /\ \A q \in Request : RequestOK(q)

LEMMA KeyTypesStay ==
  ASSUME KeyTypes, [KeysNext]_keyVars PROVE KeyTypes'
<1> USE TokenKeysAssumption DEF KeyTypes
<1>0. MaxKid \in Nat /\ Kid = 0 .. MaxKid BY DEF Kid
<1>r. ASSUME NEW q \in Request, NEW s \in RequestRow, SetRequest(q, s)
      PROVE  request' \in [Request -> RequestRow]
  BY <1>r DEF SetRequest
<1>a. ASSUME NEW q \in Request, NEW stage \in {"idle", "fetch", "store", "again", "granted", "refused"},
             NEW keys \in SUBSET Kid, NEW failed \in BOOLEAN, Advance(q, stage, keys, failed)
      PROVE  request' \in [Request -> RequestRow]
  <2>1. request[q] \in RequestRow OBVIOUS
  <2>2. [stage |-> stage, kid |-> request[q].kid, since |-> request[q].since,
         keys |-> keys, failed |-> failed] \in RequestRow
    BY <2>1 DEF RequestRow
  <2> QED BY <1>a, <1>r, <2>2 DEF Advance
<1>b. \A g : JWKS(g) \subseteq Kid BY DEF JWKS
<1>n. NoRequest \in RequestRow BY <1>0 DEF NoRequest, RequestRow
<1>1. ASSUME NEW i \in Issuer, Rotate(i) PROVE KeyTypes'
  <2>1. signing[i] + 1 \in Kid BY <1>0, <1>1 DEF Rotate
  <2>2. signing' \in [Issuer -> Kid] BY <1>1, <2>1 DEF Rotate
  <2>3. left' \in [Kid -> Nat] BY <1>1 DEF Rotate
  <2> QED BY <1>1, <2>2, <2>3 DEF Rotate
<1>2. ASSUME NEW q \in Request, NEW k \in Kid, GetKey(q, k) PROVE KeyTypes'
  <2>1. [stage |-> IF k \in known /\ ~KeysExpired THEN "granted" ELSE "fetch",
         kid |-> k, since |-> keyNow, keys |-> {}, failed |-> FALSE] \in RequestRow
    BY DEF RequestRow
  <2> QED BY <1>2, <1>r, <2>1 DEF GetKey
<1>3. ASSUME NEW q \in Request, NEW i \in Issuer, ServeJWKS(q, i) PROVE KeyTypes'
  BY <1>3, <1>a, <1>b DEF ServeJWKS
<1>4. ASSUME NEW q \in Request, StoreKeys(q) PROVE KeyTypes'
  <2>1. request[q].keys \subseteq Kid BY DEF RequestRow
  <2> QED BY <1>4, <1>a, <2>1 DEF StoreKeys
<1>5. ASSUME NEW q \in Request, FetchFails(q) PROVE KeyTypes'
  BY <1>5, <1>a DEF FetchFails
<1>6. ASSUME NEW q \in Request, LookAgain(q) PROVE KeyTypes'
  <2>1. request[q].failed \in BOOLEAN BY DEF RequestRow
  <2> QED BY <1>6, <1>a, <2>1 DEF LookAgain
<1>7. ASSUME NEW q \in Request, EndRequest(q) PROVE KeyTypes'
  BY <1>7, <1>r, <1>n DEF EndRequest
<1>8. CASE ValidatorRestarts BY <1>8, <1>n DEF ValidatorRestarts
<1>9. CASE KeyTick BY <1>9 DEF KeyTick
<1>10. CASE UNCHANGED keyVars BY <1>10 DEF keyVars
<1> QED BY <1>1, <1>2, <1>3, <1>4, <1>5, <1>6, <1>7, <1>8, <1>9, <1>10 DEF KeysNext

\* A rotation keeps what is known of a key: published, or gone later than it was.
LEMMA RotationRemembers ==
  ASSUME KeysInv, NEW i \in Issuer, Rotate(i), NEW k \in Kid
  PROVE  /\ left'[k] \in Nat /\ left[k] \in Nat /\ left'[k] >= left[k] /\ left'[k] <= keyNow + 1
         /\ k \in Published => k \in Published' \/ left'[k] = keyNow + 1
<1>1. left[k] \in Nat /\ keyNow \in Nat /\ left[k] <= keyNow + 1
  BY DEF KeysInv, KeyTypes
<1>2. left'[k] = IF k \in JWKS(signing[i]) \ JWKS(signing'[i]) THEN keyNow + 1 ELSE left[k]
  BY DEF Rotate
<1>3. ASSUME k \in Published, k \notin Published' PROVE k \in JWKS(signing[i]) \ JWKS(signing'[i])
  <2>1. PICK j \in Issuer : k \in JWKS(signing[j]) BY <1>3 DEF Published
  <2>2. \A x \in Issuer : k \notin JWKS(signing'[x]) BY <1>3 DEF Published
  <2>3. j = i
    <3>1. j # i => signing'[j] = signing[j] BY DEF Rotate, KeysInv, KeyTypes
    <3> QED BY <2>1, <2>2, <3>1
  <2> QED BY <2>1, <2>2, <2>3
<1> QED BY <1>1, <1>2, <1>3

\* The requests other than the one that moves, when keys, cache and clock stay.
LEMMA OtherRequestsStay ==
  ASSUME KeysInv, NEW q \in Request, NEW s, SetRequest(q, s),
         UNCHANGED <<signing, left, known, fetchedAt, keyNow>>, RequestOK(q)'
  PROVE  \A x \in Request : RequestOK(x)'
<1> TAKE x \in Request
<1>1. CASE x = q BY <1>1
<1>2. CASE x # q
  <2>1. request'[x] = request[x] BY <1>2 DEF SetRequest, KeysInv, KeyTypes
  <2>2. RequestOK(x) BY DEF KeysInv
  <2> QED BY <2>1, <2>2 DEF RequestOK, PublishedAt, Published
<1> QED BY <1>1, <1>2

LEMMA KeysInvStays ==
  ASSUME KeysInv, [KeysNext]_keyVars PROVE KeysInv'
<1> USE TokenKeysAssumption
<1>t. KeyTypes' BY KeyTypesStay DEF KeysInv
<1>0. KeyTypes BY DEF KeysInv
<1>n. /\ keyNow \in Nat /\ fetchedAt \in Nat /\ fetchedAt <= keyNow
      /\ \A k \in Kid : left[k] \in Nat /\ left[k] <= keyNow + 1
  BY DEF KeysInv, KeyTypes
<1>p. ASSUME UNCHANGED signing PROVE Published' = Published BY <1>p DEF Published
\* A step of a request that leaves the cache alone.
<1>q. ASSUME NEW q \in Request, NEW s, SetRequest(q, s),
             UNCHANGED <<signing, left, known, fetchedAt, keyNow>>, RequestOK(q)'
      PROVE  KeysInv'
  <2>1. \A x \in Request : RequestOK(x)' BY <1>q, OtherRequestsStay
  <2> QED BY <1>t, <1>p, <1>q, <2>1 DEF KeysInv
<1>1. ASSUME NEW i \in Issuer, Rotate(i) PROVE KeysInv'
  <2>1. \A k \in Kid :
          /\ left'[k] \in Nat /\ left[k] \in Nat /\ left'[k] >= left[k] /\ left'[k] <= keyNow + 1
          /\ k \in Published => k \in Published' \/ left'[k] = keyNow + 1
    BY <1>1, RotationRemembers
  <2>2. UNCHANGED <<known, fetchedAt, request, keyNow>> BY <1>1 DEF Rotate
  <2>3. ASSUME NEW k \in known PROVE k \in Published' \/ left'[k] + FetchTime > fetchedAt
    <3>1. k \in Kid BY <1>0 DEF KeyTypes
    <3>2. k \in Published \/ left[k] + FetchTime > fetchedAt BY DEF KeysInv
    <3>3. FetchTime \in Nat OBVIOUS
    <3> QED BY <1>n, <2>1, <3>1, <3>2, <3>3
  <2>4. ASSUME NEW q \in Request PROVE RequestOK(q)'
    <3>1. RequestOK(q) /\ request[q] \in RequestRow BY <1>0 DEF KeysInv, KeyTypes
    <3>2. request[q].kid \in Kid /\ request[q].since \in Nat /\ request[q].keys \subseteq Kid
      BY <3>1 DEF RequestRow
    <3>3. ASSUME NEW k \in request[q].keys, PublishedAt(k, request[q].since), request[q].since <= keyNow
          PROVE PublishedAt(k, request[q].since)'
      BY <1>n, <2>1, <2>2, <3>2, <3>3 DEF PublishedAt
    <3>4. ASSUME request[q].stage = "granted", ~request[q].failed
          PROVE  \/ request[q].kid \in Published'
                 \/ keyNow < left'[request[q].kid] + KeyTTL + FetchTime
      <4>1. \/ request[q].kid \in Published
            \/ keyNow < left[request[q].kid] + KeyTTL + FetchTime
        BY <3>1, <3>4 DEF RequestOK
      <4>2. KeyTTL \in Nat /\ FetchTime \in Nat OBVIOUS
      <4> QED BY <1>n, <2>1, <3>2, <4>1, <4>2
    <3> QED BY <2>2, <3>1, <3>3, <3>4 DEF RequestOK
  <2> QED BY <1>t, <1>n, <2>1, <2>2, <2>3, <2>4 DEF KeysInv
<1>2. ASSUME NEW q \in Request, NEW k \in Kid, GetKey(q, k) PROVE KeysInv'
  <2>1. /\ request'[q].stage = IF k \in known /\ ~KeysExpired THEN "granted" ELSE "fetch"
        /\ request'[q].kid = k /\ request'[q].since = keyNow /\ request'[q].keys = {}
    BY <1>0, <1>2 DEF GetKey, SetRequest, KeyTypes
  <2>2. ASSUME k \in known, ~KeysExpired
        PROVE  k \in Published \/ keyNow < left[k] + KeyTTL + FetchTime
    <3>1. keyNow - fetchedAt <= KeyTTL BY <1>n, <2>2 DEF KeysExpired
    <3>2. k \in Published \/ left[k] + FetchTime > fetchedAt BY <2>2 DEF KeysInv
    <3>3. KeyTTL \in Nat /\ FetchTime \in Nat OBVIOUS
    <3> QED BY <1>n, <3>1, <3>2, <3>3
  <2>3. UNCHANGED <<signing, left, known, fetchedAt, keyNow>> BY <1>2 DEF GetKey
  <2>4. RequestOK(q)'
    <3>1. FetchTime \in Nat OBVIOUS
    <3> QED BY <1>n, <1>p, <2>1, <2>2, <2>3, <3>1 DEF RequestOK
  <2> QED BY <1>2, <1>q, <2>3, <2>4 DEF GetKey
<1>3. ASSUME NEW q \in Request, NEW i \in Issuer, ServeJWKS(q, i) PROVE KeysInv'
  <2>1. /\ request'[q].stage = "store" /\ request'[q].since = request[q].since
        /\ request'[q].keys = JWKS(signing[i])
    BY <1>0, <1>3 DEF ServeJWKS, Advance, SetRequest, KeyTypes
  <2>2. JWKS(signing[i]) \subseteq Published BY DEF Published
  <2>3. UNCHANGED <<signing, left, known, fetchedAt, keyNow>> BY <1>3 DEF ServeJWKS
  <2>4. RequestOK(q) /\ request[q].stage = "fetch" BY <1>3 DEF ServeJWKS, KeysInv
  <2>5. RequestOK(q)' BY <1>p, <2>1, <2>2, <2>3, <2>4 DEF RequestOK, PublishedAt
  <2> QED BY <1>3, <1>q, <2>3, <2>5 DEF ServeJWKS, Advance
<1>4. ASSUME NEW q \in Request, StoreKeys(q) PROVE KeysInv'
  <2>1. request'[q].stage = "again" /\ request'[q].failed = FALSE
    BY <1>0, <1>4 DEF StoreKeys, Advance, SetRequest, KeyTypes
  <2>2. RequestOK(q) /\ request[q].stage = "store" /\ request[q] \in RequestRow
    BY <1>0, <1>4 DEF StoreKeys, KeysInv, KeyTypes
  <2>3. request[q].since \in Nat /\ request[q].keys \subseteq Kid BY <2>2 DEF RequestRow
  <2>4. UNCHANGED <<signing, left, keyNow>> /\ known' = request[q].keys /\ fetchedAt' = keyNow
    BY <1>4 DEF StoreKeys
  <2>5. ASSUME NEW k \in known' PROVE k \in Published \/ left[k] + FetchTime > keyNow
    <3>1. PublishedAt(k, request[q].since) /\ keyNow <= request[q].since + FetchTime
      BY <2>2, <2>4 DEF RequestOK
    <3>2. FetchTime \in Nat /\ left[k] \in Nat BY <1>n, <2>3, <2>4
    <3> QED BY <1>n, <2>3, <3>1, <3>2 DEF PublishedAt
  <2>6. ASSUME NEW x \in Request PROVE RequestOK(x)'
    <3>1. CASE x = q BY <2>1, <2>4, <3>1 DEF RequestOK
    <3>2. CASE x # q
      <4>1. request'[x] = request[x] BY <1>0, <1>4, <3>2 DEF StoreKeys, Advance, SetRequest, KeyTypes
      <4>2. RequestOK(x) BY DEF KeysInv
      <4> QED BY <1>p, <2>4, <4>1, <4>2 DEF RequestOK, PublishedAt
    <3> QED BY <3>1, <3>2
  <2> QED BY <1>t, <1>n, <1>p, <2>4, <2>5, <2>6 DEF KeysInv
<1>5. ASSUME NEW q \in Request, FetchFails(q) PROVE KeysInv'
  <2>1. request'[q].stage = "again" /\ request'[q].failed = TRUE
    BY <1>0, <1>5 DEF FetchFails, Advance, SetRequest, KeyTypes
  <2>2. RequestOK(q)' BY <2>1 DEF RequestOK
  <2> QED BY <1>5, <1>q, <2>2 DEF FetchFails, Advance
<1>6. ASSUME NEW q \in Request, LookAgain(q) PROVE KeysInv'
  <2>1. /\ request'[q].stage = IF request[q].kid \in known THEN "granted" ELSE "refused"
        /\ request'[q].kid = request[q].kid /\ request'[q].failed = request[q].failed
    BY <1>0, <1>6 DEF LookAgain, Advance, SetRequest, KeyTypes
  <2>2. RequestOK(q) /\ request[q].stage = "again" /\ request[q] \in RequestRow
    BY <1>0, <1>6 DEF LookAgain, KeysInv, KeyTypes
  <2>3. UNCHANGED <<signing, left, known, fetchedAt, keyNow>> BY <1>6 DEF LookAgain
  <2>4. ASSUME request[q].kid \in known, ~request[q].failed
        PROVE  \/ request[q].kid \in Published
               \/ keyNow < left[request[q].kid] + KeyTTL + FetchTime
    <3>1. fetchedAt = keyNow BY <2>2, <2>4 DEF RequestOK
    <3>2. request[q].kid \in Published \/ left[request[q].kid] + FetchTime > fetchedAt
      BY <2>4 DEF KeysInv
    <3>3. KeyTTL \in Nat /\ FetchTime \in Nat /\ left[request[q].kid] \in Nat
      BY <1>n, <2>2 DEF RequestRow
    <3> QED BY <1>n, <3>1, <3>2, <3>3
  <2>5. RequestOK(q)' BY <1>p, <2>1, <2>3, <2>4 DEF RequestOK
  <2> QED BY <1>6, <1>q, <2>3, <2>5 DEF LookAgain, Advance
<1>7. ASSUME NEW q \in Request, EndRequest(q) PROVE KeysInv'
  <2>1. request'[q] = NoRequest BY <1>0, <1>7 DEF EndRequest, SetRequest, KeyTypes
  <2>2. RequestOK(q)' BY <2>1 DEF RequestOK, NoRequest
  <2> QED BY <1>7, <1>q, <2>2 DEF EndRequest
<1>8. CASE ValidatorRestarts
  <2>1. \A x \in Request : RequestOK(x)' BY <1>8 DEF ValidatorRestarts, RequestOK, NoRequest
  <2> QED BY <1>8, <1>t, <1>n, <2>1 DEF ValidatorRestarts, KeysInv
<1>9. CASE KeyTick
  <2>1. keyNow' = keyNow + 1 /\ UNCHANGED <<signing, left, known, fetchedAt, request>>
    BY <1>9 DEF KeyTick
  <2>2. ASSUME NEW x \in Request PROVE RequestOK(x)'
    <3>1. RequestOK(x) /\ request[x] \in RequestRow BY <1>0 DEF KeysInv, KeyTypes
    <3>2. CASE request[x].stage = "idle" BY <2>1, <3>2 DEF RequestOK
    <3>3. CASE request[x].stage \in {"fetch", "store"} /\ keyNow < request[x].since + FetchTime
      <4>1. FetchTime \in Nat /\ request[x].since \in Nat BY <3>1 DEF RequestRow
      <4>2. request[x].since <= keyNow + 1 /\ keyNow + 1 <= request[x].since + FetchTime
        BY <1>n, <3>1, <3>3, <4>1 DEF RequestOK
      <4> QED BY <1>p, <2>1, <3>1, <3>3, <4>2 DEF RequestOK, PublishedAt
    <3> QED BY <1>9, <3>2, <3>3 DEF KeyTick
  <2>3. \A k \in Kid : left[k] <= keyNow + 1 + 1 BY <1>n
  <2>4. fetchedAt <= keyNow + 1 BY <1>n
  <2> QED BY <1>t, <1>p, <2>1, <2>2, <2>3, <2>4 DEF KeysInv
<1>10. CASE UNCHANGED keyVars
  BY <1>10, <1>t, <1>p DEF keyVars, KeysInv, RequestOK, PublishedAt
<1> QED BY <1>1, <1>2, <1>3, <1>4, <1>5, <1>6, <1>7, <1>8, <1>9, <1>10 DEF KeysNext

LEMMA KeysInvStarts == KeysInit => KeysInv
<1> SUFFICES ASSUME KeysInit PROVE KeysInv OBVIOUS
<1>1. NoRequest \in RequestRow
  BY TokenKeysAssumption DEF NoRequest, RequestRow, Kid
<1>2. 0 \in Kid BY TokenKeysAssumption DEF Kid
<1>3. KeyTypes BY <1>1, <1>2 DEF KeysInit, KeyTypes
<1> QED BY <1>3 DEF KeysInit, KeysInv, RequestOK, NoRequest

\* For any number of issuers, rotations and concurrent refreshes: what nobody
\* publishes is accepted for an hour and a fetch at most, except by a request
\* whose own refresh failed (JWKSValidator.getKey).
THEOREM RetiredKeysAgeOut == KeysSpec => []KeysAgeOut
<1>1. KeysSpec => []KeysInv
  BY KeysInvStarts, KeysInvStays, PTL DEF KeysSpec
<1>2. KeysInv => KeysAgeOut BY DEF KeysInv, RequestOK, KeysAgeOut
<1> QED BY <1>1, <1>2, PTL

-----------------------------------------------------------------------------
(* Accounts and calls *)

AccountRow == [email : Spelling, role : Role]
CallRow == [pc : {"idle", "verified", "rotate", "logout", "count", "update"},
            user : User, role : Role, token : Nat]
TokenRow == [user : User, session : Nat, expires : Nat, revoked : Nat]

\* Calls and tokens are about accounts that exist, calls about tokens that do.
SessionTypes ==
  /\ accounts \in [User -> AccountRow \cup {NoAccount}]
  /\ tokens \in Seq(TokenRow)
  /\ \A t \in DOMAIN tokens : tokens[t].user \in Accounts /\ tokens[t].session \in 1 .. t
  /\ calls \in [Call -> CallRow]
  /\ \A c \in Call : calls[c].user \in Accounts /\ calls[c].token \in {0} \cup DOMAIN tokens
  /\ sessionClock \in Nat \ {0}

LEMMA NoAccountHasNoRole == NoAccount \notin AccountRow
BY DEF NoAccount, AccountRow, Role

\* What becomes of the accounts in one step.
AccountStep ==
  \/ UNCHANGED accounts
  \/ \E u \in User \ Accounts, e \in Spelling : CreateTx(u, e)
  \/ \E u \in Accounts, r \in Role : UpdateRole(u, r)

LEMMA AccountSteps ==
  ASSUME SessionTypes, [SessionsNext]_sessionVars PROVE AccountStep
<1> USE DEF AccountStep
<1>1. CASE UNCHANGED sessionVars BY <1>1 DEF sessionVars
<1>2. ASSUME NEW c \in Call, PostRegister(c) PROVE AccountStep
  BY <1>2 DEF PostRegister, Register
<1>3. ASSUME NEW c \in Call, PostLogin(c) PROVE AccountStep
  BY <1>3 DEF PostLogin, VerifyLogin, IssueLogin
<1>4. ASSUME NEW c \in Call, PostRefresh(c) PROVE AccountStep
  BY <1>4 DEF PostRefresh, GetActiveByHashTx, Refresh
<1>5. ASSUME NEW c \in Call, PostLogout(c) PROVE AccountStep
  BY <1>5 DEF PostLogout, LookUpLogout, Logout
<1>6. ASSUME NEW c \in Call, PostForceLogout(c) PROVE AccountStep
  BY <1>6 DEF PostForceLogout, ForceLogoutUser
<1>7. ASSUME NEW c \in Call, PostPromote(c) PROVE AccountStep
  <2>1. CASE \E u \in Accounts, r \in Role : PromoteUser(c, u, r)
    BY <2>1 DEF PromoteUser
  <2>2. CASE GuardSoleAdmin(c) BY <2>2 DEF GuardSoleAdmin
  <2>3. CASE ApplyRole(c)
    <3>1. calls[c].user \in Accounts /\ calls[c].role \in Role BY DEF SessionTypes, CallRow
    <3> QED BY <2>3, <3>1 DEF ApplyRole
  <2> QED BY <1>7, <2>1, <2>2, <2>3 DEF PostPromote
<1>8. ASSUME NEW c \in Call, CallDies(c) PROVE AccountStep BY <1>8 DEF CallDies
<1>9. CASE Replicate \/ SessionTick \/ DeleteExpired
  BY <1>9 DEF Replicate, SessionTick, DeleteExpired
<1> QED BY <1>1, <1>2, <1>3, <1>4, <1>5, <1>6, <1>7, <1>8, <1>9 DEF SessionsNext, SessionsCall

LEMMA AccountsStay ==
  ASSUME SessionTypes, AccountStep
  PROVE  /\ accounts' \in [User -> AccountRow \cup {NoAccount}]
         /\ Accounts \subseteq Accounts'
<1>0. /\ accounts \in [User -> AccountRow \cup {NoAccount}]
      /\ \A u \in Accounts : u \in User /\ accounts[u] \in AccountRow
  BY DEF SessionTypes, Accounts
<1>1. CASE UNCHANGED accounts BY <1>0, <1>1 DEF Accounts
<1>2. ASSUME NEW u \in User \ Accounts, NEW e \in Spelling, CreateTx(u, e)
      PROVE  /\ accounts' \in [User -> AccountRow \cup {NoAccount}]
             /\ Accounts \subseteq Accounts'
  <2>1. [email |-> e, role |-> "driver"] \in AccountRow BY DEF AccountRow, Role
  <2>2. accounts' \in [User -> AccountRow \cup {NoAccount}] BY <1>0, <1>2, <2>1 DEF CreateTx
  <2>3. \A v \in User \ {u} : accounts'[v] = accounts[v] BY <1>0, <1>2 DEF CreateTx
  <2> QED BY <1>2, <2>2, <2>3 DEF Accounts
<1>3. ASSUME NEW u \in Accounts, NEW r \in Role, UpdateRole(u, r)
      PROVE  /\ accounts' \in [User -> AccountRow \cup {NoAccount}]
             /\ Accounts \subseteq Accounts'
  <2>1. [accounts[u] EXCEPT !.role = r] \in AccountRow BY <1>0 DEF AccountRow
  <2>2. accounts' \in [User -> AccountRow \cup {NoAccount}] BY <1>0, <1>3, <2>1 DEF UpdateRole
  <2>3. /\ \A v \in User \ {u} : accounts'[v] = accounts[v]
        /\ accounts'[u] \in AccountRow
    BY <1>0, <1>3, <2>1 DEF UpdateRole
  <2> QED BY <1>0, <2>2, <2>3, NoAccountHasNoRole DEF Accounts
<1> QED BY <1>1, <1>2, <1>3 DEF AccountStep

-----------------------------------------------------------------------------
(* Tokens *)

\* The tokens and everything that is said of them stay, but for what expires.
QuietStep ==
  /\ UNCHANGED <<tokens, signedOut>>
  /\ access' \subseteq access /\ purged' \subseteq purged \cup Expired
  /\ sessionClock' \in {sessionClock, sessionClock + 1}

\* A session starts, with a claim to be an admin if it is known to be true.
StartStep ==
  /\ \E u \in Accounts', r \in Role :
       (r = "admin" => KnownAdmin(u)) /\ IssueTokens(tokens, u, r, 0)
  /\ UNCHANGED <<purged, sessionClock, signedOut>>

\* A session goes on with another token.
RotateStep ==
  /\ \E t \in DOMAIN tokens, r \in Role :
       /\ tokens[t].revoked = 0 /\ (r = "admin" => KnownAdmin(tokens[t].user))
       /\ IssueTokens(Revoke(tokens, {t}), tokens[t].user, r, tokens[t].session)
  /\ UNCHANGED <<purged, sessionClock, signedOut>>

\* Sessions end.
RevokeStep ==
  /\ \E ts \in SUBSET DOMAIN tokens :
       /\ tokens' = Revoke(tokens, ts)
       /\ signedOut' = signedOut \cup {tokens[t].session : t \in {x \in ts : tokens[x].revoked = 0}}
  /\ UNCHANGED <<purged, sessionClock, access>>

TokenStep == QuietStep \/ StartStep \/ RotateStep \/ RevokeStep

LEMMA TokenSteps ==
  ASSUME SessionTypes, [SessionsNext]_sessionVars PROVE TokenStep
<1> USE DEF TokenStep
<1>a. Accounts \subseteq Accounts' BY AccountSteps, AccountsStay
<1>1. CASE UNCHANGED sessionVars BY <1>1 DEF sessionVars, QuietStep
<1>2. ASSUME NEW c \in Call, PostRegister(c) PROVE TokenStep
  <2>1. PICK e \in Spelling : Register(c, e) BY <1>2 DEF PostRegister
  <2>2. PICK u \in User \ Accounts : CreateTx(u, e) /\ IssueTokens(tokens, u, "driver", 0)
    BY <2>1 DEF Register
  <2>3. u \in Accounts'
    <3>1. accounts'[u] = [email |-> e, role |-> "driver"]
      BY <2>2 DEF CreateTx, SessionTypes
    <3>2. accounts'[u] \in AccountRow BY <3>1 DEF AccountRow, Role
    <3> QED BY <2>2, <3>2, NoAccountHasNoRole DEF Accounts
  <2>4. "driver" \in Role /\ "driver" # "admin" BY DEF Role
  <2> QED BY <2>1, <2>2, <2>3, <2>4 DEF Register, StartStep
<1>3. ASSUME NEW c \in Call, PostLogin(c) PROVE TokenStep
  <2>1. ASSUME NEW e \in Spelling, VerifyLogin(c, e) PROVE QuietStep
    BY <2>1 DEF VerifyLogin, QuietStep
  <2>2. CASE IssueLogin(c)
    <3>1. calls[c].user \in Accounts' /\ calls[c].role \in Role
      BY <1>a DEF SessionTypes, CallRow
    <3>2. calls[c].role = "admin" => KnownAdmin(calls[c].user)
      BY <2>2 DEF IssueLogin, KnownAdmin
    <3> QED BY <2>2, <3>1, <3>2 DEF IssueLogin, StartStep
  <2> QED BY <1>3, <2>1, <2>2 DEF PostLogin
<1>4. ASSUME NEW c \in Call, PostRefresh(c) PROVE TokenStep
  <2>1. ASSUME NEW t \in DOMAIN tokens, GetActiveByHashTx(c, t) PROVE QuietStep
    BY <2>1 DEF GetActiveByHashTx, QuietStep
  <2>2. CASE Refresh(c)
    <3>1. PICK t : t = calls[c].token OBVIOUS
    <3>2. t \in DOMAIN tokens BY <2>2, <3>1 DEF Refresh, Stored
    <3>3. GetByID(tokens[t].user).role \in Role
      BY <3>2 DEF GetByID, SessionTypes, Accounts, AccountRow
    <3>4. GetByID(tokens[t].user).role = "admin" => KnownAdmin(tokens[t].user)
      BY <3>2 DEF GetByID, SessionTypes, KnownAdmin, Admins
    <3> QED BY <2>2, <3>1, <3>2, <3>3, <3>4 DEF Refresh, RotateStep
  <2> QED BY <1>4, <2>1, <2>2 DEF PostRefresh
<1>5. ASSUME NEW c \in Call, PostLogout(c) PROVE TokenStep
  <2>1. ASSUME NEW t \in DOMAIN tokens, NEW u \in Accounts, LookUpLogout(c, u, t) PROVE QuietStep
    BY <2>1 DEF LookUpLogout, QuietStep
  <2>2. CASE Logout(c)
    <3> DEFINE t == calls[c].token
               ts == {x \in {t} : Stored(x)}
    <3>1. ts \in SUBSET DOMAIN tokens BY DEF Stored
    <3>2. Revoke(tokens, {t} \ purged) = Revoke(tokens, ts) BY DEF Revoke, Stored
    <3>3. (IF tokens[t].revoked = 0 /\ Stored(t) THEN {tokens[t].session} ELSE {})
            = {tokens[y].session : y \in {x \in ts : tokens[x].revoked = 0}}
      OBVIOUS
    <3> QED BY <2>2, <3>1, <3>2, <3>3 DEF Logout, RevokeStep
  <2> QED BY <1>5, <2>1, <2>2 DEF PostLogout
<1>6. ASSUME NEW c \in Call, PostForceLogout(c) PROVE TokenStep
  <2>1. PICK u \in Accounts : ForceLogoutUser(c, u) BY <1>6 DEF PostForceLogout
  <2> DEFINE ts == {t \in DOMAIN tokens : Stored(t) /\ tokens[t].user = u}
  <2>2. ts \in SUBSET DOMAIN tokens OBVIOUS
  <2> QED BY <2>1, <2>2 DEF ForceLogoutUser, RevokeAllForUser, RevokeStep
<1>7. ASSUME NEW c \in Call, PostPromote(c) PROVE TokenStep
  BY <1>7 DEF PostPromote, PromoteUser, GuardSoleAdmin, ApplyRole, QuietStep
<1>8. ASSUME NEW c \in Call, CallDies(c) PROVE TokenStep BY <1>8 DEF CallDies, QuietStep
<1>9. CASE Replicate \/ SessionTick \/ DeleteExpired
  BY <1>9 DEF Replicate, SessionTick, DeleteExpired, QuietStep
<1> QED BY <1>1, <1>2, <1>3, <1>4, <1>5, <1>6, <1>7, <1>8, <1>9 DEF SessionsNext, SessionsCall

\* Revoking stamps the unrevoked among the chosen and changes nothing else.
LEMMA RevokeStamps ==
  ASSUME tokens \in Seq(TokenRow), sessionClock \in Nat, NEW ts
  PROVE  LET rows == Revoke(tokens, ts) IN
         /\ rows \in Seq(TokenRow) /\ Len(rows) = Len(tokens)
         /\ DOMAIN rows = DOMAIN tokens
         /\ \A t \in DOMAIN tokens :
              /\ rows[t].user = tokens[t].user /\ rows[t].session = tokens[t].session
              /\ rows[t].expires = tokens[t].expires
              /\ rows[t].revoked = IF t \in ts /\ tokens[t].revoked = 0
                                   THEN sessionClock ELSE tokens[t].revoked
<1> DEFINE rows == Revoke(tokens, ts)
<1>1. /\ DOMAIN tokens = 1 .. Len(tokens) /\ Len(tokens) \in Nat
      /\ \A t \in DOMAIN tokens : tokens[t] \in TokenRow
  BY LenProperties, ElementOfSeq
<1>2. ASSUME NEW t \in DOMAIN tokens
      PROVE  /\ rows[t] \in TokenRow
             /\ rows[t].user = tokens[t].user /\ rows[t].session = tokens[t].session
             /\ rows[t].expires = tokens[t].expires
             /\ rows[t].revoked = IF t \in ts /\ tokens[t].revoked = 0
                                  THEN sessionClock ELSE tokens[t].revoked
  <2>1. tokens[t] \in TokenRow BY <1>1
  <2>2. rows[t] = IF t \in ts /\ tokens[t].revoked = 0
                  THEN [tokens[t] EXCEPT !.revoked = sessionClock] ELSE tokens[t]
    BY DEF Revoke
  <2> QED BY <2>1, <2>2 DEF TokenRow
<1>3. rows = [t \in 1 .. Len(tokens) |-> rows[t]] /\ DOMAIN rows = DOMAIN tokens
  BY <1>1 DEF Revoke
<1>4. rows \in [1 .. Len(tokens) -> TokenRow] BY <1>1, <1>2, <1>3
<1>5. rows \in Seq(TokenRow) BY <1>1, <1>4, SeqDef
<1>6. Len(rows) = Len(tokens) BY <1>1, <1>3, <1>5, LenProperties
<1> QED BY <1>2, <1>3, <1>5, <1>6

\* A new row follows the others.
LEMMA CreateAppends ==
  ASSUME NEW rows \in Seq(TokenRow), sessionClock \in Nat, NEW u \in User, NEW s \in Nat
  PROVE  LET more == CreateToken(rows, u, s)
             n == Len(rows) + 1 IN
         /\ more \in Seq(TokenRow) /\ Len(rows) \in Nat
         /\ DOMAIN rows = 1 .. Len(rows) /\ DOMAIN more = 1 .. n
         /\ \A t \in DOMAIN rows : more[t] = rows[t]
         /\ more[n] = [user |-> u, session |-> IF s = 0 THEN n ELSE s,
                       expires |-> sessionClock + RefreshTTL, revoked |-> 0]
<1> DEFINE n == Len(rows) + 1
           row == [user |-> u, session |-> IF s = 0 THEN n ELSE s,
                   expires |-> sessionClock + RefreshTTL, revoked |-> 0]
<1>1. Len(rows) \in Nat /\ DOMAIN rows = 1 .. Len(rows) BY LenProperties
<1>2. RefreshTTL \in Nat BY SessionsAssumption
<1>3. row \in TokenRow BY <1>1, <1>2 DEF TokenRow
<1>4. CreateToken(rows, u, s) = Append(rows, row) BY DEF CreateToken
<1>5. /\ Append(rows, row) \in Seq(TokenRow) /\ Len(Append(rows, row)) = n
      /\ \A t \in 1 .. Len(rows) : Append(rows, row)[t] = rows[t]
      /\ Append(rows, row)[n] = row
  BY <1>3, AppendProperties
<1>6. DOMAIN Append(rows, row) = 1 .. n BY <1>1, <1>5, LenProperties
<1> QED BY <1>1, <1>4, <1>5, <1>6

\* The rows after a session started.
LEMMA StartRows ==
  ASSUME SessionTypes, StartStep, Accounts' \subseteq User
  PROVE  LET n == Len(tokens) + 1 IN
         /\ tokens' \in Seq(TokenRow) /\ DOMAIN tokens' = DOMAIN tokens \cup {n}
         /\ n \in Nat \ {0} /\ n \notin DOMAIN tokens
         /\ \A t \in DOMAIN tokens : tokens'[t] = tokens[t]
         /\ tokens'[n].user \in Accounts' /\ tokens'[n].session = n /\ tokens'[n].revoked = 0
         /\ \E a \in [session : {n}, role : Role, expires : {sessionClock + AccessTTL}] :
                 access' = access \cup {a} /\ (a.role = "admin" => KnownAdmin(tokens'[n].user))
<1> DEFINE n == Len(tokens) + 1
<1>0. /\ tokens \in Seq(TokenRow) /\ sessionClock \in Nat
      /\ Len(tokens) \in Nat /\ DOMAIN tokens = 1 .. Len(tokens)
  BY LenProperties DEF SessionTypes
<1>1. PICK u \in Accounts', r \in Role :
        (r = "admin" => KnownAdmin(u)) /\ IssueTokens(tokens, u, r, 0)
  BY DEF StartStep
<1>2. tokens' = CreateToken(tokens, u, 0) /\ access' = access \cup {SignAccessToken(n, r)}
  BY <1>1 DEF IssueTokens
<1>3. u \in User /\ 0 \in Nat OBVIOUS
<1>4. /\ tokens' \in Seq(TokenRow) /\ DOMAIN tokens' = 1 .. n
      /\ \A t \in DOMAIN tokens : tokens'[t] = tokens[t]
      /\ tokens'[n] = [user |-> u, session |-> n, expires |-> sessionClock + RefreshTTL, revoked |-> 0]
  BY <1>0, <1>2, <1>3, CreateAppends
<1>5. SignAccessToken(n, r) \in [session : {n}, role : Role, expires : {sessionClock + AccessTTL}]
  BY DEF SignAccessToken
<1>6. DOMAIN tokens' = DOMAIN tokens \cup {n} /\ n \in Nat \ {0} /\ n \notin DOMAIN tokens
  BY <1>0, <1>4
<1>7. tokens'[n].user \in Accounts' /\ tokens'[n].session = n /\ tokens'[n].revoked = 0
  BY <1>4
<1>8. \E a \in [session : {n}, role : Role, expires : {sessionClock + AccessTTL}] :
             access' = access \cup {a} /\ (a.role = "admin" => KnownAdmin(tokens'[n].user))
  <2>1. SignAccessToken(n, r).role = r /\ tokens'[n].user = u BY <1>4 DEF SignAccessToken
  <2> QED BY <1>1, <1>2, <1>5, <2>1
<1> QED BY <1>4, <1>6, <1>7, <1>8

\* The rows after a session went on from an unrevoked token.
LEMMA RotateRows ==
  ASSUME SessionTypes, RotateStep
  PROVE  LET n == Len(tokens) + 1 IN
         \E t \in DOMAIN tokens :
           /\ tokens[t].revoked = 0
           /\ tokens' \in Seq(TokenRow) /\ DOMAIN tokens' = DOMAIN tokens \cup {n}
           /\ n \in Nat \ {0} /\ n \notin DOMAIN tokens
           /\ \A x \in DOMAIN tokens :
                /\ tokens'[x].user = tokens[x].user /\ tokens'[x].session = tokens[x].session
                /\ tokens'[x].expires = tokens[x].expires
                /\ tokens'[x].revoked = IF x = t THEN sessionClock ELSE tokens[x].revoked
           /\ tokens'[n].user = tokens[t].user /\ tokens'[n].session = tokens[t].session
           /\ tokens'[n].revoked = 0
           /\ \E a \in [session : {tokens[t].session}, role : Role, expires : {sessionClock + AccessTTL}] :
                  access' = access \cup {a} /\ (a.role = "admin" => KnownAdmin(tokens[t].user))
<1> DEFINE n == Len(tokens) + 1
<1>0. /\ tokens \in Seq(TokenRow) /\ sessionClock \in Nat
      /\ Len(tokens) \in Nat /\ DOMAIN tokens = 1 .. Len(tokens)
      /\ \A t \in DOMAIN tokens : tokens[t].user \in User /\ tokens[t].session \in 1 .. t
  BY LenProperties DEF SessionTypes, Accounts
<1>t. PICK t \in DOMAIN tokens : \E r \in Role :
        /\ tokens[t].revoked = 0 /\ (r = "admin" => KnownAdmin(tokens[t].user))
        /\ IssueTokens(Revoke(tokens, {t}), tokens[t].user, r, tokens[t].session)
  BY DEF RotateStep
<1>1. PICK r \in Role :
        /\ tokens[t].revoked = 0 /\ (r = "admin" => KnownAdmin(tokens[t].user))
        /\ IssueTokens(Revoke(tokens, {t}), tokens[t].user, r, tokens[t].session)
  BY <1>t
<1>2. PICK rows, s, u : rows = Revoke(tokens, {t}) /\ s = tokens[t].session /\ u = tokens[t].user
  OBVIOUS
<1>3. /\ rows \in Seq(TokenRow) /\ Len(rows) = Len(tokens) /\ DOMAIN rows = DOMAIN tokens
      /\ \A x \in DOMAIN tokens :
           /\ rows[x].user = tokens[x].user /\ rows[x].session = tokens[x].session
           /\ rows[x].expires = tokens[x].expires
           /\ rows[x].revoked = IF x \in {t} /\ tokens[x].revoked = 0
                                THEN sessionClock ELSE tokens[x].revoked
  BY <1>0, <1>2, RevokeStamps
<1>4. u \in User /\ s \in Nat /\ s # 0 BY <1>0, <1>2
<1>5. /\ tokens' = CreateToken(rows, u, s)
      /\ access' = access \cup {SignAccessToken(s, r)}
  BY <1>1, <1>2, <1>4 DEF IssueTokens
<1>6. rows \in Seq(TokenRow) /\ sessionClock \in Nat /\ u \in User /\ s \in Nat
  BY <1>0, <1>3, <1>4
<1>7. /\ CreateToken(rows, u, s) \in Seq(TokenRow)
      /\ DOMAIN CreateToken(rows, u, s) = 1 .. Len(rows) + 1
      /\ \A x \in DOMAIN rows : CreateToken(rows, u, s)[x] = rows[x]
      /\ CreateToken(rows, u, s)[Len(rows) + 1] =
           [user |-> u, session |-> IF s = 0 THEN Len(rows) + 1 ELSE s,
            expires |-> sessionClock + RefreshTTL, revoked |-> 0]
  BY <1>6, CreateAppends
<1>8. /\ tokens' \in Seq(TokenRow) /\ DOMAIN tokens' = 1 .. n
      /\ \A x \in DOMAIN tokens : tokens'[x] = rows[x]
      /\ tokens'[n] = [user |-> u, session |-> s, expires |-> sessionClock + RefreshTTL, revoked |-> 0]
  BY <1>3, <1>4, <1>5, <1>7
<1>9. SignAccessToken(s, r) \in [session : {s}, role : Role, expires : {sessionClock + AccessTTL}]
  BY DEF SignAccessToken
<1>10. /\ \A x \in DOMAIN tokens :
            /\ tokens'[x].user = tokens[x].user /\ tokens'[x].session = tokens[x].session
            /\ tokens'[x].expires = tokens[x].expires
            /\ tokens'[x].revoked = IF x = t THEN sessionClock ELSE tokens[x].revoked
       /\ tokens'[n].user = tokens[t].user /\ tokens'[n].session = tokens[t].session
       /\ tokens'[n].revoked = 0
  <2>1. tokens'[n].user = u /\ tokens'[n].session = s /\ tokens'[n].revoked = 0 BY <1>8
  <2>2. ASSUME NEW x \in DOMAIN tokens
        PROVE  /\ tokens'[x].user = tokens[x].user /\ tokens'[x].session = tokens[x].session
               /\ tokens'[x].expires = tokens[x].expires
               /\ tokens'[x].revoked = IF x = t THEN sessionClock ELSE tokens[x].revoked
    <3>1. tokens'[x] = rows[x] BY <1>8
    <3>2. tokens[t].revoked = 0 BY <1>1
    <3> QED BY <1>3, <3>1, <3>2
  <2> QED BY <1>2, <2>1, <2>2
<1>11. DOMAIN tokens' = DOMAIN tokens \cup {n} /\ n \in Nat \ {0} /\ n \notin DOMAIN tokens
  BY <1>0, <1>8
<1>12. \E a \in [session : {tokens[t].session}, role : Role, expires : {sessionClock + AccessTTL}] :
              access' = access \cup {a} /\ (a.role = "admin" => KnownAdmin(tokens[t].user))
  <2>1. SignAccessToken(s, r).role = r BY DEF SignAccessToken
  <2> QED BY <1>1, <1>2, <1>5, <1>9, <2>1
<1> QED BY <1>1, <1>8, <1>10, <1>11, <1>12

\* What becomes of the rows, whatever the step.
LEMMA RowsStay ==
  ASSUME SessionTypes, [SessionsNext]_sessionVars
  PROVE  /\ tokens' \in Seq(TokenRow) /\ DOMAIN tokens \subseteq DOMAIN tokens'
         /\ \A t \in DOMAIN tokens' : tokens'[t].user \in Accounts' /\ tokens'[t].session \in 1 .. t
         /\ sessionClock' \in Nat \ {0}
<1>0. /\ tokens \in Seq(TokenRow) /\ sessionClock \in Nat \ {0}
      /\ \A t \in DOMAIN tokens : tokens[t].user \in Accounts /\ tokens[t].session \in 1 .. t
      /\ Len(tokens) \in Nat /\ DOMAIN tokens = 1 .. Len(tokens)
  BY LenProperties DEF SessionTypes
<1>2. Accounts \subseteq Accounts' /\ Accounts' \subseteq User
  BY AccountSteps, AccountsStay DEF Accounts
<1>3. TokenStep BY TokenSteps
<1>4. CASE QuietStep BY <1>0, <1>2, <1>4 DEF QuietStep
<1>5. CASE StartStep
  <2>1. LET n == Len(tokens) + 1 IN
        /\ tokens' \in Seq(TokenRow) /\ DOMAIN tokens' = DOMAIN tokens \cup {n}
        /\ n \in Nat \ {0}
        /\ \A t \in DOMAIN tokens : tokens'[t] = tokens[t]
        /\ tokens'[n].user \in Accounts' /\ tokens'[n].session = n
    BY <1>2, <1>5, StartRows
  <2> QED BY <1>0, <1>2, <1>5, <2>1 DEF StartStep
<1>6. CASE RotateStep
  <2> DEFINE n == Len(tokens) + 1
  <2>1. PICK t \in DOMAIN tokens :
        /\ tokens' \in Seq(TokenRow) /\ DOMAIN tokens' = DOMAIN tokens \cup {n}
        /\ \A x \in DOMAIN tokens :
             tokens'[x].user = tokens[x].user /\ tokens'[x].session = tokens[x].session
        /\ tokens'[n].user = tokens[t].user /\ tokens'[n].session = tokens[t].session
    BY <1>6, RotateRows
  <2>2. tokens[t].session \in 1 .. n BY <1>0
  <2>3. ASSUME NEW x \in DOMAIN tokens'
        PROVE  tokens'[x].user \in Accounts' /\ tokens'[x].session \in 1 .. x
    <3>1. CASE x \in DOMAIN tokens BY <1>0, <1>2, <2>1, <3>1
    <3>2. CASE x = n BY <1>0, <1>2, <2>1, <2>2, <3>2
    <3> QED BY <2>1, <3>1, <3>2
  <2> QED BY <1>0, <1>6, <2>1, <2>3 DEF RotateStep
<1>7. CASE RevokeStep
  <2>1. PICK ts : tokens' = Revoke(tokens, ts) BY <1>7 DEF RevokeStep
  <2>2. /\ tokens' \in Seq(TokenRow) /\ DOMAIN tokens' = DOMAIN tokens
        /\ \A x \in DOMAIN tokens : tokens'[x].user = tokens[x].user /\ tokens'[x].session = tokens[x].session
    BY <1>0, <2>1, RevokeStamps
  <2> QED BY <1>0, <1>2, <1>7, <2>2 DEF RevokeStep
<1> QED BY <1>3, <1>4, <1>5, <1>6, <1>7 DEF TokenStep

\* What becomes of the calls in one step.
CallOK(c) == /\ calls[c] \in CallRow
             /\ calls[c].user \in Accounts /\ calls[c].token \in {0} \cup DOMAIN tokens

LEMMA CallsStay ==
  ASSUME SessionTypes, SeedAdmin \in Accounts, [SessionsNext]_sessionVars
  PROVE  calls' \in [Call -> CallRow] /\ \A c \in Call : CallOK(c)'
<1> DEFINE Fine(row) == /\ row \in CallRow /\ row.user \in Accounts
                        /\ row.token \in {0} \cup DOMAIN tokens
<1>0. calls \in [Call -> CallRow] /\ \A c \in Call : Fine(calls[c])
  BY DEF SessionTypes
<1>a. Accounts \subseteq Accounts' /\ DOMAIN tokens \subseteq DOMAIN tokens'
  BY AccountSteps, AccountsStay, RowsStay
<1>b. SUFFICES calls' \in [Call -> CallRow] /\ \A c \in Call : Fine(calls'[c])
  BY <1>a DEF CallOK
<1> DEFINE Typed == calls' \in [Call -> CallRow] /\ \A c \in Call : Fine(calls'[c])
<1>u. UNCHANGED calls => Typed BY <1>0
<1>s. ASSUME NEW c \in Call, NEW row, Fine(row), calls' = [calls EXCEPT ![c] = row] PROVE Typed
  BY <1>0, <1>s
<1>d. ASSUME NEW c \in Call, Done(c) PROVE Typed
  <2>1. Fine(NoCall)
    BY SessionsAssumption DEF NoCall, CallRow, Role, Accounts
  <2> QED BY <1>d, <1>s, <2>1 DEF Done
<1>g. ASSUME NEW c \in Call, NEW pc \in {"idle", "verified", "rotate", "logout", "count", "update"},
             NEW u \in Accounts, NEW r \in Role, NEW t \in {0} \cup DOMAIN tokens, Goto(c, pc, u, r, t)
      PROVE  Typed
  <2>1. t \in Nat
    <3>1. DOMAIN tokens = 1 .. Len(tokens) /\ Len(tokens) \in Nat BY LenProperties DEF SessionTypes
    <3> QED BY <3>1
  <2>2. Fine([pc |-> pc, user |-> u, role |-> r, token |-> t])
    BY <2>1 DEF CallRow, Accounts
  <2> QED BY <1>g, <1>s, <2>2 DEF Goto
<1>r. "driver" \in Role /\ 0 \in {0} \cup DOMAIN tokens BY DEF Role
<1>1. CASE UNCHANGED sessionVars BY <1>1, <1>u DEF sessionVars
<1>2. ASSUME NEW c \in Call, PostRegister(c) PROVE Typed
  BY <1>2, <1>u DEF PostRegister, Register
<1>3. ASSUME NEW c \in Call, PostLogin(c) PROVE Typed
  <2>1. ASSUME NEW e \in Spelling, VerifyLogin(c, e) PROVE Typed
    <3>1. PICK u \in Accounts : Goto(c, "verified", u, accounts[u].role, 0)
      BY <2>1 DEF VerifyLogin, GetByEmail
    <3>2. accounts[u].role \in Role BY DEF SessionTypes, Accounts, AccountRow
    <3> QED BY <1>g, <1>r, <3>1, <3>2
  <2> QED BY <1>3, <1>d, <2>1 DEF PostLogin, IssueLogin
<1>4. ASSUME NEW c \in Call, PostRefresh(c) PROVE Typed
  <2>1. ASSUME NEW t \in DOMAIN tokens, GetActiveByHashTx(c, t) PROVE Typed
    <3>1. Goto(c, "rotate", tokens[t].user, "driver", t) BY <2>1 DEF GetActiveByHashTx
    <3>2. tokens[t].user \in Accounts BY DEF SessionTypes
    <3> QED BY <1>g, <1>r, <3>1, <3>2
  <2> QED BY <1>4, <1>d, <2>1 DEF PostRefresh, Refresh
<1>5. ASSUME NEW c \in Call, PostLogout(c) PROVE Typed
  <2>1. ASSUME NEW t \in DOMAIN tokens, NEW u \in Accounts, LookUpLogout(c, u, t) PROVE Typed
    BY <1>g, <1>r, <2>1 DEF LookUpLogout
  <2> QED BY <1>5, <1>d, <2>1 DEF PostLogout, Logout
<1>6. ASSUME NEW c \in Call, PostForceLogout(c) PROVE Typed
  BY <1>6, <1>u DEF PostForceLogout, ForceLogoutUser
<1>7. ASSUME NEW c \in Call, PostPromote(c) PROVE Typed
  <2>1. ASSUME NEW u \in Accounts, NEW r \in Role, PromoteUser(c, u, r) PROVE Typed
    <3>1. CASE UNCHANGED calls BY <1>u, <3>1
    <3>2. CASE Goto(c, "count", u, r, 0) BY <1>g, <1>r, <3>2
    <3>3. CASE Goto(c, "update", u, r, 0) BY <1>g, <1>r, <3>3
    <3> QED BY <2>1, <3>1, <3>2, <3>3 DEF PromoteUser
  <2>2. CASE GuardSoleAdmin(c)
    <3>1. CASE calls' = [calls EXCEPT ![c].pc = "update"]
      <4>1. Fine([calls[c] EXCEPT !.pc = "update"]) BY <1>0 DEF CallRow
      <4>2. calls' = [calls EXCEPT ![c] = [calls[c] EXCEPT !.pc = "update"]] BY <1>0, <3>1
      <4> QED BY <1>s, <4>1, <4>2
    <3> QED BY <2>2, <1>d, <3>1 DEF GuardSoleAdmin
  <2> QED BY <1>7, <1>d, <2>1, <2>2 DEF PostPromote, ApplyRole
<1>8. ASSUME NEW c \in Call, CallDies(c) PROVE Typed BY <1>8, <1>d DEF CallDies
<1>9. CASE Replicate \/ SessionTick \/ DeleteExpired
  BY <1>9, <1>u DEF Replicate, SessionTick, DeleteExpired
<1> QED BY <1>1, <1>2, <1>3, <1>4, <1>5, <1>6, <1>7, <1>8, <1>9 DEF SessionsNext, SessionsCall

-----------------------------------------------------------------------------
(* Sessions *)

Live(t) == tokens[t].revoked = 0

\* An access token ends in time, and with its session if that was signed out.
AccessOK(a) ==
  /\ a.expires \in Nat /\ a.expires <= sessionClock + AccessTTL
  /\ a.session \in signedOut =>
       \E t \in DOMAIN tokens : /\ tokens[t].session = a.session
                                /\ a.expires <= tokens[t].revoked + AccessTTL

\* The invariant: a session has one live token until it is signed out, and the
\* purge takes no live token in its life time.
LiveTokens ==
  /\ \A t \in DOMAIN tokens : tokens[t].session \in signedOut => ~Live(t)
  /\ \A t \in DOMAIN tokens : tokens[t].session \notin signedOut =>
       \E v \in DOMAIN tokens : tokens[v].session = tokens[t].session /\ Live(v)
  /\ \A t, v \in DOMAIN tokens :
       tokens[t].session = tokens[v].session /\ Live(t) /\ Live(v) => t = v

SessionsInv ==
  /\ SessionTypes /\ SeedAdmin \in Accounts
  /\ purged \subseteq DOMAIN tokens /\ signedOut \subseteq Sessions
  /\ \A t \in purged : Live(t) => tokens[t].expires <= sessionClock
  /\ LiveTokens
  /\ \A a \in access : AccessOK(a)

LEMMA SessionTypesStay ==
  ASSUME SessionsInv, [SessionsNext]_sessionVars
  PROVE  SessionTypes' /\ (SeedAdmin \in Accounts)'
<1>0. SessionTypes /\ SeedAdmin \in Accounts BY DEF SessionsInv
<1>1. /\ accounts' \in [User -> AccountRow \cup {NoAccount}] /\ Accounts \subseteq Accounts'
  BY <1>0, AccountSteps, AccountsStay
<1>2. /\ tokens' \in Seq(TokenRow) /\ sessionClock' \in Nat \ {0}
      /\ \A t \in DOMAIN tokens' : tokens'[t].user \in Accounts' /\ tokens'[t].session \in 1 .. t
  BY <1>0, RowsStay
<1>3. calls' \in [Call -> CallRow] /\ \A c \in Call : CallOK(c)' BY <1>0, CallsStay
<1> QED BY <1>0, <1>1, <1>2, <1>3 DEF SessionTypes, CallOK

\* What the invariant says of numbers.
LEMMA SessionNumbers ==
  ASSUME SessionTypes
  PROVE  /\ sessionClock \in Nat \ {0} /\ AccessTTL \in Nat /\ Retention \in Nat
         /\ \A t \in DOMAIN tokens : /\ tokens[t].session \in Nat /\ tokens[t].expires \in Nat
                                     /\ tokens[t].revoked \in Nat
<1>1. \A t \in DOMAIN tokens : tokens[t] \in TokenRow BY ElementOfSeq, LenProperties DEF SessionTypes
<1> QED BY <1>1, SessionsAssumption DEF SessionTypes, TokenRow

LEMMA QuietKeeps ==
  ASSUME SessionsInv, QuietStep, SessionTypes'
  PROVE  /\ purged' \subseteq DOMAIN tokens' /\ (signedOut \subseteq Sessions)'
         /\ \A t \in purged' : Live(t)' => tokens'[t].expires <= sessionClock'
         /\ LiveTokens' /\ \A a \in access' : AccessOK(a)'
<1>0. /\ sessionClock \in Nat /\ AccessTTL \in Nat /\ Retention \in Nat /\ sessionClock' \in Nat
      /\ sessionClock <= sessionClock'
      /\ \A t \in DOMAIN tokens : tokens[t].expires \in Nat
  BY SessionNumbers DEF SessionsInv, QuietStep
<1>1. tokens' = tokens /\ signedOut' = signedOut BY DEF QuietStep
<1>2. LiveTokens' /\ (signedOut \subseteq Sessions)'
  BY <1>1 DEF SessionsInv, LiveTokens, Live, Sessions
<1>3. purged' \subseteq DOMAIN tokens' BY <1>1 DEF SessionsInv, QuietStep, Expired
<1>4. ASSUME NEW t \in purged', Live(t)' PROVE tokens'[t].expires <= sessionClock'
  <2>1. t \in DOMAIN tokens /\ tokens[t].revoked = 0 BY <1>1, <1>3, <1>4 DEF Live
  <2>2. CASE t \in purged
    <3>1. tokens[t].expires <= sessionClock BY <2>1, <2>2 DEF SessionsInv, Live
    <3> QED BY <1>0, <1>1, <2>1, <3>1
  <2>3. CASE t \in Expired
    <3>1. tokens[t].expires < sessionClock - Retention BY <2>1, <2>3 DEF Expired
    <3> QED BY <1>0, <1>1, <2>1, <3>1
  <2> QED BY <1>4, <2>2, <2>3 DEF QuietStep
<1>5. ASSUME NEW a \in access' PROVE AccessOK(a)'
  <2>1. AccessOK(a) BY <1>5 DEF SessionsInv, QuietStep
  <2>2. a.expires \in Nat /\ a.expires <= sessionClock' + AccessTTL BY <1>0, <2>1 DEF AccessOK
  <2> QED BY <1>1, <2>1, <2>2 DEF AccessOK
<1> QED BY <1>2, <1>3, <1>4, <1>5

LEMMA StartKeeps ==
  ASSUME SessionsInv, StartStep, SessionTypes'
  PROVE  /\ purged' \subseteq DOMAIN tokens' /\ (signedOut \subseteq Sessions)'
         /\ \A t \in purged' : Live(t)' => tokens'[t].expires <= sessionClock'
         /\ LiveTokens' /\ \A a \in access' : AccessOK(a)'
<1> DEFINE n == Len(tokens) + 1
<1>i. /\ SessionTypes /\ purged \subseteq DOMAIN tokens /\ signedOut \subseteq Sessions
      /\ \A t \in purged : Live(t) => tokens[t].expires <= sessionClock
      /\ LiveTokens
      /\ \A a \in access : AccessOK(a)
  BY DEF SessionsInv
<1>1. /\ DOMAIN tokens' = DOMAIN tokens \cup {n} /\ n \notin DOMAIN tokens
      /\ n \in Nat
      /\ \A t \in DOMAIN tokens : tokens'[t] = tokens[t]
      /\ tokens'[n].session = n /\ tokens'[n].revoked = 0
      /\ \E a : /\ a.session = n /\ a.expires = sessionClock + AccessTTL
                /\ access' = access \cup {a}
  BY <1>i, StartRows DEF SessionTypes, Accounts
<1>2. UNCHANGED <<purged, sessionClock, signedOut>> BY DEF StartStep
<1>3. sessionClock \in Nat /\ AccessTTL \in Nat BY <1>i, SessionNumbers
<1>4. \A t \in DOMAIN tokens : tokens[t].session # n
  <2>1. Len(tokens) \in Nat /\ DOMAIN tokens = 1 .. Len(tokens) BY <1>i, LenProperties DEF SessionTypes
  <2> QED BY <1>i, <2>1 DEF SessionTypes
<1>5. n \notin signedOut BY <1>i, <1>4 DEF Sessions
<1> HIDE DEF n
<1>6. purged' \subseteq DOMAIN tokens' /\ (signedOut \subseteq Sessions)'
  BY <1>i, <1>1, <1>2 DEF Sessions
<1>7. \A t \in purged' : Live(t)' => tokens'[t].expires <= sessionClock'
  BY <1>i, <1>1, <1>2 DEF Live
<1>8. LiveTokens'
  <2>1. \A t \in DOMAIN tokens' : t = n \/ (t \in DOMAIN tokens /\ t # n) BY <1>1
  <2>2. \A t \in DOMAIN tokens' : tokens'[t].session \in signedOut' => ~Live(t)'
    BY <1>i, <1>1, <1>2, <1>5, <2>1 DEF LiveTokens, Live
  <2>3. ASSUME NEW t \in DOMAIN tokens', tokens'[t].session \notin signedOut'
        PROVE  \E v \in DOMAIN tokens' : tokens'[v].session = tokens'[t].session /\ Live(v)'
    <3>1. CASE t = n BY <1>1, <3>1 DEF Live
    <3>2. CASE t \in DOMAIN tokens
      <4>1. PICK v \in DOMAIN tokens : tokens[v].session = tokens[t].session /\ Live(v)
        BY <1>i, <1>1, <1>2, <2>3, <3>2 DEF LiveTokens
      <4> QED BY <1>1, <3>2, <4>1 DEF Live
    <3> QED BY <2>1, <3>1, <3>2
  <2>4. \A t, v \in DOMAIN tokens' :
          tokens'[t].session = tokens'[v].session /\ Live(t)' /\ Live(v)' => t = v
    BY <1>i, <1>1, <1>4, <2>1 DEF LiveTokens, Live
  <2> QED BY <2>2, <2>3, <2>4 DEF LiveTokens
<1>9. ASSUME NEW a \in access' PROVE AccessOK(a)'
  <2>1. CASE a \in access
    <3>1. AccessOK(a) BY <1>i, <2>1
    <3> QED BY <1>1, <1>2, <3>1 DEF AccessOK
  <2>2. CASE a.session = n /\ a.expires = sessionClock + AccessTTL
    BY <1>2, <1>3, <1>5, <2>2 DEF AccessOK
  <2> QED BY <1>1, <1>9, <2>1, <2>2
<1> QED BY <1>6, <1>7, <1>8, <1>9

LEMMA RotateKeeps ==
  ASSUME SessionsInv, RotateStep, SessionTypes'
  PROVE  /\ purged' \subseteq DOMAIN tokens' /\ (signedOut \subseteq Sessions)'
         /\ \A t \in purged' : Live(t)' => tokens'[t].expires <= sessionClock'
         /\ LiveTokens' /\ \A a \in access' : AccessOK(a)'
<1>0. PICK n : n = Len(tokens) + 1 OBVIOUS
<1>i. /\ SessionTypes /\ purged \subseteq DOMAIN tokens /\ signedOut \subseteq Sessions
      /\ \A t \in purged : Live(t) => tokens[t].expires <= sessionClock
      /\ LiveTokens
      /\ \A a \in access : AccessOK(a)
  BY DEF SessionsInv
<1>1. PICK t \in DOMAIN tokens :
        /\ tokens[t].revoked = 0
        /\ DOMAIN tokens' = DOMAIN tokens \cup {n} /\ n \notin DOMAIN tokens
        /\ \A x \in DOMAIN tokens :
             /\ tokens'[x].session = tokens[x].session /\ tokens'[x].expires = tokens[x].expires
             /\ tokens'[x].revoked = IF x = t THEN sessionClock ELSE tokens[x].revoked
        /\ tokens'[n].session = tokens[t].session /\ tokens'[n].revoked = 0
        /\ \E a : /\ a.session = tokens[t].session /\ a.expires = sessionClock + AccessTTL
                  /\ access' = access \cup {a}
  BY <1>0, <1>i, RotateRows
<1>2. UNCHANGED <<purged, sessionClock, signedOut>> BY DEF RotateStep
<1>3. sessionClock \in Nat \ {0} /\ AccessTTL \in Nat BY <1>i, SessionNumbers
<1>4. tokens[t].session \notin signedOut BY <1>i, <1>1 DEF LiveTokens, Live
<1>5. \A x \in DOMAIN tokens' : x = n \/ (x \in DOMAIN tokens /\ x # n) BY <1>1
<1>6. purged' \subseteq DOMAIN tokens' /\ (signedOut \subseteq Sessions)'
  BY <1>i, <1>1, <1>2 DEF Sessions
\* Of the old tokens those are live that were, but for the one that is rotated.
<1>7. \A x \in DOMAIN tokens : Live(x)' <=> (Live(x) /\ x # t)
  BY <1>1, <1>3 DEF Live
<1>n. Live(n)' BY <1>1 DEF Live
<1>8. \A x \in purged' : Live(x)' => tokens'[x].expires <= sessionClock'
  BY <1>i, <1>1, <1>2, <1>7
<1>9. LiveTokens'
  <2>1. ASSUME NEW x \in DOMAIN tokens', tokens'[x].session \in signedOut' PROVE ~Live(x)'
    <3>1. x \in DOMAIN tokens BY <1>1, <1>2, <1>4, <1>5, <2>1
    <3> QED BY <1>i, <1>1, <1>2, <1>7, <2>1, <3>1 DEF LiveTokens
  <2>2. ASSUME NEW x \in DOMAIN tokens', tokens'[x].session \notin signedOut'
        PROVE  \E v \in DOMAIN tokens' : tokens'[v].session = tokens'[x].session /\ Live(v)'
    <3>1. CASE tokens'[x].session = tokens[t].session BY <1>1, <1>n, <3>1
    <3>2. CASE tokens'[x].session # tokens[t].session
      <4>1. x \in DOMAIN tokens BY <1>1, <1>5, <3>2
      <4>2. PICK v \in DOMAIN tokens : tokens[v].session = tokens[x].session /\ Live(v)
        BY <1>i, <1>1, <1>2, <2>2, <4>1 DEF LiveTokens
      <4>3. v # t BY <1>1, <3>2, <4>1, <4>2
      <4> QED BY <1>1, <1>7, <4>1, <4>2, <4>3
    <3> QED BY <3>1, <3>2
  <2>3. ASSUME NEW x \in DOMAIN tokens, Live(x)' PROVE tokens'[x].session # tokens'[n].session
    BY <1>i, <1>1, <1>7, <2>3 DEF LiveTokens, Live
  <2>4. ASSUME NEW x \in DOMAIN tokens', NEW v \in DOMAIN tokens',
               tokens'[x].session = tokens'[v].session, Live(x)', Live(v)'
        PROVE  x = v
    <3>1. CASE x \in DOMAIN tokens /\ v \in DOMAIN tokens
      BY <1>i, <1>1, <1>7, <2>4, <3>1 DEF LiveTokens
    <3>2. CASE x = n /\ v \in DOMAIN tokens BY <2>3, <2>4, <3>2
    <3>3. CASE v = n /\ x \in DOMAIN tokens BY <2>3, <2>4, <3>3
    <3> QED BY <1>5, <3>1, <3>2, <3>3
  <2> QED BY <2>1, <2>2, <2>4 DEF LiveTokens
<1>10. ASSUME NEW a \in access' PROVE AccessOK(a)'
  <2>1. CASE a \in access
    <3>1. AccessOK(a) BY <1>i, <2>1
    <3>2. CASE a.session \in signedOut
      <4>1. PICK x \in DOMAIN tokens : /\ tokens[x].session = a.session
                                       /\ a.expires <= tokens[x].revoked + AccessTTL
        BY <3>1, <3>2 DEF AccessOK
      <4>2. x # t BY <1>4, <3>2, <4>1
      <4>3. /\ x \in DOMAIN tokens' /\ tokens'[x].session = a.session
            /\ a.expires <= tokens'[x].revoked + AccessTTL
        BY <1>1, <4>1, <4>2
      <4> QED BY <1>2, <3>1, <4>3 DEF AccessOK
    <3>3. CASE a.session \notin signedOut BY <1>2, <3>1, <3>3 DEF AccessOK
    <3> QED BY <3>2, <3>3
  <2>2. CASE a.session = tokens[t].session /\ a.expires = sessionClock + AccessTTL
    BY <1>2, <1>3, <1>4, <2>2 DEF AccessOK
  <2> QED BY <1>1, <1>10, <2>1, <2>2
<1> QED BY <1>6, <1>8, <1>9, <1>10

LEMMA RevokeKeeps ==
  ASSUME SessionsInv, RevokeStep, SessionTypes'
  PROVE  /\ purged' \subseteq DOMAIN tokens' /\ (signedOut \subseteq Sessions)'
         /\ \A t \in purged' : Live(t)' => tokens'[t].expires <= sessionClock'
         /\ LiveTokens' /\ \A a \in access' : AccessOK(a)'
<1>i. /\ SessionTypes /\ purged \subseteq DOMAIN tokens /\ signedOut \subseteq Sessions
      /\ \A t \in purged : Live(t) => tokens[t].expires <= sessionClock
      /\ LiveTokens
      /\ \A a \in access : AccessOK(a)
  BY DEF SessionsInv
<1>0. /\ tokens \in Seq(TokenRow) /\ sessionClock \in Nat /\ sessionClock # 0 /\ AccessTTL \in Nat
      /\ \A x \in DOMAIN tokens : tokens[x].revoked \in Nat
  BY <1>i, SessionNumbers DEF SessionTypes
<1>1. PICK ts \in SUBSET DOMAIN tokens :
        /\ tokens' = Revoke(tokens, ts)
        /\ signedOut' = signedOut \cup {tokens[t].session : t \in {x \in ts : tokens[x].revoked = 0}}
  BY DEF RevokeStep
<1>2. UNCHANGED <<purged, sessionClock, access>> BY DEF RevokeStep
<1>3. /\ DOMAIN tokens' = DOMAIN tokens
      /\ \A x \in DOMAIN tokens :
           /\ tokens'[x].session = tokens[x].session /\ tokens'[x].expires = tokens[x].expires
           /\ tokens'[x].revoked = IF x \in ts /\ tokens[x].revoked = 0
                                   THEN sessionClock ELSE tokens[x].revoked
  BY <1>0, <1>1, RevokeStamps
<1>4. \A x \in DOMAIN tokens : Live(x)' <=> (Live(x) /\ x \notin ts)
  BY <1>0, <1>3 DEF Live
<1>5. \A s : s \in signedOut' <=>
        s \in signedOut \/ \E x \in ts : Live(x) /\ tokens[x].session = s
  BY <1>1 DEF Live
<1>6. purged' \subseteq DOMAIN tokens' /\ (signedOut \subseteq Sessions)'
  BY <1>i, <1>2, <1>3, <1>5 DEF Sessions
<1>7. \A x \in purged' : Live(x)' => tokens'[x].expires <= sessionClock'
  BY <1>i, <1>2, <1>3, <1>4
<1>8. LiveTokens'
  <2>1. ASSUME NEW x \in DOMAIN tokens', tokens'[x].session \in signedOut' PROVE ~Live(x)'
    <3>1. CASE tokens[x].session \in signedOut
      BY <1>i, <1>3, <1>4, <3>1 DEF LiveTokens
    <3>2. CASE \E y \in ts : Live(y) /\ tokens[y].session = tokens[x].session
      <4>1. PICK y \in ts : Live(y) /\ tokens[y].session = tokens[x].session BY <3>2
      <4>2. x \in DOMAIN tokens /\ y \in DOMAIN tokens BY <1>3
      <4>3. Live(x) => x = y BY <1>i, <4>1, <4>2 DEF LiveTokens
      <4> QED BY <1>4, <4>1, <4>2, <4>3
    <3> QED BY <1>3, <1>5, <2>1, <3>1, <3>2
  <2>2. ASSUME NEW x \in DOMAIN tokens', tokens'[x].session \notin signedOut'
        PROVE  \E v \in DOMAIN tokens' : tokens'[v].session = tokens'[x].session /\ Live(v)'
    <3>1. PICK v \in DOMAIN tokens : tokens[v].session = tokens[x].session /\ Live(v)
      BY <1>i, <1>3, <1>5, <2>2 DEF LiveTokens
    <3>2. v \notin ts BY <1>3, <1>5, <2>2, <3>1
    <3> QED BY <1>3, <1>4, <3>1, <3>2
  <2>3. \A x, v \in DOMAIN tokens' :
          tokens'[x].session = tokens'[v].session /\ Live(x)' /\ Live(v)' => x = v
    BY <1>i, <1>3, <1>4 DEF LiveTokens
  <2> QED BY <2>1, <2>2, <2>3 DEF LiveTokens
<1>9. ASSUME NEW a \in access' PROVE AccessOK(a)'
  <2>1. AccessOK(a) BY <1>i, <1>2
  <2>2. a.expires \in Nat /\ a.expires <= sessionClock + AccessTTL BY <2>1 DEF AccessOK
  <2>3. ASSUME a.session \in signedOut'
        PROVE  \E x \in DOMAIN tokens' : /\ tokens'[x].session = a.session
                                         /\ a.expires <= tokens'[x].revoked + AccessTTL
    <3>1. CASE a.session \in signedOut
      <4>1. PICK x \in DOMAIN tokens : /\ tokens[x].session = a.session
                                       /\ a.expires <= tokens[x].revoked + AccessTTL
        BY <2>1, <3>1 DEF AccessOK
      <4>2. tokens'[x].revoked = sessionClock \/ tokens'[x].revoked = tokens[x].revoked
        BY <1>3, <4>1
      <4> QED BY <1>3, <2>2, <4>1, <4>2
    <3>2. CASE \E x \in ts : Live(x) /\ tokens[x].session = a.session
      <4>1. PICK x \in ts : Live(x) /\ tokens[x].session = a.session BY <3>2
      <4>2. x \in DOMAIN tokens /\ tokens'[x].revoked = sessionClock BY <1>3, <4>1 DEF Live
      <4> QED BY <1>3, <2>2, <4>1, <4>2
    <3> QED BY <1>5, <2>3, <3>1, <3>2
  <2> QED BY <1>2, <2>2, <2>3 DEF AccessOK
<1> QED BY <1>6, <1>7, <1>8, <1>9

LEMMA SessionsInvStays ==
  ASSUME SessionsInv, [SessionsNext]_sessionVars PROVE SessionsInv'
<1>1. SessionTypes' /\ (SeedAdmin \in Accounts)' BY SessionTypesStay
<1>2. TokenStep BY TokenSteps DEF SessionsInv
<1>3. /\ purged' \subseteq DOMAIN tokens' /\ (signedOut \subseteq Sessions)'
      /\ \A t \in purged' : Live(t)' => tokens'[t].expires <= sessionClock'
      /\ LiveTokens' /\ \A a \in access' : AccessOK(a)'
  BY <1>1, <1>2, QuietKeeps, StartKeeps, RotateKeeps, RevokeKeeps DEF TokenStep
<1> QED BY <1>1, <1>3 DEF SessionsInv

LEMMA SessionsInvStarts == SessionsInit => SessionsInv
<1> SUFFICES ASSUME SessionsInit PROVE SessionsInv OBVIOUS
<1>0. SeedAdmin \in User /\ SeedEmail \in Spelling BY SessionsAssumption
<1>1. [email |-> SeedEmail, role |-> "admin"] \in AccountRow BY <1>0 DEF AccountRow, Role
<1>2. accounts \in [User -> AccountRow \cup {NoAccount}] BY <1>1 DEF SessionsInit
<1>3. accounts[SeedAdmin] = [email |-> SeedEmail, role |-> "admin"] BY <1>0 DEF SessionsInit
<1>4. Accounts = {SeedAdmin}
  <2>1. accounts[SeedAdmin] # NoAccount BY <1>1, <1>3, NoAccountHasNoRole
  <2> QED BY <1>0, <2>1 DEF SessionsInit, Accounts
<1>5. tokens \in Seq(TokenRow) /\ DOMAIN tokens = {} BY EmptySeq DEF SessionsInit
<1>6. NoCall \in CallRow /\ NoCall.user = SeedAdmin /\ NoCall.token = 0
  BY <1>0 DEF NoCall, CallRow, Role
<1>7. SessionTypes BY <1>2, <1>4, <1>5, <1>6 DEF SessionsInit, SessionTypes
<1> QED BY <1>4, <1>5, <1>7 DEF SessionsInit, SessionsInv, LiveTokens

\* A session's tokens that count are none after a logout, and one before it.
LEMMA LiveTokensCount == SessionsInv => OneTokenPerSession
<1> SUFFICES ASSUME SessionsInv, NEW s \in Sessions
             PROVE  Cardinality({t \in TokensOf(s) :
                      tokens[t].revoked = 0 /\ (t \in purged => tokens[t].expires <= sessionClock)})
                      = IF s \in signedOut THEN 0 ELSE 1
  BY DEF OneTokenPerSession
<1> DEFINE Counted == {t \in TokensOf(s) :
             tokens[t].revoked = 0 /\ (t \in purged => tokens[t].expires <= sessionClock)}
<1>1. Counted = {t \in DOMAIN tokens : tokens[t].session = s /\ Live(t)}
  BY DEF SessionsInv, TokensOf, Live
<1>2. CASE s \in signedOut
  <2>1. Counted = {} BY <1>1, <1>2 DEF SessionsInv, LiveTokens
  <2> QED BY <1>2, <2>1, FS_EmptySet
<1>3. CASE s \notin signedOut
  <2>1. PICK t \in DOMAIN tokens : tokens[t].session = s BY DEF Sessions
  <2>2. PICK v \in DOMAIN tokens : tokens[v].session = s /\ Live(v)
    BY <1>3, <2>1 DEF SessionsInv, LiveTokens
  <2>3. Counted = {v} BY <1>1, <2>2 DEF SessionsInv, LiveTokens
  <2> QED BY <1>3, <2>3, FS_Singleton
<1> QED BY <1>2, <1>3

LEMMA SessionsInvHolds == SessionsSpec => []SessionsInv
<1>1. SessionsInit => SessionsInv BY SessionsInvStarts
<1> QED BY <1>1, SessionsInvStays, PTL DEF SessionsSpec

\* For any number of refreshes, logouts and logouts of all sessions at once,
\* with the purge between them: a session has one token that counts until it is
\* signed out, and none after (AuthService.Refresh and Logout,
\* RefreshTokenRepo.RevokeAllForUser and DeleteExpired).
THEOREM SessionNeverForks == SessionsSpec => []OneTokenPerSession
BY SessionsInvHolds, LiveTokensCount, PTL

\* An access token outlives the logout of its session by its own life time at
\* most, whatever happens between them (AuthService.issueTokens, Logout).
THEOREM AccessTokensEnd == SessionsSpec => []AccessEndsWithSession
<1>1. SessionsInv => AccessEndsWithSession
  BY DEF SessionsInv, AccessOK, AccessEndsWithSession, TokensOf
<1> QED BY <1>1, SessionsInvHolds, PTL

-----------------------------------------------------------------------------
(* The claims of access tokens *)

\* The invariant: whoever is known to be an admin was seen so just now, a
\* session keeps its account, and a claim ends in time.
ClaimsInv ==
  /\ adminSeen \in [User -> 0 .. sessionClock]
  /\ \A u \in User : KnownAdmin(u) => adminSeen[u] = sessionClock
  /\ \A t \in DOMAIN tokens : UserOf(tokens[t].session) = tokens[t].user
  /\ \A a \in access : a.session \in DOMAIN tokens
  /\ AdminClaimsEnd

LEMMA AdminSeenStays ==
  ASSUME SessionsInv, ClaimsInv, [SessionsNext]_sessionVars
  PROVE  /\ adminSeen' \in [User -> 0 .. sessionClock']
         /\ \A u \in User : KnownAdmin(u)' => adminSeen'[u] = sessionClock'
         /\ \A u \in User : adminSeen[u] \in Nat /\ adminSeen'[u] \in Nat /\ adminSeen[u] <= adminSeen'[u]
<1>1. sessionClock \in Nat /\ sessionClock' \in Nat /\ sessionClock <= sessionClock'
  <2>1. TokenStep /\ sessionClock \in Nat BY TokenSteps DEF SessionsInv, SessionTypes
  <2> QED BY <2>1 DEF TokenStep, QuietStep, StartStep, RotateStep, RevokeStep
<1>2. CASE UNCHANGED sessionVars
  <2>1. \A u \in User : KnownAdmin(u)' <=> KnownAdmin(u)
    BY <1>2 DEF sessionVars, KnownAdmin, Admins, Accounts, At
  <2> QED BY <1>1, <1>2, <2>1 DEF sessionVars, ClaimsInv
<1>3. CASE Remember
  <2>1. adminSeen' = [u \in User |-> IF KnownAdmin(u)' THEN sessionClock' ELSE adminSeen[u]]
    BY <1>3 DEF Remember
  <2>2. \A u \in User : adminSeen[u] \in 0 .. sessionClock BY DEF ClaimsInv
  <2> QED BY <1>1, <2>1, <2>2
<1> QED BY <1>2, <1>3 DEF SessionsNext

\* What a step adds: at most one claim, of an account known to be an admin.
LEMMA ClaimAdded ==
  ASSUME SessionsInv, ClaimsInv, [SessionsNext]_sessionVars
  PROVE  /\ DOMAIN tokens \subseteq DOMAIN tokens'
         /\ \A t \in DOMAIN tokens :
              tokens'[t].user = tokens[t].user /\ tokens'[t].session = tokens[t].session
         /\ \A t \in DOMAIN tokens' : UserOf(tokens[t].session)' = tokens'[t].user
         /\ \A a \in access' \ access :
              /\ a.session \in DOMAIN tokens' /\ a.expires = sessionClock + AccessTTL
              /\ a.role = "admin" => KnownAdmin(tokens'[a.session].user)
<1>0. /\ SessionTypes /\ TokenStep
      /\ \A t \in DOMAIN tokens : tokens[t].session \in DOMAIN tokens /\ UserOf(tokens[t].session) = tokens[t].user
  <2>1. ASSUME NEW t \in DOMAIN tokens PROVE tokens[t].session \in DOMAIN tokens
    <3>1. DOMAIN tokens = 1 .. Len(tokens) /\ Len(tokens) \in Nat /\ tokens[t].session \in 1 .. t
      BY LenProperties DEF SessionsInv, SessionTypes
    <3> QED BY <3>1
  <2> QED BY <2>1, TokenSteps DEF SessionsInv, ClaimsInv
<1>1. CASE QuietStep
  BY <1>0, <1>1 DEF QuietStep, UserOf
<1>2. CASE RevokeStep
  <2>1. PICK ts : tokens' = Revoke(tokens, ts) BY <1>2 DEF RevokeStep
  <2>2. tokens \in Seq(TokenRow) /\ sessionClock \in Nat BY <1>0 DEF SessionTypes
  <2>3. /\ DOMAIN tokens' = DOMAIN tokens
        /\ \A x \in DOMAIN tokens :
             tokens'[x].session = tokens[x].session /\ tokens'[x].user = tokens[x].user
    BY <2>1, <2>2, RevokeStamps
  <2>4. access' = access BY <1>2 DEF RevokeStep
  <2> QED BY <1>0, <2>3, <2>4 DEF UserOf
<1>3. CASE StartStep
  <2>0. PICK n : n = Len(tokens) + 1 OBVIOUS
  <2>1. /\ DOMAIN tokens' = DOMAIN tokens \cup {n}
        /\ \A t \in DOMAIN tokens : tokens'[t] = tokens[t]
        /\ tokens'[n].session = n
        /\ \E a \in [session : {n}, role : Role, expires : {sessionClock + AccessTTL}] :
             access' = access \cup {a} /\ (a.role = "admin" => KnownAdmin(tokens'[n].user))
    BY <1>0, <1>3, <2>0, StartRows, AccountSteps, AccountsStay DEF Accounts
  <2>2. \A t \in DOMAIN tokens' : UserOf(tokens[t].session)' = tokens'[t].user
    BY <1>0, <2>1 DEF UserOf
  <2>3. PICK a \in [session : {n}, role : Role, expires : {sessionClock + AccessTTL}] :
          access' = access \cup {a} /\ (a.role = "admin" => KnownAdmin(tokens'[n].user))
    BY <2>1
  <2>4. a.session = n /\ a.expires = sessionClock + AccessTTL OBVIOUS
  <2> QED BY <2>1, <2>2, <2>3, <2>4
<1>4. CASE RotateStep
  <2>0. PICK n : n = Len(tokens) + 1 OBVIOUS
  <2>1. PICK t \in DOMAIN tokens :
        /\ DOMAIN tokens' = DOMAIN tokens \cup {n} /\ n \notin DOMAIN tokens
        /\ \A x \in DOMAIN tokens :
             tokens'[x].session = tokens[x].session /\ tokens'[x].user = tokens[x].user
        /\ tokens'[n].session = tokens[t].session /\ tokens'[n].user = tokens[t].user
        /\ \E a \in [session : {tokens[t].session}, role : Role, expires : {sessionClock + AccessTTL}] :
             access' = access \cup {a} /\ (a.role = "admin" => KnownAdmin(tokens[t].user))
    BY <1>0, <1>4, <2>0, RotateRows
  <2>2. \A x \in DOMAIN tokens' : UserOf(tokens[x].session)' = tokens'[x].user
    BY <1>0, <2>1 DEF UserOf
  <2>3. PICK a \in [session : {tokens[t].session}, role : Role, expires : {sessionClock + AccessTTL}] :
          access' = access \cup {a} /\ (a.role = "admin" => KnownAdmin(tokens[t].user))
    BY <2>1
  <2>4. a.session = tokens[t].session /\ a.expires = sessionClock + AccessTTL OBVIOUS
  <2>5. a.session \in DOMAIN tokens /\ tokens'[a.session].user = tokens[t].user
    BY <1>0, <2>1, <2>4 DEF UserOf
  <2> QED BY <2>1, <2>2, <2>3, <2>4, <2>5
<1> QED BY <1>0, <1>1, <1>2, <1>3, <1>4 DEF TokenStep

LEMMA ClaimsInvStays ==
  ASSUME SessionsInv, ClaimsInv, [SessionsNext]_sessionVars PROVE ClaimsInv'
<1>1. /\ adminSeen' \in [User -> 0 .. sessionClock']
      /\ \A u \in User : KnownAdmin(u)' => adminSeen'[u] = sessionClock'
      /\ \A u \in User : adminSeen[u] \in Nat /\ adminSeen'[u] \in Nat /\ adminSeen[u] <= adminSeen'[u]
  BY AdminSeenStays
<1>2. /\ DOMAIN tokens \subseteq DOMAIN tokens'
      /\ \A t \in DOMAIN tokens : tokens'[t].user = tokens[t].user
      /\ \A t \in DOMAIN tokens' : UserOf(tokens[t].session)' = tokens'[t].user
      /\ \A a \in access' \ access :
           /\ a.session \in DOMAIN tokens' /\ a.expires = sessionClock + AccessTTL
           /\ a.role = "admin" => KnownAdmin(tokens'[a.session].user)
  BY ClaimAdded
<1>3. /\ \A t \in DOMAIN tokens' : tokens'[t].user \in User
      /\ sessionClock \in Nat /\ AccessTTL \in Nat
      /\ \A a \in access : a.expires \in Nat
  <2>1. SessionTypes' BY SessionTypesStay
  <2>2. \A t \in DOMAIN tokens' : tokens'[t].user \in User BY <2>1 DEF SessionTypes, Accounts
  <2> QED BY <2>2, SessionNumbers DEF SessionsInv, AccessOK
<1>4. \A a \in access' : a.session \in DOMAIN tokens' BY <1>2 DEF ClaimsInv
<1>5. ASSUME NEW a \in access', a.role = "admin"
      PROVE  a.expires <= adminSeen'[tokens'[a.session].user] + AccessTTL
  <2>0. PICK u : u = tokens'[a.session].user OBVIOUS
  <2>1. u \in User BY <1>3, <1>4, <2>0
  <2>2. CASE a \in access
    <3>1. a.session \in DOMAIN tokens /\ a.expires <= adminSeen[tokens[a.session].user] + AccessTTL
      BY <1>5, <2>2 DEF ClaimsInv, AdminClaimsEnd, UserOf
    <3>2. a.expires <= adminSeen[u] + AccessTTL BY <1>2, <2>0, <3>1
    <3>3. a.expires \in Nat BY <1>3, <2>2
    <3> QED BY <1>1, <1>3, <2>0, <2>1, <3>2, <3>3
  <2>3. CASE a \notin access
    <3>1. a.expires = sessionClock + AccessTTL /\ KnownAdmin(u) BY <1>2, <1>5, <2>0, <2>3
    <3>2. adminSeen[u] = sessionClock BY <2>1, <3>1 DEF ClaimsInv
    <3> QED BY <1>1, <1>3, <2>0, <2>1, <3>1, <3>2
  <2> QED BY <2>2, <2>3
<1>6. AdminClaimsEnd' BY <1>5 DEF AdminClaimsEnd, UserOf
<1> QED BY <1>1, <1>2, <1>4, <1>6 DEF ClaimsInv

LEMMA ClaimsInvStarts == SessionsInit => ClaimsInv
<1> SUFFICES ASSUME SessionsInit PROVE ClaimsInv OBVIOUS
<1>1. SeedAdmin \in User /\ sessionClock = 1 /\ DOMAIN tokens = {} /\ access = {}
  BY SessionsAssumption DEF SessionsInit
<1>2. adminSeen = [u \in User |-> IF u = SeedAdmin THEN 1 ELSE 0] BY DEF SessionsInit
<1>3. ASSUME NEW u \in User, KnownAdmin(u) PROVE u = SeedAdmin
  <2>1. \A c \in Call : calls[c].pc = "idle" BY DEF SessionsInit, NoCall
  <2>2. u \in Admins BY <1>3, <2>1 DEF KnownAdmin, At
  <2> QED BY <2>2 DEF SessionsInit, Admins, Accounts
<1> QED BY <1>1, <1>2, <1>3 DEF ClaimsInv, AdminClaimsEnd

\* For any number of logins, refreshes and changes of roles at once: the claim
\* of a token to be an admin ends within its life time of the last instant its
\* account was one, or a login in progress had read that it was
\* (AuthService.Refresh, which reads the account again on the master).
THEOREM AdminClaimsAgeOut == SessionsSpec => []AdminClaimsEnd
<1>1. SessionsInit => SessionsInv /\ ClaimsInv BY SessionsInvStarts, ClaimsInvStarts
<1>2. SessionsInv /\ ClaimsInv /\ [SessionsNext]_sessionVars => SessionsInv' /\ ClaimsInv'
  BY SessionsInvStays, ClaimsInvStays
<1>3. SessionsInv /\ ClaimsInv => AdminClaimsEnd BY DEF ClaimsInv
<1> QED BY <1>1, <1>2, <1>3, PTL DEF SessionsSpec

-----------------------------------------------------------------------------
(* The types of accounts and sessions                                      *)

\* What SessionsInv leaves open: who is known as an admin, when tokens were
\* revoked, what access tokens say, and the bound of the clock.
SessionRest ==
  /\ roleReplica \subseteq Accounts
  /\ \A t \in DOMAIN tokens : tokens[t].revoked <= sessionClock
  /\ access \subseteq [session : Sessions, role : Role, expires : Nat]
  /\ sessionClock <= Budget /\ roleChanges \in 0 .. Budget

\* The part of it a step of tokens may touch.
LEMMA RevokedInThePast ==
  ASSUME SessionsInv, SessionRest, [SessionsNext]_sessionVars
  PROVE  /\ Sessions \subseteq Sessions'
         /\ \A t \in DOMAIN tokens' : tokens'[t].revoked <= sessionClock'
         /\ access' \subseteq [session : Sessions', role : Role, expires : Nat]
<1>0. /\ SessionTypes /\ sessionClock \in Nat /\ AccessTTL \in Nat
      /\ \A t \in DOMAIN tokens : tokens[t].revoked \in Nat /\ tokens[t].revoked <= sessionClock
      /\ access \subseteq [session : Sessions, role : Role, expires : Nat]
  BY SessionNumbers DEF SessionsInv, SessionRest
<1>1. TokenStep BY TokenSteps DEF SessionsInv
<1>2. CASE QuietStep
  <2>1. Sessions' = Sessions BY <1>2 DEF QuietStep, Sessions
  <2>2. sessionClock <= sessionClock' /\ sessionClock' \in Nat /\ tokens' = tokens
    BY <1>0, <1>2 DEF QuietStep
  <2>3. \A t \in DOMAIN tokens' : tokens'[t].revoked <= sessionClock' BY <1>0, <2>2
  <2> QED BY <1>0, <1>2, <2>1, <2>3 DEF QuietStep
<1>3. CASE StartStep
  <2>0. PICK n : n = Len(tokens) + 1 OBVIOUS
  <2>1. /\ DOMAIN tokens' = DOMAIN tokens \cup {n}
        /\ \A t \in DOMAIN tokens : tokens'[t] = tokens[t]
        /\ tokens'[n].session = n /\ tokens'[n].revoked = 0
        /\ \E a \in [session : {n}, role : Role, expires : {sessionClock + AccessTTL}] :
             access' = access \cup {a}
    BY <1>0, <1>3, <2>0, StartRows, AccountSteps, AccountsStay DEF Accounts
  <2>2. sessionClock' = sessionClock BY <1>3 DEF StartStep
  <2>3. Sessions \subseteq Sessions' /\ n \in Sessions' BY <2>1 DEF Sessions
  <2>4. \A t \in DOMAIN tokens' : tokens'[t].revoked <= sessionClock'
    BY <1>0, <2>1, <2>2
  <2>5. sessionClock + AccessTTL \in Nat BY <1>0
  <2>6. access' \subseteq [session : Sessions', role : Role, expires : Nat]
    BY <1>0, <2>1, <2>3, <2>5
  <2> QED BY <2>3, <2>4, <2>6
<1>4. CASE RotateStep
  <2>0. PICK n : n = Len(tokens) + 1 OBVIOUS
  <2>1. PICK t \in DOMAIN tokens :
        /\ DOMAIN tokens' = DOMAIN tokens \cup {n}
        /\ \A x \in DOMAIN tokens :
             /\ tokens'[x].session = tokens[x].session
             /\ tokens'[x].revoked = IF x = t THEN sessionClock ELSE tokens[x].revoked
        /\ tokens'[n].session = tokens[t].session /\ tokens'[n].revoked = 0
        /\ \E a \in [session : {tokens[t].session}, role : Role, expires : {sessionClock + AccessTTL}] :
             access' = access \cup {a}
    BY <1>0, <1>4, <2>0, RotateRows
  <2>2. sessionClock' = sessionClock BY <1>4 DEF RotateStep
  <2>3. Sessions \subseteq Sessions' /\ tokens[t].session \in Sessions BY <2>1 DEF Sessions
  <2>4. \A x \in DOMAIN tokens' : tokens'[x].revoked <= sessionClock'
    BY <1>0, <2>1, <2>2
  <2>5. sessionClock + AccessTTL \in Nat BY <1>0
  <2>6. access' \subseteq [session : Sessions', role : Role, expires : Nat]
    BY <1>0, <2>1, <2>3, <2>5
  <2> QED BY <2>3, <2>4, <2>6
<1>5. CASE RevokeStep
  <2>1. PICK ts : tokens' = Revoke(tokens, ts) BY <1>5 DEF RevokeStep
  <2>2. tokens \in Seq(TokenRow) BY <1>0 DEF SessionTypes
  <2>3. /\ DOMAIN tokens' = DOMAIN tokens
        /\ \A x \in DOMAIN tokens :
             /\ tokens'[x].session = tokens[x].session
             /\ tokens'[x].revoked = IF x \in ts /\ tokens[x].revoked = 0
                                     THEN sessionClock ELSE tokens[x].revoked
    BY <1>0, <2>1, <2>2, RevokeStamps
  <2>4. Sessions' = Sessions BY <2>3 DEF Sessions
  <2>5. sessionClock' = sessionClock /\ access' = access BY <1>5 DEF RevokeStep
  <2>6. \A x \in DOMAIN tokens' : tokens'[x].revoked <= sessionClock' BY <1>0, <2>3, <2>5
  <2> QED BY <1>0, <2>4, <2>5, <2>6
<1> QED BY <1>1, <1>2, <1>3, <1>4, <1>5 DEF TokenStep

\* The other part: the replica, the clock and the count.
LEMMA CountsStayBounded ==
  ASSUME SessionsInv, SessionRest, [SessionsNext]_sessionVars
  PROVE  /\ roleReplica' \subseteq Accounts'
         /\ sessionClock' <= Budget /\ roleChanges' \in 0 .. Budget
<1> DEFINE Counts ==
      /\ roleReplica' = roleReplica \/ roleReplica' = Admins
      /\ \/ sessionClock' = sessionClock /\ roleChanges' = roleChanges
         \/ InBudget /\ sessionClock' = sessionClock + 1 /\ roleChanges' = roleChanges
         \/ InBudget /\ sessionClock' = sessionClock /\ roleChanges' = roleChanges + 1
<1>1. ASSUME UNCHANGED sessionVars PROVE Counts BY <1>1 DEF sessionVars
<1>2. ASSUME NEW c \in Call, SessionsCall(c) PROVE Counts
  <2>1. CASE PostRegister(c) BY <2>1 DEF PostRegister, Register
  <2>2. CASE PostLogin(c) BY <2>2 DEF PostLogin, VerifyLogin, IssueLogin
  <2>3. CASE PostRefresh(c) BY <2>3 DEF PostRefresh, GetActiveByHashTx, Refresh
  <2>4. CASE PostLogout(c)
    <3>1. (\E t \in DOMAIN tokens, u \in Accounts : LookUpLogout(c, u, t)) \/ Logout(c)
      BY <2>4 DEF PostLogout
    <3> QED BY <3>1 DEF LookUpLogout, Logout
  <2>5. CASE PostForceLogout(c) BY <2>5 DEF PostForceLogout, ForceLogoutUser
  <2>6. CASE PostPromote(c) BY <2>6 DEF PostPromote, PromoteUser, GuardSoleAdmin, ApplyRole
  <2>7. CASE CallDies(c) BY <2>7 DEF CallDies
  <2> QED BY <1>2, <2>1, <2>2, <2>3, <2>4, <2>5, <2>6, <2>7 DEF SessionsCall
<1>3. ASSUME Replicate \/ SessionTick \/ DeleteExpired PROVE Counts
  <2>1. CASE Replicate BY <2>1 DEF Replicate
  <2>2. CASE SessionTick BY <2>2 DEF SessionTick
  <2>3. CASE DeleteExpired BY <2>3 DEF DeleteExpired
  <2> QED BY <1>3, <2>1, <2>2, <2>3
<1>4. Counts BY <1>1, <1>2, <1>3 DEF SessionsNext
<1> HIDE DEF Counts
<1>5. Accounts \subseteq Accounts' /\ Admins \subseteq Accounts
  BY AccountSteps, AccountsStay DEF SessionsInv, Admins
<1>6. sessionClock \in Nat /\ roleChanges \in Nat /\ Budget \in Nat
  BY SessionNumbers, SessionsAssumption DEF SessionsInv, SessionRest
<1>7. sessionClock' <= Budget /\ roleChanges' \in 0 .. Budget
  BY <1>4, <1>6 DEF InBudget, SessionRest, Counts
<1>8. roleReplica' = roleReplica \/ roleReplica' = Admins BY <1>4 DEF Counts
<1> QED BY <1>5, <1>7, <1>8 DEF SessionRest

LEMMA SessionRestStarts == SessionsInit => SessionRest
<1> SUFFICES ASSUME SessionsInit PROVE SessionRest OBVIOUS
<1>1. SessionsInv BY SessionsInvStarts
<1>2. DOMAIN tokens = {} BY DEF SessionsInit
<1>3. SeedAdmin \in Accounts BY <1>1 DEF SessionsInv
<1> QED BY <1>2, <1>3, SessionsAssumption DEF SessionsInit, SessionRest

LEMMA SessionsAreTyped == SessionsInv /\ ClaimsInv /\ SessionRest => SessionsTypeOK
<1> SUFFICES ASSUME SessionsInv, ClaimsInv, SessionRest PROVE SessionsTypeOK OBVIOUS
<1>0. /\ SessionTypes /\ sessionClock \in Nat \ {0} /\ Budget \in Nat
      /\ tokens \in Seq(TokenRow) /\ Len(tokens) \in Nat /\ DOMAIN tokens = 1 .. Len(tokens)
  BY SessionNumbers, LenProperties, SessionsAssumption DEF SessionsInv, SessionTypes
<1> DEFINE Row == [user : Accounts, session : Sessions, expires : Nat, revoked : 0 .. sessionClock]
           CallRows == [pc : {"idle", "verified", "rotate", "logout", "count", "update"},
                        user : Accounts, role : Role, token : {0} \cup DOMAIN tokens]
<1>1. ASSUME NEW t \in 1 .. Len(tokens) PROVE tokens[t] \in Row
  <2>1. tokens[t] \in TokenRow BY <1>0, ElementOfSeq
  <2>2. tokens[t].user \in Accounts /\ tokens[t].session \in Sessions
    BY <1>0 DEF SessionTypes, Sessions
  <2>3. tokens[t].revoked \in 0 .. sessionClock
    BY <1>0, <2>1 DEF SessionRest, TokenRow
  <2> QED BY <2>1, <2>2, <2>3 DEF TokenRow
<1>2. tokens \in Seq(Row)
  <2>1. tokens = [t \in 1 .. Len(tokens) |-> tokens[t]] BY <1>0, LenProperties, SeqDef
  <2>2. tokens \in [1 .. Len(tokens) -> Row] BY <1>1, <2>1
  <2> HIDE DEF Row
  <2> QED BY <1>0, <2>2, SeqDef
<1>3. calls \in [Call -> CallRows]
  <2>1. ASSUME NEW c \in Call PROVE calls[c] \in CallRows
    <3>1. calls[c] \in CallRow /\ calls[c].user \in Accounts /\ calls[c].token \in {0} \cup DOMAIN tokens
      BY <1>0 DEF SessionTypes
    <3> QED BY <3>1 DEF CallRow
  <2>2. calls = [c \in Call |-> calls[c]] BY <1>0 DEF SessionTypes
  <2> QED BY <2>1, <2>2
<1>4. accounts \in [User -> [email : Spelling, role : Role] \cup {NoAccount}]
  BY <1>0 DEF SessionTypes, AccountRow
<1>5. sessionClock \in 1 .. Budget BY <1>0 DEF SessionRest
<1> QED BY <1>2, <1>3, <1>4, <1>5 DEF SessionsInv, ClaimsInv, SessionRest, SessionsTypeOK

-----------------------------------------------------------------------------
(* Profiles and vehicles                                                   *)

ProfileRow == [phone : {"", "number"}, type : VehicleType, license : RawLicense, emergency : Flag]
SecondaryRow == [owner : Driver, row : VehicleRow]
PrimaryRow == [type : VehicleType, license : RawLicense, emergency : Flag]
ListRow == [primary : PrimaryRow, others : SUBSET Vehicle, stage : {"half", "whole"}]

ProfileTypes ==
  /\ profiles \in [Driver -> ProfileRow]
  /\ secondary \in [Vehicle -> SecondaryRow \cup {NoVehicle}]
  /\ listing \in [Driver -> ListRow \cup {NoList}]

\* A partial update sets the columns that are present: a profile stays one when
\* those are valid.
LEMMA PatchedProfile ==
  ASSUME NEW row \in ProfileRow, NEW f,
         "phone" \in DOMAIN f /\ f["phone"] # Absent => f["phone"] \in {"", "number"},
         "type" \in DOMAIN f /\ f["type"] # Absent => f["type"] \in VehicleType,
         "license" \in DOMAIN f /\ f["license"] # Absent => f["license"] \in RawLicense,
         "emergency" \in DOMAIN f /\ f["emergency"] # Absent => f["emergency"] \in Flag
  PROVE  Patch(row, f) \in ProfileRow
<1> DEFINE new == Patch(row, f)
<1>1. /\ DOMAIN row = {"phone", "type", "license", "emergency"}
      /\ row["phone"] \in {"", "number"} /\ row["type"] \in VehicleType
      /\ row["license"] \in RawLicense /\ row["emergency"] \in Flag
  BY DEF ProfileRow
<1>2. /\ new["phone"] \in {"", "number"} /\ new["type"] \in VehicleType
      /\ new["license"] \in RawLicense /\ new["emergency"] \in Flag
  <2>1. new["phone"] \in {"", "number"} BY <1>1 DEF Patch
  <2>2. new["type"] \in VehicleType BY <1>1 DEF Patch
  <2>3. new["license"] \in RawLicense BY <1>1 DEF Patch
  <2>4. new["emergency"] \in Flag BY <1>1 DEF Patch
  <2> QED BY <2>1, <2>2, <2>3, <2>4
<1>3. new = [k \in {"phone", "type", "license", "emergency"} |-> new[k]]
  BY <1>1 DEF Patch
<1> HIDE DEF new
<1>4. new = [phone |-> new["phone"], type |-> new["type"], license |-> new["license"],
             emergency |-> new["emergency"]]
  BY <1>3
<1>5. new \in ProfileRow BY <1>2, <1>4 DEF ProfileRow
<1> QED BY <1>5 DEF new

\* So does the row of a secondary vehicle.
LEMMA PatchedVehicle ==
  ASSUME NEW row \in VehicleRow, NEW f,
         "type" \in DOMAIN f /\ f["type"] # Absent => f["type"] \in VehicleType,
         "license" \in DOMAIN f /\ f["license"] # Absent => f["license"] \in License,
         "emergency" \in DOMAIN f /\ f["emergency"] # Absent => f["emergency"] \in Flag
  PROVE  Patch(row, f) \in VehicleRow
<1> DEFINE new == Patch(row, f)
<1>1. /\ DOMAIN row = {"type", "license", "emergency"}
      /\ row["type"] \in VehicleType /\ row["license"] \in License /\ row["emergency"] \in Flag
  BY DEF VehicleRow
<1>2. /\ new["type"] \in VehicleType /\ new["license"] \in License /\ new["emergency"] \in Flag
  <2>1. new["type"] \in VehicleType BY <1>1 DEF Patch
  <2>2. new["license"] \in License BY <1>1 DEF Patch
  <2>3. new["emergency"] \in Flag BY <1>1 DEF Patch
  <2> QED BY <2>1, <2>2, <2>3
<1>3. new = [k \in {"type", "license", "emergency"} |-> new[k]]
  BY <1>1 DEF Patch
<1> HIDE DEF new
<1>4. new = [type |-> new["type"], license |-> new["license"], emergency |-> new["emergency"]]
  BY <1>3
<1>5. new \in VehicleRow BY <1>2, <1>4 DEF VehicleRow
<1> QED BY <1>5 DEF new

LEMMA ProfileTypesStay ==
  ASSUME ProfileTypes, [ProfilesNext]_profileVars PROVE ProfileTypes'
<1> USE DEF ProfileTypes
<1>0. UNCHANGED profileVars => ProfileTypes' BY DEF profileVars
<1>1. ASSUME NEW u \in Driver, UpdateProfile(u) PROVE ProfileTypes'
  <2>1. PICK f \in [phone : Optional({"", "number"}), type : Optional(RawType),
                    license : Optional(RawLicense)] :
          (f.type # Absent => ValidVehicleType(f.type)) /\ SetColumns(u, f)
    BY <1>1 DEF UpdateProfile
  <2>2. /\ DOMAIN f = {"phone", "type", "license"}
        /\ f["phone"] # Absent => f["phone"] \in {"", "number"}
        /\ f["type"] # Absent => f["type"] \in VehicleType
        /\ f["license"] # Absent => f["license"] \in RawLicense
    BY <2>1 DEF Optional, ValidVehicleType
  <2>3. "emergency" \notin DOMAIN f BY <2>2
  <2>4. Patch(profiles[u], f) \in ProfileRow BY <2>2, <2>3, PatchedProfile
  <2>5. profiles' \in [Driver -> ProfileRow] BY <2>1, <2>4 DEF SetColumns
  <2> QED BY <1>1, <2>1, <2>5 DEF UpdateProfile, SetColumns
<1>v. ASSUME NEW f \in VehicleFields, ValidFields(f)
      PROVE  /\ DOMAIN f = {"type", "license", "emergency"}
             /\ f["type"] # Absent => f["type"] \in VehicleType
             /\ f["license"] # Absent => f["license"] \in License
             /\ f["emergency"] # Absent => f["emergency"] \in Flag
  BY <1>v DEF VehicleFields, ValidFields, ValidVehicleType, ValidLicense, Optional
<1>2. ASSUME NEW u \in Driver, UpdatePrimary(u) PROVE ProfileTypes'
  <2>1. PICK f \in VehicleFields : ValidFields(f) /\ SetColumns(u, f)
    BY <1>2 DEF UpdatePrimary, UpdatePrimaryVehicle, SetPrimary
  <2>2. /\ DOMAIN f = {"type", "license", "emergency"}
        /\ f["type"] # Absent => f["type"] \in VehicleType
        /\ f["license"] # Absent => f["license"] \in License
        /\ f["emergency"] # Absent => f["emergency"] \in Flag
    BY <1>v, <2>1
  <2>3. "phone" \notin DOMAIN f /\ License \subseteq RawLicense BY <2>2 DEF RawLicense
  <2>4. Patch(profiles[u], f) \in ProfileRow BY <2>2, <2>3, PatchedProfile
  <2>5. profiles' \in [Driver -> ProfileRow] BY <2>1, <2>4 DEF SetColumns
  <2> QED BY <1>2, <2>1, <2>5 DEF UpdatePrimary, SetColumns
<1>3. ASSUME NEW u \in Driver, AddSecondary(u) PROVE ProfileTypes'
  <2>1. PICK f \in [type : RawType, license : RawLicense, emergency : Flag] :
          ValidFields(f) /\ ValidVehicleType(f.type) /\ \E v \in Vehicle : InsertSecondary(u, v, f)
    BY <1>3 DEF AddSecondary, AddSecondaryVehicle
  <2>2. f.license \in License
    BY <2>1 DEF ValidFields, ValidLicense, RawLicense, Absent
  <2>3. f \in VehicleRow BY <2>1, <2>2 DEF VehicleRow, ValidVehicleType
  <2>4. PICK v \in Vehicle : InsertSecondary(u, v, f) BY <2>1
  <2>5. [owner |-> u, row |-> f] \in SecondaryRow BY <2>3 DEF SecondaryRow
  <2>6. secondary' \in [Vehicle -> SecondaryRow \cup {NoVehicle}]
    BY <2>4, <2>5 DEF InsertSecondary
  <2> QED BY <1>3, <2>4, <2>6 DEF AddSecondary, InsertSecondary
<1>4. ASSUME NEW u \in Driver, UpdateSecondary(u) PROVE ProfileTypes'
  <2>1. PICK v \in Vehicle, f \in VehicleFields : ValidFields(f) /\ SetSecondary(u, v, f)
    BY <1>4 DEF UpdateSecondary, UpdateSecondaryVehicle
  <2>2. /\ DOMAIN f = {"type", "license", "emergency"}
        /\ f["type"] # Absent => f["type"] \in VehicleType
        /\ f["license"] # Absent => f["license"] \in License
        /\ f["emergency"] # Absent => f["emergency"] \in Flag
    BY <1>v, <2>1
  <2>3. secondary[v] \in SecondaryRow BY <2>1 DEF SetSecondary, OwnedBy
  <2>4. secondary[v].row \in VehicleRow BY <2>3 DEF SecondaryRow
  <2>5. Patch(secondary[v].row, f) \in VehicleRow BY <2>2, <2>4, PatchedVehicle
  <2>6. PICK new : new = Patch(secondary[v].row, f) OBVIOUS
  <2>7. secondary' = [secondary EXCEPT ![v].row = new] BY <2>1, <2>6 DEF SetSecondary
  <2>8. [secondary[v] EXCEPT !.row = new] \in SecondaryRow BY <2>3, <2>5, <2>6 DEF SecondaryRow
  <2>9. secondary' \in [Vehicle -> SecondaryRow \cup {NoVehicle}] BY <2>7, <2>8
  <2> QED BY <1>4, <2>1, <2>9 DEF UpdateSecondary, SetSecondary
<1>5. ASSUME NEW u \in Driver, DeleteSecondary(u) PROVE ProfileTypes'
  BY <1>5 DEF DeleteSecondary, RemoveSecondary
<1>6. ASSUME NEW u \in Driver, ListVehicles(u) PROVE ProfileTypes'
  <2>1. CASE listing' = [listing EXCEPT ![u] = [primary |-> GetPrimary(u), others |-> {}, stage |-> "half"]]
    <3>1. GetPrimary(u) \in PrimaryRow BY DEF GetPrimary, ProfileRow, PrimaryRow
    <3>2. [primary |-> GetPrimary(u), others |-> {}, stage |-> "half"] \in ListRow
      BY <3>1 DEF ListRow
    <3> QED BY <1>6, <2>1, <3>2 DEF ListVehicles
  <2>2. CASE /\ listing[u].stage = "half"
             /\ listing' = [listing EXCEPT ![u].others = ListSecondary(u), ![u].stage = "whole"]
    <3>1. listing[u] \in ListRow BY <2>2 DEF NoList
    <3>2. PICK l : l = ListSecondary(u) OBVIOUS
    <3>3. l \in SUBSET Vehicle BY <3>2 DEF ListSecondary
    <3>4. listing' = [listing EXCEPT ![u] = [listing[u] EXCEPT !.others = l, !.stage = "whole"]]
      BY <2>2, <3>2
    <3>5. [listing[u] EXCEPT !.others = l, !.stage = "whole"] \in ListRow
      BY <3>1, <3>3 DEF ListRow
    <3>6. listing' \in [Driver -> ListRow \cup {NoList}] BY <3>4, <3>5
    <3> QED BY <1>6, <3>6 DEF ListVehicles
  <2> QED BY <1>6, <2>1, <2>2 DEF ListVehicles
<1> QED BY <1>0, <1>1, <1>2, <1>3, <1>4, <1>5, <1>6 DEF ProfilesNext

LEMMA ProfileTypesStart == ProfilesInit => ProfileTypes
<1> SUFFICES ASSUME ProfilesInit PROVE ProfileTypes OBVIOUS
<1>1. PICK t \in VehicleType, l \in License :
        profiles = [u \in Driver |-> [phone |-> "", type |-> t, license |-> l, emergency |-> "no"]]
  BY DEF ProfilesInit
<1>2. [phone |-> "", type |-> t, license |-> l, emergency |-> "no"] \in ProfileRow
  BY DEF ProfileRow, RawLicense, Flag
<1> QED BY <1>1, <1>2 DEF ProfilesInit, ProfileTypes

\* For any drivers and vehicles, and whatever requests carry: a secondary
\* vehicle has a known type and a validated licence, a primary one a known type
\* (VehicleService and the handlers' validation; UpdateProfile checks no licence).
THEOREM VehiclesStayValid == ProfilesSpec => []ProfilesTypeOK
<1>1. ProfileTypes => ProfilesTypeOK
  BY DEF ProfileTypes, ProfilesTypeOK, ProfileRow, SecondaryRow, PrimaryRow, ListRow
<1> QED BY <1>1, ProfileTypesStart, ProfileTypesStay, PTL DEF ProfilesSpec

-----------------------------------------------------------------------------
(* All parts together                                                      *)

\* The clock of the keys ends.
LEMMA KeyClockStays ==
  ASSUME KeysInv, keyNow <= MaxKeyTime, [KeysNext]_keyVars PROVE keyNow' <= MaxKeyTime
<1>0. keyNow \in Nat /\ MaxKeyTime \in Nat BY TokenKeysAssumption DEF KeysInv, KeyTypes
<1>1. keyNow' = keyNow \/ KeyTick
  BY DEF KeysNext, Rotate, GetKey, ServeJWKS, StoreKeys, FetchFails, LookAgain, EndRequest,
         ValidatorRestarts, keyVars
<1> QED BY <1>0, <1>1 DEF KeyTick

AccountsInv ==
  /\ SessionsInv /\ SessionRest /\ ClaimsInv
  /\ ProfileTypes
  /\ MigrationsInv
  /\ KeysInv /\ keyNow <= MaxKeyTime

LEMMA AccountsStart == AccountsInit => AccountsInv
<1> SUFFICES ASSUME AccountsInit PROVE AccountsInv OBVIOUS
<1>1. keyNow <= MaxKeyTime BY TokenKeysAssumption DEF AccountsInit, KeysInit
<1> QED BY <1>1, SessionsInvStarts, SessionRestStarts, ClaimsInvStarts, ProfileTypesStart, MigrationsInvStarts,
           KeysInvStarts DEF AccountsInit, AccountsInv

LEMMA AccountsInvStays ==
  ASSUME AccountsInv, [AccountsNext]_accountsVars PROVE AccountsInv'
<1>1. /\ [SessionsNext]_sessionVars /\ [ProfilesNext]_profileVars
      /\ [MigrationsNext]_migrationVars /\ [KeysNext]_keyVars
  BY DEF AccountsNext, accountsVars
<1>2. SessionsInv' /\ SessionRest' /\ ClaimsInv'
  <2>1. SessionsInv' BY <1>1, SessionsInvStays DEF AccountsInv
  <2>2. SessionRest' BY <1>1, RevokedInThePast, CountsStayBounded DEF AccountsInv, SessionRest
  <2>3. ClaimsInv' BY <1>1, ClaimsInvStays DEF AccountsInv
  <2> QED BY <2>1, <2>2, <2>3
<1>3. ProfileTypes' BY <1>1, ProfileTypesStay DEF AccountsInv
<1>4. MigrationsInv' BY <1>1, MigrationsInvStays DEF AccountsInv
<1>5. KeysInv' /\ keyNow' <= MaxKeyTime BY <1>1, KeysInvStays, KeyClockStays DEF AccountsInv
<1> QED BY <1>2, <1>3, <1>4, <1>5 DEF AccountsInv

\* The parts of MCAccounts, of which one moves, keep their types and all of
\* their invariants, for any calls, users, drivers, replicas, issuers and bounds.
THEOREM AccountsAreSound ==
  AccountsSpec => [](/\ AccountsTypeOK /\ OneTokenPerSession
                     /\ AccessEndsWithSession /\ AdminClaimsEnd /\ ServingIsMigrated /\ KeysAgeOut)
<1>1. ASSUME AccountsInv PROVE AccountsTypeOK
  <2>1. SessionsTypeOK BY <1>1, SessionsAreTyped DEF AccountsInv
  <2>2. ProfilesTypeOK
    BY <1>1 DEF AccountsInv, ProfileTypes, ProfilesTypeOK, ProfileRow, SecondaryRow, PrimaryRow, ListRow
  <2>3. MigrationsTypeOK BY <1>1 DEF AccountsInv, MigrationsInv
  <2>4. KeyTypes /\ fetchedAt \in 0 .. MaxKeyTime /\ keyNow \in 0 .. MaxKeyTime
    BY <1>1, TokenKeysAssumption DEF AccountsInv, KeysInv, KeyTypes
  <2>5. KeysTypeOK BY <2>4 DEF KeyTypes, KeysTypeOK, RequestRow
  <2> QED BY <2>1, <2>2, <2>3, <2>5 DEF AccountsTypeOK
<1>2. ASSUME AccountsInv
      PROVE  /\ OneTokenPerSession /\ AccessEndsWithSession /\ AdminClaimsEnd
             /\ ServingIsMigrated /\ KeysAgeOut
  <2>1. OneTokenPerSession /\ AdminClaimsEnd /\ ServingIsMigrated
    BY <1>2, LiveTokensCount, MigrationsInvServes DEF AccountsInv, ClaimsInv
  <2>2. AccessEndsWithSession
    BY <1>2 DEF AccountsInv, SessionsInv, AccessOK, AccessEndsWithSession, TokensOf
  <2>3. KeysAgeOut BY <1>2 DEF AccountsInv, KeysInv, RequestOK, KeysAgeOut
  <2> QED BY <2>1, <2>2, <2>3
<1> QED BY <1>1, <1>2, AccountsStart, AccountsInvStays, PTL DEF AccountsSpec
=============================================================================
