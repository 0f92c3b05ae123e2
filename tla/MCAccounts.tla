----------------------------- MODULE MCAccounts -----------------------------
(***************************************************************************)
(* An instance for TLC of four parts that share no state: accounts and     *)
(* sessions, profiles and vehicles, the migrations of a starting service,  *)
(* the keys of access tokens.  In a behaviour one of them moves.           *)
(***************************************************************************)
EXTENDS Sessions, Profiles, Migrations, TokenKeys, TLC

CONSTANTS c1, c2, r1, r2, root, u1

VARIABLE focus   \* the part that moves
accountsVars == <<sessionVars, profileVars, migrationVars, keyVars, focus>>

MCLower == [e \in Spelling |-> IF e = "Root" THEN "root" ELSE e]
Symm == Permutations(Call)

AccountsInit ==
  /\ SessionsInit /\ ProfilesInit /\ MigrationsInit /\ KeysInit
  /\ focus \in {"sessions", "profiles", "migrations", "keys"}
  /\ focus # "migrations" => together

AccountsNext ==
  /\ UNCHANGED focus
  /\ \/ /\ focus = "sessions" /\ SessionsNext
        /\ UNCHANGED <<profileVars, migrationVars, keyVars>>
     \/ /\ focus = "profiles" /\ ProfilesNext
        /\ UNCHANGED <<sessionVars, migrationVars, keyVars>>
     \/ /\ focus = "migrations" /\ MigrationsNext
        /\ UNCHANGED <<sessionVars, profileVars, keyVars>>
     \/ /\ focus = "keys" /\ KeysNext
        /\ UNCHANGED <<sessionVars, profileVars, migrationVars>>

AccountsSpec == AccountsInit /\ [][AccountsNext]_accountsVars

\* Every part keeps its types: a profile a driver can set holds a known type
\* of vehicle and a licence that was validated, where the code validates it.
AccountsTypeOK == SessionsTypeOK /\ ProfilesTypeOK /\ MigrationsTypeOK /\ KeysTypeOK
=============================================================================
