------------------------------ MODULE Sessions ------------------------------
(***************************************************************************)
(* The IAM service's accounts and sessions: registration, login, rotation  *)
(* of refresh tokens, logout, logout of all sessions, roles, and the purge *)
(* of old tokens.  A session is the chain of refresh tokens that starts at *)
(* a login or a registration.                                              *)
(*                                                                         *)
(* A call is one request that is being served.  Its database transactions  *)
(* are serializable and happen in one step, except that Refresh holds the  *)
(* lock it took with FOR UPDATE between two of its steps.  A request that  *)
(* is refused, or whose statements fail, changes nothing and has no step.  *)
(***************************************************************************)
EXTENDS Integers, Sequences, FiniteSets

CONSTANTS
  Call,        \* requests served at a time
  User,        \* ids of accounts
  SeedAdmin,   \* the account of migration 003, its password set by the operators
  SeedEmail,
  Spelling,    \* email addresses as they are typed
  LowerOf,     \* the lower case form of each
  AccessTTL, RefreshTTL, Retention,
  MaxTokens,   \* a bound of the runs: no call that would issue more starts
  Budget       \* another: instants and requests to change a role, together

ASSUME SessionsAssumption ==
  /\ SeedAdmin \in User /\ SeedEmail \in Spelling
  /\ {AccessTTL, RefreshTTL} \subseteq Nat \ {0} /\ Retention \in Nat
  /\ AccessTTL <= RefreshTTL
  /\ MaxTokens \in Nat /\ Budget \in Nat \ {0}

VARIABLES
  accounts,     \* auth.users: each account, or NoAccount
  roleReplica,  \* the admins, as the replica knows them
  tokens,       \* every refresh token ever issued, in order; revoked is 0 or a time
  purged,       \* the tokens whose rows were deleted
  access,       \* the access tokens that have not expired
  calls,        \* what each call is doing
  sessionClock, \* the time
  roleChanges,  \* requests to change a role so far
  signedOut,    \* history: sessions whose tokens a logout revoked
  adminSeen     \* history: when each account was last known to be an admin

sessionVars ==
  <<accounts, roleReplica, tokens, purged, access, calls, sessionClock, roleChanges, signedOut, adminSeen>>

Role == {"driver", "admin"}
NoAccount == [email |-> "none", role |-> "none"]
Accounts == {u \in User : accounts[u] # NoAccount}
Admins == {u \in Accounts : accounts[u].role = "admin"}

NoCall == [pc |-> "idle", user |-> SeedAdmin, role |-> "driver", token |-> 0]
At(c, pc) == calls[c].pc = pc
Goto(c, pc, u, r, t) == calls' = [calls EXCEPT ![c] = [pc |-> pc, user |-> u, role |-> r, token |-> t]]
Done(c) == calls' = [calls EXCEPT ![c] = NoCall]

Stored(t) == t \in DOMAIN tokens \ purged
TokensOf(s) == {t \in DOMAIN tokens : tokens[t].session = s}
Sessions == {tokens[t].session : t \in DOMAIN tokens}
UserOf(s) == tokens[s].user

\* revoked_at IS NULL AND expires_at > NOW()
GetActiveByHash(t) == Stored(t) /\ tokens[t].revoked = 0 /\ tokens[t].expires > sessionClock

\* FOR UPDATE: held from the lookup of Refresh until its commit.
Locked(t) == \E c \in Call : At(c, "rotate") /\ calls[c].token = t

\* JWTMiddleware and RequireRole: the claims decide, not the account.
Bearer(u) == \E a \in access : UserOf(a.session) = u
AdminBearer == \E a \in access : a.role = "admin"

Room == Len(tokens) < MaxTokens
InBudget == sessionClock + roleChanges < Budget

-----------------------------------------------------------------------------
(* Statements *)

\* The unique index on email_lower.
EmailTaken(e) == \E u \in Accounts : LowerOf[accounts[u].email] = LowerOf[e]

GetByEmail(e) == {u \in Accounts : LowerOf[accounts[u].email] = LowerOf[e]}

GetByID(u) == accounts[u]

CreateTx(u, e) ==
  /\ ~EmailTaken(e)
  /\ accounts' = [accounts EXCEPT ![u] = [email |-> e, role |-> "driver"]]

\* The INSERT of a refresh token; a token that continues no session starts one.
CreateToken(rows, u, s) ==
  Append(rows, [user |-> u, session |-> IF s = 0 THEN Len(rows) + 1 ELSE s,
                expires |-> sessionClock + RefreshTTL, revoked |-> 0])

\* The claims carry the role the caller of the operation read.
SignAccessToken(s, r) == [session |-> s, role |-> r, expires |-> sessionClock + AccessTTL]

Revoke(rows, ts) ==
  [t \in DOMAIN rows |->
     IF t \in ts /\ rows[t].revoked = 0 THEN [rows[t] EXCEPT !.revoked = sessionClock] ELSE rows[t]]

\* It waits for the refreshes that hold a lock.
RevokeAllForUser(u) ==
  LET rows == {t \in DOMAIN tokens : Stored(t) /\ tokens[t].user = u} IN
  /\ \A t \in rows : ~Locked(t)
  /\ tokens' = Revoke(tokens, rows)
  /\ signedOut' = signedOut \cup {tokens[t].session : t \in {x \in rows : tokens[x].revoked = 0}}

UpdateRole(u, r) == accounts' = [accounts EXCEPT ![u].role = r]

\* Read on the replica.
CountByRole == Cardinality(roleReplica)

\* Both rows of the pair, for a session s that goes on or, if 0, starts.
IssueTokens(rows, u, r, s) ==
  LET session == IF s = 0 THEN Len(rows) + 1 ELSE s IN
  /\ tokens' = CreateToken(rows, u, s)
  /\ access' = access \cup {SignAccessToken(session, r)}

-----------------------------------------------------------------------------
(* AuthService *)

\* Account and first token in one transaction.
Register(c, e) ==
  /\ At(c, "idle") /\ Room
  /\ \E u \in User \ Accounts : CreateTx(u, e) /\ IssueTokens(tokens, u, "driver", 0)
  /\ UNCHANGED <<roleReplica, purged, calls, sessionClock, roleChanges, signedOut>>

VerifyLogin(c, e) ==
  /\ At(c, "idle") /\ Room
  /\ \E u \in GetByEmail(e) : Goto(c, "verified", u, accounts[u].role, 0)
  /\ UNCHANGED <<accounts, roleReplica, tokens, purged, access, sessionClock, roleChanges, signedOut>>

\* No transaction: the role is the one read with the password.
IssueLogin(c) ==
  /\ At(c, "verified") /\ Room
  /\ IssueTokens(tokens, calls[c].user, calls[c].role, 0)
  /\ Done(c)
  /\ UNCHANGED <<accounts, roleReplica, purged, sessionClock, roleChanges, signedOut>>

GetActiveByHashTx(c, t) ==
  /\ At(c, "idle") /\ Room /\ GetActiveByHash(t) /\ ~Locked(t)
  /\ Goto(c, "rotate", tokens[t].user, "driver", t)
  /\ UNCHANGED <<accounts, roleReplica, tokens, purged, access, sessionClock, roleChanges, signedOut>>

\* Mutant: the new pair is issued and the old token stays good.
KeepOld(c) ==
  LET t == calls[c].token IN
  /\ At(c, "rotate") /\ Room
  /\ IssueTokens(tokens, tokens[t].user, GetByID(tokens[t].user).role, tokens[t].session)
  /\ Done(c)
  /\ UNCHANGED <<accounts, roleReplica, purged, sessionClock, roleChanges, signedOut>>

\* Mutant: the account is read on the replica.
RefreshStale(c) ==
  LET t == calls[c].token IN
  /\ At(c, "rotate") /\ Room
  /\ Stored(t) /\ tokens[t].revoked = 0
  /\ IssueTokens(Revoke(tokens, {t}), tokens[t].user,
                 IF tokens[t].user \in roleReplica THEN "admin" ELSE "driver", tokens[t].session)
  /\ Done(c)
  /\ UNCHANGED <<accounts, roleReplica, purged, sessionClock, roleChanges, signedOut>>

\* RevokeTx, which must find the row unrevoked, GetByIDTx, issueTokensTx and
\* the commit.
Refresh(c) ==
  LET t == calls[c].token IN
  /\ At(c, "rotate") /\ Room
  /\ Stored(t) /\ tokens[t].revoked = 0
  /\ IssueTokens(Revoke(tokens, {t}), tokens[t].user, GetByID(tokens[t].user).role, tokens[t].session)
  /\ Done(c)
  /\ UNCHANGED <<accounts, roleReplica, purged, sessionClock, roleChanges, signedOut>>

\* A token of the caller's own.
LookUpLogout(c, u, t) ==
  /\ At(c, "idle") /\ GetActiveByHash(t) /\ tokens[t].user = u
  /\ Goto(c, "logout", u, "driver", t)
  /\ UNCHANGED <<accounts, roleReplica, tokens, purged, access, sessionClock, roleChanges, signedOut>>

\* Whether a row was revoked is not looked at: the token may have been
\* rotated since it was looked up, and its successor lives on.
Logout(c) ==
  LET t == calls[c].token IN
  /\ At(c, "logout") /\ ~Locked(t)
  /\ tokens' = Revoke(tokens, {t} \ purged)
  /\ signedOut' = signedOut \cup (IF tokens[t].revoked = 0 /\ Stored(t) THEN {tokens[t].session} ELSE {})
  /\ Done(c)
  /\ UNCHANGED <<accounts, roleReplica, purged, access, sessionClock, roleChanges>>

-----------------------------------------------------------------------------
(* AdminService *)

\* The account that is looked up first cannot go away: accounts are never deleted.
ForceLogoutUser(c, u) ==
  /\ At(c, "idle") /\ RevokeAllForUser(u)
  /\ UNCHANGED <<accounts, roleReplica, purged, access, calls, sessionClock, roleChanges>>

\* What was looked up decides nothing when the new role is admin.
PromoteUser(c, u, r) ==
  /\ At(c, "idle") /\ InBudget /\ roleChanges' = roleChanges + 1
  /\ \/ r = "admin" /\ UpdateRole(u, r) /\ UNCHANGED calls
     \/ /\ r = "driver" /\ UNCHANGED accounts
        /\ Goto(c, IF GetByID(u).role = "admin" THEN "count" ELSE "update", u, r, 0)
  /\ UNCHANGED <<roleReplica, tokens, purged, access, sessionClock, signedOut>>

GuardSoleAdmin(c) ==
  /\ At(c, "count")
  /\ IF CountByRole <= 1 THEN Done(c) ELSE calls' = [calls EXCEPT ![c].pc = "update"]
  /\ UNCHANGED <<accounts, roleReplica, tokens, purged, access, sessionClock, roleChanges, signedOut>>

ApplyRole(c) ==
  /\ At(c, "update") /\ UpdateRole(calls[c].user, calls[c].role)
  /\ Done(c)
  /\ UNCHANGED <<roleReplica, tokens, purged, access, sessionClock, roleChanges, signedOut>>

Replicate ==
  /\ roleReplica # Admins /\ roleReplica' = Admins
  /\ UNCHANGED <<accounts, tokens, purged, access, calls, sessionClock, roleChanges, signedOut>>

-----------------------------------------------------------------------------
(* The endpoints: what a request must carry, and the service it calls *)

PostRegister(c) == \E e \in Spelling : Register(c, e)

PostLogin(c) == (\E e \in Spelling : VerifyLogin(c, e)) \/ IssueLogin(c)

PostRefresh(c) == (\E t \in DOMAIN tokens : GetActiveByHashTx(c, t)) \/ Refresh(c)

PostLogout(c) ==
  \/ \E t \in DOMAIN tokens, u \in Accounts : Bearer(u) /\ LookUpLogout(c, u, t)
  \/ Logout(c)

PostForceLogout(c) == AdminBearer /\ \E u \in Accounts : ForceLogoutUser(c, u)

PostPromote(c) ==
  \/ AdminBearer /\ \E u \in Accounts, r \in Role : PromoteUser(c, u, r)
  \/ GuardSoleAdmin(c)
  \/ ApplyRole(c)

-----------------------------------------------------------------------------
(* A call may die at any point; the clock; the purge *)

CallDies(c) ==
  /\ ~At(c, "idle") /\ Done(c)
  /\ UNCHANGED <<accounts, roleReplica, tokens, purged, access, sessionClock, roleChanges, signedOut>>

SessionTick ==
  /\ InBudget /\ sessionClock' = sessionClock + 1
  /\ access' = {a \in access : a.expires > sessionClock'}
  /\ UNCHANGED <<accounts, roleReplica, tokens, purged, calls, roleChanges, signedOut>>

Expired ==
  {t \in DOMAIN tokens :
     /\ Stored(t)
     /\ \/ tokens[t].expires < sessionClock - Retention
        \/ tokens[t].revoked # 0 /\ tokens[t].revoked < sessionClock - Retention}

DeleteExpired ==
  /\ Expired # {} /\ \A t \in Expired : ~Locked(t)
  /\ purged' = purged \cup Expired
  /\ UNCHANGED <<accounts, roleReplica, tokens, access, calls, sessionClock, roleChanges, signedOut>>

-----------------------------------------------------------------------------
SessionsInit ==
  /\ accounts = [u \in User |-> IF u = SeedAdmin
                                THEN [email |-> SeedEmail, role |-> "admin"] ELSE NoAccount]
  /\ roleReplica = {SeedAdmin}
  /\ tokens = <<>> /\ purged = {} /\ access = {}
  /\ calls = [c \in Call |-> NoCall]
  /\ sessionClock = 1 /\ roleChanges = 0 /\ signedOut = {}
  /\ adminSeen = [u \in User |-> IF u = SeedAdmin THEN 1 ELSE 0]

SessionsCall(c) ==
  \/ PostRegister(c) \/ PostLogin(c) \/ PostRefresh(c) \/ PostLogout(c)
  \/ PostForceLogout(c) \/ PostPromote(c)
  \/ CallDies(c)

\* An account is one, or a login in progress has read that it is.
KnownAdmin(u) ==
  \/ u \in Admins
  \/ \E c \in Call : At(c, "verified") /\ calls[c].user = u /\ calls[c].role = "admin"

Remember ==
  adminSeen' = [u \in User |-> IF KnownAdmin(u)' THEN sessionClock' ELSE adminSeen[u]]

SessionsNext ==
  /\ \/ \E c \in Call : SessionsCall(c)
     \/ Replicate \/ SessionTick \/ DeleteExpired
  /\ Remember

SessionsSpec == SessionsInit /\ [][SessionsNext]_sessionVars

-----------------------------------------------------------------------------
(* Only what was issued is purged, and a call names what exists.           *)
SessionsTypeOK ==
  /\ accounts \in [User -> [email : Spelling, role : Role] \cup {NoAccount}]
  /\ roleReplica \subseteq Accounts
  /\ tokens \in Seq([user : Accounts, session : Sessions, expires : Nat, revoked : 0..sessionClock])
  /\ purged \subseteq DOMAIN tokens /\ signedOut \subseteq Sessions
  /\ access \subseteq [session : Sessions, role : Role, expires : Nat]
  /\ calls \in [Call -> [pc : {"idle", "verified", "rotate", "logout", "count", "update"},
                         user : Accounts, role : Role, token : {0} \cup DOMAIN tokens]]
  /\ sessionClock \in 1..Budget /\ roleChanges \in 0..Budget
  /\ adminSeen \in [User -> 0..sessionClock]

\* Refreshes, logouts and logouts of all sessions run at once, and the purge
\* deletes rows: a session has exactly one token that was neither revoked nor
\* lost to the purge in its life time, until it is signed out, and none from
\* then on.  A refresh neither loses the session nor forks it, nor does it
\* save it from a logout that revoked its token.
OneTokenPerSession ==
  \A s \in Sessions :
    Cardinality({t \in TokensOf(s) :
      tokens[t].revoked = 0 /\ (t \in purged => tokens[t].expires <= sessionClock)})
      = IF s \in signedOut THEN 0 ELSE 1

\* Access tokens are checked without asking the service; they outlive the
\* end of their session by their own life time at most.
AccessEndsWithSession ==
  \A a \in access : a.session \in signedOut =>
    \E t \in TokensOf(a.session) : a.expires <= tokens[t].revoked + AccessTTL

\* A demotion revokes nothing, and the claims of a token are believed without
\* looking at the account: logins, refreshes and changes of roles run at once,
\* on accounts whose replica lags.  However often a session is refreshed, its
\* claim to be an admin lives on for the life time of one access token at most.
AdminClaimsEnd ==
  \A a \in access : a.role = "admin" => a.expires <= adminSeen[UserOf(a.session)] + AccessTTL

=============================================================================
