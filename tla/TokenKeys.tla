------------------------------ MODULE TokenKeys ------------------------------
(***************************************************************************)
(* The keys that sign access tokens, and the cache of public keys a        *)
(* service verifies them with (JWKSValidator).  IAM replicas rotate by a   *)
(* restart with the next key and publish it with the one before; requests  *)
(* of the service share one cache and refresh it concurrently.             *)
(*                                                                         *)
(* A key id is the number of the rotation that brought it.                 *)
(***************************************************************************)
EXTENDS Naturals

CONSTANTS
  Issuer,      \* replicas of the IAM service
  Request,     \* requests of the verifying service
  KeyTTL,      \* cacheTTL, an hour
  FetchTime,   \* the timeout of the HTTP client, five seconds
  MaxKid,      \* rotations (a bound)
  MaxKeyTime   \* the last instant of the clock (a bound)

ASSUME TokenKeysAssumption ==
  {KeyTTL, FetchTime, MaxKid} \subseteq Nat /\ MaxKeyTime \in Nat \ {0}

VARIABLES
  signing,    \* the key each issuer signs with
  left,       \* history: one more than the instant an issuer last stopped publishing a key
  known,      \* v.keys
  fetchedAt,  \* v.fetchedAt, 0 before the first fetch
  request,    \* [stage, kid, since, keys: the fetched response, failed]
  keyNow

keyVars == <<signing, left, known, fetchedAt, request, keyNow>>

Kid == 0 .. MaxKid
NoRequest == [stage |-> "idle", kid |-> 0, since |-> 0, keys |-> {}, failed |-> FALSE]
SetRequest(q, s) == request' = [request EXCEPT ![q] = s]
Advance(q, stage, keys, failed) ==
  SetRequest(q, [stage |-> stage, kid |-> request[q].kid, since |-> request[q].since,
                 keys |-> keys, failed |-> failed])

\* BuildJWKS: the signing key and, if there is one, the one before.
JWKS(g) == {k \in Kid : k = g \/ k + 1 = g}
Published == UNION {JWKS(signing[i]) : i \in Issuer}

-----------------------------------------------------------------------------

\* A restart of an issuer with the next key.  A rolling rotation ends before
\* the next begins.
Rotate(i) ==
  /\ signing[i] < MaxKid /\ \A j \in Issuer : signing[i] <= signing[j]
  /\ signing' = [signing EXCEPT ![i] = @ + 1]
  /\ left' = [k \in Kid |-> IF k \in JWKS(signing[i]) \ JWKS(signing'[i])
                            THEN keyNow + 1 ELSE left[k]]
  /\ UNCHANGED <<known, fetchedAt, request, keyNow>>

\* Mutant: a cache that was filled stays good.
NeverExpired == FALSE
KeysExpired == fetchedAt = 0 \/ keyNow - fetchedAt > KeyTTL

\* getKey up to the refresh.  The token was signed by some issuer.
GetKey(q, k) ==
  /\ request[q].stage = "idle" /\ \E i \in Issuer : k <= signing[i]
  /\ SetRequest(q, [stage |-> IF k \in known /\ ~KeysExpired THEN "granted" ELSE "fetch",
                    kid |-> k, since |-> keyNow, keys |-> {}, failed |-> FALSE])
  /\ UNCHANGED <<signing, left, known, fetchedAt, keyNow>>

\* The GET reaches some issuer, which answers with its keys.
ServeJWKS(q, i) ==
  /\ request[q].stage = "fetch"
  /\ Advance(q, "store", JWKS(signing[i]), FALSE)
  /\ UNCHANGED <<signing, left, known, fetchedAt, keyNow>>

\* fetchKeys replaces the whole map.
StoreKeys(q) ==
  /\ request[q].stage = "store"
  /\ known' = request[q].keys /\ fetchedAt' = keyNow
  /\ Advance(q, "again", {}, FALSE)
  /\ UNCHANGED <<signing, left, keyNow>>

\* No answer, a status other than 200, a body that does not decode, a timeout.
FetchFails(q) ==
  /\ request[q].stage \in {"fetch", "store"}
  /\ Advance(q, "again", {}, TRUE)
  /\ UNCHANGED <<signing, left, known, fetchedAt, keyNow>>

\* getKey after the refresh: whatever the map holds now, and the map of before
\* if the refresh failed.
LookAgain(q) ==
  /\ request[q].stage = "again"
  /\ Advance(q, IF request[q].kid \in known THEN "granted" ELSE "refused", {}, request[q].failed)
  /\ UNCHANGED <<signing, left, known, fetchedAt, keyNow>>

EndRequest(q) ==
  /\ request[q].stage \in {"granted", "refused"} /\ SetRequest(q, NoRequest)
  /\ UNCHANGED <<signing, left, known, fetchedAt, keyNow>>

\* A new process has no keys.
ValidatorRestarts ==
  /\ known' = {} /\ fetchedAt' = 0 /\ request' = [q \in Request |-> NoRequest]
  /\ UNCHANGED <<signing, left, keyNow>>

\* The client gives a fetch up after FetchTime; a request does nothing else that
\* takes time.
KeyTick ==
  /\ keyNow < MaxKeyTime /\ keyNow' = keyNow + 1
  /\ \A q \in Request :
       \/ request[q].stage = "idle"
       \/ request[q].stage \in {"fetch", "store"} /\ keyNow < request[q].since + FetchTime
  /\ UNCHANGED <<signing, left, known, fetchedAt, request>>

-----------------------------------------------------------------------------

KeysInit ==
  /\ signing = [i \in Issuer |-> 0] /\ left = [k \in Kid |-> 0]
  /\ known = {} /\ fetchedAt = 0 /\ keyNow = 1
  /\ request = [q \in Request |-> NoRequest]

KeysNext ==
  \/ \E i \in Issuer : Rotate(i)
  \/ \E q \in Request :
       \/ \E k \in Kid : GetKey(q, k)
       \/ \E i \in Issuer : ServeJWKS(q, i)
       \/ StoreKeys(q) \/ FetchFails(q) \/ LookAgain(q) \/ EndRequest(q)
  \/ ValidatorRestarts \/ KeyTick

KeysSpec == KeysInit /\ [][KeysNext]_keyVars

-----------------------------------------------------------------------------

KeysTypeOK ==
  /\ signing \in [Issuer -> Kid] /\ left \in [Kid -> Nat]
  /\ known \subseteq Kid
  /\ {fetchedAt, keyNow} \subseteq 0 .. MaxKeyTime
  /\ request \in [Request -> [stage : {"idle", "fetch", "store", "again", "granted", "refused"},
                              kid : Kid, since : Nat, keys : SUBSET Kid, failed : BOOLEAN]]

\* A key that no issuer publishes any more stops being accepted an hour and a
\* fetch later, however refreshes interleave; only a request whose own refresh
\* failed falls back on older keys (getKey, fetchKeys).
KeysAgeOut ==
  \A q \in Request :
    request[q].stage = "granted" /\ ~request[q].failed =>
      \/ request[q].kid \in Published
      \/ keyNow < left[request[q].kid] + KeyTTL + FetchTime
=============================================================================
