\* Sessions: two calls over two users and three spellings of two addresses.  A
\* budget that lets one of two admins be demoted and a session outlive it.
\* Profiles: one driver with two vehicles' types.
\* Migrations: two replicas, two files.  Keys: two issuers, two requests.
CONSTANTS
  c1 = c1  c2 = c2  r1 = r1  r2 = r2  root = root  u1 = u1
  Call = {c1, c2}
  User = {root, u1}
  SeedAdmin = root
  SeedEmail = "root"
  Spelling = {"root", "Root", "ann"}
  LowerOf <- MCLower
  AccessTTL = 1
  RefreshTTL = 2
  Retention = 0
  MaxTokens = 3
  Budget = 4
  Driver = {"d1"}
  Vehicle = {"v1"}
  VehicleType = {"car", "van"}
  License = {"L1"}
  Replica = {r1, r2}
  Files = 2
  MaxStarts = 4
  Issuer = {"i1", "i2"}
  Request = {"q1", "q2"}
  KeyTTL = 1
  FetchTime = 1
  MaxKid = 2
  MaxKeyTime = 4
SPECIFICATION AccountsSpec
SYMMETRY Symm
CHECK_DEADLOCK FALSE
INVARIANTS
  AccountsTypeOK
  OneTokenPerSession
  AccessEndsWithSession
  AdminClaimsEnd
  ServingIsMigrated
  KeysAgeOut
