SPECIFICATION PgFairSpec
CONSTANTS
  None = None
  Clients = {"sa"}
  Contexts = {"ctx"}
  Scopes = {1, 2}
  Audiences = {"aud"}
  ClaimKeys = {"role"}
  Atoms = {"reader"}
  Strings = {"reader"}
  RESERVED_CLAIMS = {}
  Blank = {}
  BadScopes = {}
  DefaultAudience = "aud"
  c1 = c1
  c2 = c2
  c3 = c3
  Calls = {c1, c2, c3}
  Operations <- MCOperations
  MaxConnections = 2
CHECK_DEADLOCK FALSE
INVARIANTS
  PgTypeOK
  HeldOnce
  RowsAccounted
  NeverStuck
PROPERTIES
  ActsAtomically
  WorkShrinks
  EveryCallReturns
