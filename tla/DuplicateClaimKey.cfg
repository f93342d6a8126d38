SPECIFICATION ServiceSpec
CONSTANTS
  None = None
  Clients = {"sa"}
  Contexts = {"ctx"}
  Scopes = {1, 2, 3}
  Audiences = {"aud"}
  ClaimKeys = {"role", "tier", "sub"}
  Atoms = {"reader", "writer", "seven"}
  Strings = {"reader", "writer"}
  RESERVED_CLAIMS = {"sub"}
  Blank = {}
  BadScopes = {}
  DefaultAudience = "aud"
  Mappings = {}
  ClaimSets <- MCClaims
  MaxBatch = 1
INVARIANTS
  DuplicateKeyRejected

