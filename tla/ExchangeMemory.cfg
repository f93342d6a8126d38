SPECIFICATION Spec
CONSTANTS
  None = None
  Clients = {"sa1", "sa2"}
  Contexts = {"ctx"}
  Scopes = {1, 2}
  Audiences = {"def", "alt"}
  ClaimKeys = {"role", "sub"}
  Atoms = {"reader", "seven"}
  Strings = {"reader"}
  RESERVED_CLAIMS = {"sub"}
  Blank = {}
  BadScopes = {}
  DefaultAudience = "def"
  Mappings <- MCMappings
  ClaimSets <- MCClaimSets
  MaxBatch = 2
  Requests = {r1}
  Forms <- MCForms
  Backend = "memory"
  ExternalClaims = {}
  Ttl = 1
  MaxWrites = 3
  MaxClock = 1
INVARIANTS
  TypeOK
  IssuedJustified
  RevocationBounded
CHECK_DEADLOCK FALSE
