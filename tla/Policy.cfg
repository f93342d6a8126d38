SPECIFICATION ServiceSpec
CONSTANTS
  None = None
  Clients = {"sa1", "sa2", " "}
  Contexts = {"ctx1", "ctx2", " "}
  Scopes = {1, 2, 3}
  Audiences = {"aud", " "}
  ClaimKeys = {"role", "tier", "sub"}
  Atoms = {"reader", "writer", "seven"}
  Strings = {"reader", "writer"}
  RESERVED_CLAIMS = {"sub"}
  Blank = {" "}
  BadScopes = {3}
  DefaultAudience = "aud"
  Mappings <- MCMappings
  ClaimSets <- MCClaimSets
  MaxBatch = 2
INVARIANTS
  PolicyValid
  ExpansionCorrect
