SPECIFICATION MSpec
CONSTANTS
  None = None
  Clients = {"sa1", "sa2"}
  Contexts = {"ctx"}
  Scopes = {1, 2, 3}
  Audiences = {"aud"}
  ClaimKeys = {"role", "sub"}
  Atoms = {"reader"}
  Strings = {"reader"}
  RESERVED_CLAIMS = {"sub"}
  Blank = {}
  BadScopes = {3}
  DefaultAudience = "aud"
  Mappings <- MCMappings
  ClaimSets <- MCClaimSets
  MaxBatch = 2
  Calls = {c1, c2, c3}
  Bodies <- MCBodies
  Actors <- MCActors
  accounts <- MCAccounts
  Backend = "memory"
SYMMETRY CallSymmetry
INVARIANTS
  MTypeOK
  AuditSound
  AuditComplete
PROPERTIES
  RolesSeparated
  PathNamesRows
  WritesThroughService
CHECK_DEADLOCK FALSE
