SPECIFICATION SuSpec
CONSTANTS
  None = None
  Files <- MCFiles
  Environments <- MCEnvironments
  Defaults <- MCDefaults
  MAX_TOKEN_TTL_SECS = 86400
CHECK_DEADLOCK FALSE
INVARIANTS
  SuTypeOK
  FailFast
  NoLateConfigurationError
