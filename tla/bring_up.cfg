SPECIFICATION FairSpec
CONSTANTS
  Keys = {k1, k2}
  MaxInterrupts = 1
  None = None
  Broken = Broken
  Replicas = {r1, r2}
  Configs <- MCConfigs
  MaxDeaths = 1
  Nobody = Nobody
INVARIANTS
  KeyTypeOK
  StartTypeOK
  CopiesMatch
  MigrationIsExclusive
  CleanVersionIsTrue
  ServesOnWholeSchema
PROPERTIES
  Settles
  ComesUp
