SPECIFICATION FairSpec
CONSTANTS
  Requests = {r1, r2}
  Probes = {p1}
  MaxConns = 1
  MaxStatements = 2
  None = None
INVARIANTS
  TypeOK
  ReportsFit
  PoolOutlivesTasks
PROPERTIES
  StopsGracefully
  EveryTaskEnds
  StopsWhenItShould
