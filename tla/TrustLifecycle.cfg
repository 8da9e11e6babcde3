SPECIFICATION FairSpec
CONSTANTS
  m1 = m1
  b1 = b1
  b2 = b2
  s1 = s1
  issuerTable = issuerTable
  digestIndex = digestIndex
  auditTable = auditTable
  did = did
  peer = peer
  MigrateJobs = {m1}
  BootstrapJobs = {b1, b2}
  Services = {s1}
  Objects = {issuerTable, digestIndex, auditTable}
  MigrationOrder <- MCMigrationOrder
  CheckOrder <- MCCheckOrder
  Document <- MCDocument
  MaxFailures = 1
  LastRun = 2
INVARIANTS
  TypeOK
  ServingMeansReady
  MigratedMeansComplete
  DoneMeansApplied
  TrustChangesAreAudited
  BrokenRunsLeaveAPrefix
PROPERTIES
  CreationTimeKept
  ServicesComeUp
