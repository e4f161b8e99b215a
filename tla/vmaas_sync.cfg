SPECIFICATION Spec
CONSTANTS
  Advisories = {1, 2}
  Labels = {1, 2, 3}
  ThirdPartyLabels = {2}
  Variants <- MCVariants
  kernel = kernel
  Packages = {kernel}
  Published <- MCPublished
  Systems = {s1}
  SystemRepos <- MCSystemRepos
  SystemPackages <- MCSystemPackages
  AdvisoryPageSize = 1
  Second = 1
  MaxExport <- MCMaxExport
  Exports <- MCExports
  Configs <- MCConfigs
  NIL = NIL
  Consumers = {c1}
  Checksum <- MCChecksum
INVARIANTS
  TypeOK
  SyncedUpToExported
  CacheOldOnlyIfOverlapped
  EvaluatedUnlessLost
CHECK_DEADLOCK FALSE
