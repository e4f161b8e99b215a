SPECIFICATION Spec
CONSTANTS
  Nevras <- MCNevras
  Malformed = {}
  NIL = NIL
  Pods = {"upload", "recalc"}
  UploadPod = "upload"
  Systems = {s1}
  Account <- MCAccount
  PkgList <- MCPkgList
  CacheEnabled = TRUE
  Deployments <- MCDeployments
  MaxID <- MCMaxID
  MaxUploads = 2
INVARIANTS
  TypeOK
  StoredMatchesReportedUnlessLost
  PackageCountsExactUnlessMissed
CHECK_DEADLOCK FALSE
