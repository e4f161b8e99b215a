SPECIFICATION Spec
CONSTANTS
  NIL = NIL
  RootWorkspace = "w2"
  Malformed = {"bad"}
  SystemIDs = {1, 2, 3, 4}
  Account <- MCAccount
  Own = 1
  Workspaces = {"w1", "w2"}
  Rows <- MCRows
  Advisories = {1, 2, 3, 4}
  Versions = {1, 2}
  Tags = {1, 2}
  Tables <- MCTables
  Metadata <- MCMetadata
  Configs <- MCConfigs
  Grants <- MCGrants
  Requests <- MCRequests
  Unescaped <- MCUnescaped
  MaxChanges = 1
INVARIANTS
  TypeOK
  WalkExactUnlessChanged
  CountsMatchLists
  DetailCompleteOnceSynced
