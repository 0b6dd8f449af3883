\* A migration by hand: conversions, reviews, verifications, a source that changes meanwhile.
CONSTANTS
  MinInteger <- MCMinInteger
  MaxInteger = 1
  Strings = {"", "a"}
  StringSize <- MCStringSize
  NameOrder <- MCNameOrder
  SafeNames <- MCSafeNames
  CapabilityNames = {"clipboard.system", "map.view"}
  Network = {}
  Storage = {}
  NodeHash <- MCNodeHash
  MaxDepth = 3
  MaxSegments = 3
  Interface <- MCInterface
  Permissions <- NoTable
  UsageKey <- NoTable
  Declarations <- NoTable
  IdOrder <- MCIdOrder
  Cleaned <- MCCleaned
  Lower <- MCLower
  Sensitive = {"token"}
  Target <- MCTarget
  LeastNodes = 8
  NodesPerPage = 4
  Trees <- MCTrees
  Versions <- MCVersions
  Scans <- MCScans
  Reports <- MCReports
  Modules <- MCModules
  Revisions <- MCRevisions
  Selections <- MCSelections
  Changes <- MCChanges
  Changed <- MCChanged
  Printed <- MCPrinted
  CaseFiles <- MCCaseFiles
  MaxEdits = 3
  MaxCuts = 1
SPECIFICATION Spec
INVARIANTS VerifiedIsDeserved ReviewsStand ScaffoldKeepsAll
CHECK_DEADLOCK FALSE
