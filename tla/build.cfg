\* The compiler on a thousand sources, the delivery builder on an application's versions.
CONSTANTS
  MinInteger <- MCMinInteger
  MaxInteger = 1
  Strings <- MCStrings
  StringSize <- MCStringSize
  NameOrder <- MCNameOrder
  SafeNames <- MCSafeNames
  CapabilityNames <- MCCapabilityNames
  Network = {"network.http"}
  Storage = {"storage.kv"}
  NodeHash <- MCNodeHash
  MaxDepth = 3
  MaxSegments = 3
  Interface <- MCInterface
  Permissions <- MCPermissions
  UsageKey <- MCUsageKey
  Declarations <- MCDeclarations
  Text <- Application
  Compiled <- MCCompiled
  Sources = {1, 2, 3}
  Revisions <- MCRevisions
  Matrix <- MCMatrix
  OwnVariant <- MCOwnVariant
  Buildable <- MCBuildable
  Manifestable <- MCManifestable
  MaxFailures = 1
  Nothing = Nothing
  Damaged = Damaged
SPECIFICATION FairSpec
INVARIANTS BuildTypeOK ManifestResolves CompiledLoads Faithful EventValueSupplied
PROPERTIES LastFileTells DeliveredInTheEnd
CHECK_DEADLOCK FALSE
