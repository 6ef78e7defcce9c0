CONSTANTS
  model = model
  mesh = mesh
  texture = texture
  Keys <- MCKeys
  Versions = {1, 2}
  NoVersion = NoVersion
  Required <- MCRequired
  Bytes <- MCBytes
  MaximumPayloadBytes = 5
  MaxRetentions = 2
  s1 = s1
  s2 = s2
  s3 = s3
  Slots = {s1, s2, s3}
  MaxGeneration = 2
  MaxWorlds = 2
  NoEntity = NoEntity
  NoTransform = NoTransform
  MaxStretch = 1
  EditedTransforms <- MCEditedTransforms
SPECIFICATION MCSpec
SYMMETRY Symmetry
INVARIANTS
  BytesAreExact
  DependenciesAreExact
  ClosureIsCached
  RetentionIsExact
  HierarchyIsForest
PROPERTIES
  ReleaseReclaims
  StaleStayStale
  WorldIsPreserved
