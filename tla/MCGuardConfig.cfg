CONSTANTS
  Alphabet <- MCAlphabet
  ClassLetters = {"a"}
  BaseLayer <- MCBaseLayer
  Layers <- MCLayers
  Places = {"no_cwd", "no_repo", "root", "alias", "below"}
  RootPath <- MCRootPath
  Paths <- MCPaths
  StageNames = {"rtk", "read-write-guard"}
SPECIFICATION Spec
INVARIANTS
  MergeIsOneFold
  ShownConfigReloads
  RereadHarmless
  LastLayerDecides
  AnchoredAtRoot
CHECK_DEADLOCK FALSE
