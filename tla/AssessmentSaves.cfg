CONSTANTS
  Browsers = {b1, b2, b3}
  Direct = {d1}
  Contents = {x, y}
  NoContent = NoContent
  MaxVersion = 2
  MaxSaves = 1
  MaxFaults = 1
SYMMETRY Symmetry
SPECIFICATION Spec
INVARIANTS
  RunsAgree
  MetadataFollows
  IInv
  RunsOwnSave
PROPERTIES
  NoLostUpdate
  VersionsGrow
CHECK_DEADLOCK FALSE
