SPECIFICATION Spec
CONSTANTS
  Proc = {p1, p2, p3}
  Machines <- ThreeMachines
  Mixes <- TeamMixes
SYMMETRY Processes
INVARIANTS
  UploadIsOwn
  ArchiveIsExplained
PROPERTIES
  OutputIsReplacedByOverlap
  LonePackageIsPackage
CHECK_DEADLOCK FALSE
