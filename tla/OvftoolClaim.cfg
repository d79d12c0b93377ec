SPECIFICATION Spec
CONSTANTS
  Proc = {p1}
  Machines <- Machine
  Mixes <- AllVmdk
PROPERTY AvailableIsLocated
CHECK_DEADLOCK FALSE
