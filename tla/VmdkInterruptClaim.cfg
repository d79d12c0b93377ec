SPECIFICATION Spec
CONSTANT MaxSignals = 1
INVARIANT CleansUpOnOneInterrupt
CHECK_DEADLOCK FALSE
