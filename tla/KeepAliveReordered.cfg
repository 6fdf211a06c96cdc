CONSTANTS
  Tokens = {0, 1, 2}
  keepalive_max_failures = 1
  U32 = 8
  Faults = {"reordering"}
SPECIFICATION Spec
INVARIANT
  StopJustified
