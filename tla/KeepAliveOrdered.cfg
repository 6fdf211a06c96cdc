CONSTANTS
  Tokens = {0, 1, 2}
  keepalive_max_failures = 2
  U32 = 8
  Faults = {"loss", "duplication"}
SPECIFICATION FairSpec
INVARIANTS
  TypeOK
  StopJustified
  StopDue
PROPERTY
  SilenceDetected
