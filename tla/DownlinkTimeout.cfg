CONSTANTS
  TxAckStatus = {"Ok", "TOO_LATE"}
  MaxDownlinks = 2
SPECIFICATION Spec
INVARIANT
  TimeoutHarmless
