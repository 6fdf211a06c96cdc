CONSTANTS
  TxAckStatus = {"Ok", "TOO_LATE"}
  MaxDownlinks = 4
SPECIFICATION Spec
INVARIANTS
  TypeOK
  TxAckTruthful
  SendPanicsOnlyAfterTimeout
