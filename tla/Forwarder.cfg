CONSTANTS
  Tokens = {0, 1}
  keepalive_max_failures = 1
  U32 = 3
  Faults = {}
  forward_crc = {"CrcOk"}
  MaxDatagrams = 1
  TxAckStatus = {"Ok"}
  MaxDownlinks = 1
SPECIFICATION FairSpec
INVARIANTS
  TypeOK
  AbortCause
PROPERTIES
  RestartQuiescent
  SilenceReconnects
  ImplementsSession
  ImplementsParts
