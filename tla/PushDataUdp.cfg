CONSTANTS
  Tokens = {0, 1, 2}
  forward_crc = {"CrcOk"}
  Faults = {"loss", "reordering"}
  MaxDatagrams = 5
SPECIFICATION Spec
INVARIANTS
  TypeOK
  CountersConserved
  AckedAtMostSent
  ExcessAtMostTwo
  AckedExactly
