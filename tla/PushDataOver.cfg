CONSTANTS
  Tokens = {0, 1, 2}
  forward_crc = {"CrcOk"}
  Faults = {}
  MaxDatagrams = 4
SPECIFICATION Spec
INVARIANT
  AckrIsPercentage
