CONSTANTS
  Servers = {s1, s2}
SPECIFICATION Spec
PROPERTY
  GiveUpReconnects
