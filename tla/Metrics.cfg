CONSTANTS
  Threads = {t1, t2}
  Clients = {c1, c2}
  Directions = {"sent"}
  MaxDatagrams = 4
SPECIFICATION FairSpec
INVARIANTS
  TypeOK
  ScrapeFaithful
  AnswerConsistent
PROPERTIES
  CountingEnds
  CountingGoesOn
