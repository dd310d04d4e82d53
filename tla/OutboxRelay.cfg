CONSTANTS
  e1 = e1
  e2 = e2
  e3 = e3
  Events = {e1, e2, e3}
  Groepen <- MCGroepen
  Batches = {l1, l2}
  Limiet = 2
  MaxFouten = 1
SPECIFICATION RelaySpec
INVARIANTS
  RelayTypeOK
PROPERTIES
  ImplementeertBezorging
  ElkeRegelWordtGemarkeerd
CHECK_DEADLOCK FALSE
