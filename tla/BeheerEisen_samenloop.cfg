CONSTANTS
  Verzoeken = {r1, r2, r3}
  Geen = Geen
SPECIFICATION Spec
INVARIANT
  HoogstensEenVastgesteld
CHECK_DEADLOCK FALSE
