CONSTANTS
  Verzoeken = {r1, r2, r3}
  Geen = Geen
SPECIFICATION Spec
INVARIANTS
  TypeOK
  VersiesAaneengesloten
  NieuwsteGeldt
  SerieelHoogstensEen
  EisenBewaard
PROPERTIES
  ElkeTransactieEindigt
CHECK_DEADLOCK FALSE
