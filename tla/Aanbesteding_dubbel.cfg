CONSTANTS
  b1 = b1
  b2 = b2
  Inschrijvers = {b1, b2}
  Gunners = {g1, g2}
  Publicatie = publicatie
  Geen = Geen
  Prijs <- MCPrijs
  Kwaliteit <- MCKwaliteit
  Prijsgewicht = 60
  Kwaliteitsgewicht = 40
  Validatie = "streng"
SPECIFICATION Spec
CHECK_DEADLOCK FALSE
INVARIANT
  HoogstensEenContract
