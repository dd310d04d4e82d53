CONSTANTS
  w1 = w1
  w2 = w2
  v1 = v1
  reg = reg
  bg = bg
  oe1 = oe1
  oe2 = oe2
  r1 = r1
  r2 = r2
  r3 = r3
  Geen = Geen
  Berichten = {reg, bg, oe1, oe2, r1, r2, r3}
  Soort <- MCSoort
  Queue <- MCQueue
  Rang <- MCRang
  Gelijktijdig = TRUE
  Kopieen <- MCKopieen
  Rijen = {"algemeen", "incident"}
  Rij <- MCRij
  Resultaten <- MCResultaten
  Gunningen = {g1}
  Wijzigingen = {w1, w2}
  Verklaringen = {v1}
  Afrondingen = {a1}
  Beginwaarde = 100
  Mutatie <- MCMutatie
  Score <- MCScore
  Validatie = "streng"
  MaxVerkeer = 3
  MaxFouten = 1
SPECIFICATION Spec
CHECK_DEADLOCK FALSE
INVARIANTS
  TypeOK
  WaardeKlopt
  NietsVergeten
  VolgtDeVolgorde
  GesignaleerdOfIngehaald
PROPERTIES
  AllesEindigt
