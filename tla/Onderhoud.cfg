CONSTANTS
  reg = reg
  bg = bg
  oe = oe
  gu = gu
  ag = ag
  inc = inc
  Geen = Geen
  Eerder = Eerder
  Berichten = {reg, bg, oe, gu, ag, inc}
  Soort <- MCSoort
  Queue <- MCQueue
  Rang <- MCRang
  Kopieen <- MCKopieen
  Gelijktijdig = TRUE
  Meldingen = {m1}
  Diagnoses = {dg1}
  Starts = {st1, st2}
  Inspecties = {i1, i2}
  Goedgekeurd = {i1}
  Afrondingen = {af1, af2}
  Facturen = {f1}
  Keuringen = {k1}
  Schemas = {sc1}
  Zwaar = {inc}
  Validatie = "streng"
  MaxVerkeer = 3
  MaxFouten = 1
SPECIFICATION Spec
CHECK_DEADLOCK FALSE
INVARIANTS
  TypeOK
  DossierKlopt
  AfrondingVerklaard
  EenTrajectPerIncident
  VolgtDeVolgorde
