CONSTANTS
  g1 = g1
  g2 = g2
  w1 = w1
  w2 = w2
  b1 = b1
  b2 = b2
  o1 = o1
  o2 = o2
  h1 = h1
  mon = mon
  deel = deel
  fout = fout
  oh = oh
  brug = brug
  sluis = sluis
  Geen = Geen
  Registraties = {g1, g2}
  Wijzigingen = {w1, w2}
  Opgave <- MCOpgave
  Buitenstellingen = {b1, b2}
  Pakketten = {o1, o2, h1}
  EisenVan <- MCEisenVan
  Rapporten = {mon, deel, fout, oh}
  Soort <- MCSoort
  Bron <- MCBron
  Ongeldig = {fout}
  Kopieen <- MCKopieen
  MaxVerkeer = 4
  MaxFouten = 1
SPECIFICATION Spec
CHECK_DEADLOCK FALSE
INVARIANTS
  TypeOK
  RegisterKlopt
  EenBeoordelingPerRapport
  BeoordelingKlopt
