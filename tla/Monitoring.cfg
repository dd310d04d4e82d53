CONSTANTS
  reg = reg
  bg = bg
  m1 = m1
  m2 = m2
  m3 = m3
  m4 = m4
  Geen = Geen
  Berichten = {reg, bg}
  Soort <- MCSoort
  Queue <- MCQueue
  Rang <- MCRang
  Kopieen <- MCKopieen
  Gelijktijdig = FALSE
  Starts = {s1, s2}
  Pauzes = {p1}
  Hervattingen = {h1}
  Afrondingen = {a1}
  Metingen = {m1, m2, m3, m4}
  Data <- MCData
  Behandelingen = {b1}
  Oplossingen = {o1}
  Rapporten = {r1}
  Netwerk = {n1}
  Validatie = "streng"
  MaxVerkeer = 3
  MaxFouten = 1
SPECIFICATION Spec
CHECK_DEADLOCK FALSE
INVARIANTS
  TypeOK
  SessieKlopt
  IncidentVerteld
  RapportKlopt
