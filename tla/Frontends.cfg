SPECIFICATION Spec
CHECK_DEADLOCK FALSE
CONSTANTS
  Streng = TRUE
  MaxPogingen = 1
  MaxLopen = 2
  MaxVerstoringen = 2
  MaxRijen = 3
  MaxVluchten = 2
  MaxVragen = 5
  Contexten = {"contract"}
  Ingeschakeld = TRUE
  MaxTokens = 3
  MaxVersies = 3
  MaxMutaties = 2
INVARIANTS
  TypeOK
  SchermKlopt
  
  SchrijfMetRol
  PaginaKlopt
ACTION_CONSTRAINTS
  TweedeIngreep
  PaginaVerlaten
PROPERTY FoutIsTeVroeg
