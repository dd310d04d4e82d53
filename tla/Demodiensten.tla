---------------------------- MODULE Demodiensten ----------------------------
(***************************************************************************)
(* The four services as the two demo pages meet them: what each request of *)
(* the demo route changes, how it is answered, which lists show it, and    *)
(* which events still have to reach another service.  The services         *)
(* themselves are modelled in detail elsewhere (BeheerEisen, Beheer,       *)
(* Aanbesteding, Onderhoudscontract, Onderhoud, Monitoring); here they are *)
(* operators on one record, so that the pages can be checked against them. *)
(***************************************************************************)
EXTENDS Naturals, FiniteSets, Sequences

CONSTANT Streng   \* TRUE: Monitoring, Onderhoud and Contract validate "streng"

ASSUME StrengAanname == Streng \in BOOLEAN

Geen == 0   \* no id

\* The event `soort` about object `id` on its way to the service `naar`.
Bericht(soort, naar, id) == [soort |-> soort, naar |-> naar, id |-> id]

\* Incidenten, trajecten and aanbestedingen are numbered as they are made; a contract has
\* the number of its aanbesteding.
LegeDiensten ==
  [kunstwerk |-> FALSE, eisen |-> {}, kent |-> {}, sessie |-> FALSE, incidenten |-> <<>>,
   trajecten |-> <<>>, aanbestedingen |-> <<>>, geldend |-> FALSE, kpi |-> FALSE,
   verklaringen |-> {}, rapport |-> FALSE, beoordelingen |-> {}, bus |-> {}]

Antwoord(d, klasse, id) == [na |-> d, klasse |-> klasse, id |-> id]
Weigering(d) == Antwoord(d, "4xx", Geen)
Gelukt(d) == Antwoord(d, "ok", Geen)

-----------------------------------------------------------------------------
(* Beheer *)

\* Defective variant: the commit is not followed by the publication of its events.
RegistreerZonderEvent(d) ==
  IF d.kunstwerk THEN Antwoord(d, "conflict", Geen) ELSE Gelukt([d EXCEPT !.kunstwerk = TRUE])

Registreer(d) ==
  IF d.kunstwerk THEN Antwoord(d, "conflict", Geen)
  ELSE Gelukt([d EXCEPT !.kunstwerk = TRUE,
                        !.bus = @ \cup {Bericht("kunstwerk", "monitoring", Geen),
                                        Bericht("kunstwerk", "contract", Geen)}])

StelEisenVast(d, soort) ==
  IF d.kunstwerk THEN Gelukt([d EXCEPT !.eisen = @ \cup {soort}]) ELSE Weigering(d)

-----------------------------------------------------------------------------
(* Monitoring *)

Bewaakt(d) == Streng => "monitoring" \in d.kent

StartSessie(d) ==
  IF Bewaakt(d) /\ ~d.sessie THEN Gelukt([d EXCEPT !.sessie = TRUE]) ELSE Weigering(d)

\* A meting above the norm makes an incident, which is told to Onderhoud.
Meet(d, hoog) ==
  IF ~(Bewaakt(d) /\ d.sessie) THEN Weigering(d)
  ELSE IF ~hoog THEN Gelukt(d)
  ELSE LET nieuw == Len(d.incidenten) + 1
       IN  Gelukt([d EXCEPT !.incidenten = Append(@, "Open"),
                            !.bus = @ \cup {Bericht("incident", "onderhoud", nieuw)}])

LosOp(d, i) ==
  IF i \in DOMAIN d.incidenten /\ d.incidenten[i] = "Open"
  THEN Gelukt([d EXCEPT !.incidenten[i] = "Opgelost"])
  ELSE Weigering(d)

StelRapportOp(d) ==
  Gelukt([d EXCEPT !.rapport = TRUE,
                   !.bus = @ \cup {Bericht("rapport", "beheer", Geen),
                                   Bericht("rapport", "contract", Geen)}])

-----------------------------------------------------------------------------
(* Contract *)

\* PubliceerAanbesteding does not look at the kunstwerk.
Publiceer(d, demo) ==
  Antwoord([d EXCEPT !.aanbestedingen = Append(@, [demo |-> demo, inschrijving |-> FALSE, gegund |-> FALSE])],
           "ok", Len(d.aanbestedingen) + 1)

SchrijfIn(d, a) ==
  IF a \in DOMAIN d.aanbestedingen /\ ~d.aanbestedingen[a].gegund
  THEN Gelukt([d EXCEPT !.aanbestedingen[a].inschrijving = TRUE])
  ELSE Weigering(d)

Bekend(d, a) == d.aanbestedingen[a].demo /\ "contract" \in d.kent

Gunbaar(d, a) ==
  /\ a \in DOMAIN d.aanbestedingen
  /\ Streng => Bekend(d, a)
  /\ ~d.aanbestedingen[a].gegund
  /\ d.aanbestedingen[a].inschrijving

Gun(d, a) ==
  IF ~Gunbaar(d, a) THEN Weigering(d)
  ELSE Antwoord([d EXCEPT !.aanbestedingen[a].gegund = TRUE,
                          !.bus = IF d.aanbestedingen[a].demo
                                  THEN @ \cup {Bericht("gegund", "onderhoud", a)} ELSE @],
                "ok", a)

\* StelPrestatieverklaringOp takes the score of the latest KPI of the kunstwerk.
VerklaarPrestatie(d, c) ==
  IF c \in DOMAIN d.aanbestedingen /\ d.aanbestedingen[c].gegund /\ d.kpi
  THEN Gelukt([d EXCEPT !.verklaringen = @ \cup {c}])
  ELSE Weigering(d)

-----------------------------------------------------------------------------
(* Onderhoud *)

Heeft(d, t, status) == t \in DOMAIN d.trajecten /\ d.trajecten[t].status = status

Start(d, t) ==
  IF Heeft(d, t, "Gepland") /\ (Streng => d.geldend)
  THEN Gelukt([d EXCEPT !.trajecten[t].status = "Gestart"])
  ELSE Weigering(d)

\* The demo's inspecties are always Goedgekeurd.
Inspecteer(d, t) ==
  IF Heeft(d, t, "Gestart") THEN Gelukt([d EXCEPT !.trajecten[t].inspectie = TRUE]) ELSE Weigering(d)

RondAf(d, t) ==
  IF Heeft(d, t, "Gestart") /\ d.trajecten[t].inspectie
  THEN Gelukt([d EXCEPT !.trajecten[t].status = "Afgerond",
                        !.bus = @ \cup {Bericht("afgerond", "beheer", t)}])
  ELSE Weigering(d)

-----------------------------------------------------------------------------
(* What a request does, what a list shows, and what a delivered event does *)

Uitvoering(d, wat, id) ==
  CASE wat = "registreer"      -> Registreer(d)
    [] wat = "onderhoudseisen" -> StelEisenVast(d, "onderhoud")
    [] wat = "ontwerpeisen"    -> StelEisenVast(d, "ontwerp")
    [] wat = "sessie"          -> StartSessie(d)
    [] wat = "metingLaag"      -> Meet(d, FALSE)
    [] wat = "metingHoog"      -> Meet(d, TRUE)
    [] wat = "oplossing"       -> LosOp(d, id)
    [] wat = "rapport"         -> StelRapportOp(d)
    [] wat = "aanbesteding"    -> Publiceer(d, TRUE)
    [] wat = "onbekende"       -> Publiceer(d, FALSE)
    [] wat = "inschrijving"    -> SchrijfIn(d, id)
    [] wat = "gunning"         -> Gun(d, id)
    [] wat = "verklaring"      -> VerklaarPrestatie(d, id)
    [] wat = "start"           -> Start(d, id)
    [] wat = "inspectie"       -> Inspecteer(d, id)
    [] wat = "afronden"        -> RondAf(d, id)

\* Beheer and Onderhoud publish after their commit, without an outbox.
ZonderOutbox == {"registreer", "onderhoudseisen", "ontwerpeisen", "start", "afronden"}

\* The rows of a list that the pages look for.  No list has an ORDER BY the pages could rely
\* on, so "the first match" and "the last row" are any of them.
Rijen(d, lijst) ==
  CASE lijst = "kunstwerken"        -> {r \in {1} : d.kunstwerk}
    [] lijst = "eisen"              -> {r \in {1} : d.eisen = {"onderhoud", "ontwerp"}}
    [] lijst = "sessies"            -> {r \in {1} : d.sessie}
    [] lijst = "incidenten"         -> DOMAIN d.incidenten
    [] lijst = "trajecten"          -> DOMAIN d.trajecten
    [] lijst = "netwerkrapportages" -> {r \in {1} : "rapport" \in d.beoordelingen}
    [] lijst = "onderhoudsrapporten" -> {r \in {1} : "afgerond" \in d.beoordelingen}

\* Beheer refuses a report about a kunstwerk it does not know.
Bezorgd(d, b) ==
  LET r == [d EXCEPT !.bus = @ \ {b}]
  IN  CASE b.soort = "kunstwerk" -> [r EXCEPT !.kent = @ \cup {b.naar}]
        [] b.soort = "incident"  ->
             [r EXCEPT !.trajecten = Append(@, [incident |-> b.id, status |-> "Gepland", inspectie |-> FALSE])]
        [] b.soort = "gegund"    -> [r EXCEPT !.geldend = TRUE]
        [] b.soort = "rapport" /\ b.naar = "contract" -> [r EXCEPT !.kpi = TRUE]
        [] b.naar = "beheer"     -> IF d.kunstwerk THEN [r EXCEPT !.beoordelingen = @ \cup {b.soort}] ELSE r
=============================================================================
