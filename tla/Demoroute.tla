----------------------------- MODULE Demoroute ------------------------------
(***************************************************************************)
(* The demo pages of src/frontends/beheer ("regiekamer") and               *)
(* src/frontends/sven ("sven"): eleven steps, each a run of requests to    *)
(* the services, whose events are delivered meanwhile.  A click starts a   *)
(* step; several can run at a time.  The page is a loop that sends a       *)
(* request, is answered by a service (or by a failure) and goes on, polls  *)
(* again, gives up or is done.                                             *)
(***************************************************************************)
EXTENDS Demodiensten

CONSTANTS
  MaxPogingen,    \* how often a step asks again before its time is up
  MaxLopen,       \* steps that run at a time
  MaxVerstoringen \* failed requests and clicks off the route (again, out of turn, Reset,
                  \* reload) together

ASSUME BegrensdAanname == /\ MaxPogingen \in Nat \ {0}
                          /\ MaxLopen \in Nat \ {0}
                          /\ MaxVerstoringen \in Nat

VARIABLES
  pagina,      \* the page that is open
  dienst,      \* the services (Demodiensten)
  status,      \* status[n]: what the button of step n shows
  refs,        \* refs[g]: the ids remembered between steps; Sven makes a new g on Reset
  lopen,       \* the steps that run
  alles,       \* Sven's "Start gouden route": the step it is at, or Geen
  pijl,        \* Regiekamer: the step whose flow is lit on the context-map, or Geen
  storingen,   \* bounded: requests that failed
  ingrepen,    \* bounded: clicks off the route
  geweigerd    \* history: Contract refused the gunning for the unknown kunstwerk

routeVars == <<pagina, dienst, status, refs, lopen, alles, pijl, storingen, ingrepen, geweigerd>>

Stappen == 1..11
Paginas == {"regiekamer", "sven"}
Klassen == {"ok", "conflict", "4xx", "5xx", "netwerk"}

-----------------------------------------------------------------------------
(* The steps: per request what it asks, how its failure is taken ("fout":  *)
(* the step fails, "bestaat": 409 is fine, "herhaal": ask again, "wacht":  *)
(* poll until the list shows a row, "lees": take what the list shows,      *)
(* "weiger": a 4xx is what the step is after) and the ref its id goes to.  *)

Vraag(wat, bij) == [wat |-> wat, bij |-> bij, ref |-> "geen"]
Leest(lijst, bij, ref) == [wat |-> lijst, bij |-> bij, ref |-> ref]
Eis(wat) == Vraag(wat, "fout")
Aanbesteed == [Eis("aanbesteding") EXCEPT !.ref = "eigen"]
Gunt == [Eis("gunning") EXCEPT !.ref = "contract"]
Onbekende == [Vraag("onbekende", "weiger") EXCEPT !.ref = "eigen"]

RegiekamerStap1 == <<Vraag("registreer", "bestaat"), Leest("kunstwerken", "wacht", "geen")>>
RegiekamerStap2 == <<Eis("onderhoudseisen"), Eis("ontwerpeisen"), Leest("eisen", "wacht", "geen")>>
RegiekamerStap3 == <<Vraag("sessie", "herhaal"), Leest("sessies", "wacht", "geen")>>
RegiekamerStap4 == <<Eis("metingLaag"), Eis("metingHoog"), Leest("incidenten", "wacht", "incident")>>
RegiekamerStap5 == <<Leest("trajecten", "wacht", "onderhoud")>>
RegiekamerStap6 == <<Aanbesteed, Eis("inschrijving"), Eis("inschrijving"), Gunt>>
RegiekamerStap7 == <<Eis("rapport"), Leest("netwerkrapportages", "wacht", "geen")>>
RegiekamerStap8 == <<Eis("verklaring")>>
RegiekamerStap9 ==
  <<Eis("start"), Eis("inspectie"), Eis("afronden"), Leest("onderhoudsrapporten", "wacht", "geen")>>
RegiekamerStap10 == <<Eis("oplossing")>>
RegiekamerStap11 == <<Onbekende, Vraag("inschrijving", "weiger"), Vraag("gunning", "weiger")>>

SvenStap1 == <<Eis("registreer")>>
SvenStap2 == <<Eis("onderhoudseisen"), Eis("ontwerpeisen")>>
SvenStap3 == <<Vraag("sessie", "herhaal")>>
SvenStap4 == <<Eis("metingLaag"), Eis("metingHoog"), Leest("incidenten", "lees", "incident")>>
SvenStap5 == <<Leest("trajecten", "wacht", "onderhoud")>>
SvenStap6 == <<Aanbesteed, Eis("inschrijving"), Eis("inschrijving"), Gunt>>
SvenStap7 == <<Eis("rapport"), Leest("netwerkrapportages", "lees", "geen")>>
SvenStap8 == <<Eis("verklaring")>>
SvenStap9 == <<Eis("start"), Eis("inspectie"), Eis("afronden")>>
SvenStap10 == <<Eis("oplossing")>>
SvenStap11 == <<Onbekende, Vraag("gunning", "weiger")>>

Regiekamer == <<RegiekamerStap1, RegiekamerStap2, RegiekamerStap3, RegiekamerStap4, RegiekamerStap5,
                RegiekamerStap6, RegiekamerStap7, RegiekamerStap8, RegiekamerStap9, RegiekamerStap10,
                RegiekamerStap11>>
Sven == <<SvenStap1, SvenStap2, SvenStap3, SvenStap4, SvenStap5, SvenStap6, SvenStap7, SvenStap8,
          SvenStap9, SvenStap10, SvenStap11>>

Draaiboek == IF pagina = "regiekamer" THEN Regiekamer ELSE Sven

\* The steps of the Regiekamer that light a flow.
Pijlen == {n \in {1, 2, 4, 5, 6, 7, 9} : pagina = "regiekamer"}

LegeRefs == [incident |-> Geen, onderhoud |-> Geen, contract |-> Geen]

\* The ref a step needs before it sends anything.
Nodig(n) == CASE n = 8 -> "contract" [] n = 9 -> "onderhoud" [] n = 10 -> "incident" [] OTHER -> "geen"
Heden == Len(refs)

\* What a ref-less request is about; the others go to the id at hand when the step began,
\* or to the aanbesteding the step made itself.
Lege(n, g) ==
  LET ref == Nodig(n)
      id  == IF ref = "geen" THEN Geen ELSE refs[g][ref]
  IN  [stap |-> n, gen |-> g, pc |-> 1, pogingen |-> 0, eigen |-> id, id |-> Geen,
       fase |-> IF ref # "geen" /\ id = Geen THEN "terug" ELSE "heen",
       klasse |-> IF ref # "geen" /\ id = Geen THEN "geenId" ELSE "ok"]

\* Reset and "alles" make a new object for the ids; a step that runs holds on to the old one.
VerseRefs == IF lopen = {} THEN <<LegeRefs>> ELSE Append(refs, LegeRefs)

AllesIdle == [n \in Stappen |-> "idle"]

RouteTypeOK ==
  /\ pagina \in Paginas
  /\ status \in [Stappen -> {"idle", "running", "done", "error"}]
  /\ \A g \in DOMAIN refs : refs[g] \in [{"incident", "onderhoud", "contract"} -> Nat]
  /\ \A l \in lopen : /\ l.stap \in Stappen /\ l.gen \in DOMAIN refs
                      /\ l.pc \in DOMAIN Draaiboek[l.stap] /\ l.pogingen \in 0..MaxPogingen
                      /\ l.fase \in {"heen", "terug"} /\ l.klasse \in Klassen \cup {"geenId"}
  /\ alles \in Stappen \cup {Geen} /\ pijl \in Stappen \cup {Geen}
  /\ storingen \in Nat /\ ingrepen \in 0..(MaxVerstoringen - storingen)
  /\ geweigerd \in BOOLEAN

RouteInit ==
  /\ pagina \in Paginas
  /\ dienst = LegeDiensten
  /\ status = AllesIdle
  /\ refs = <<LegeRefs>>
  /\ lopen = {}
  /\ alles = Geen /\ pijl = Geen
  /\ storingen = 0 /\ ingrepen = 0
  /\ geweigerd = FALSE

-----------------------------------------------------------------------------
(* Clicks *)

\* On the route: the next step, nothing running, nothing done before its turn.
OpDeRoute(n) == lopen = {} /\ status[n] = "idle" /\ (n > 1 => status[n - 1] = "done")

Ruimte == storingen + ingrepen < MaxVerstoringen
Ingreep == Ruimte /\ ingrepen' = ingrepen + 1

\* The Regiekamer enables a button when the step before it is done; Sven's buttons are
\* enabled unless "alles" runs.  A step that runs cannot be clicked.
Klikbaar(n) ==
  /\ status[n] # "running"
  /\ IF pagina = "regiekamer" THEN n > 1 => status[n - 1] = "done" ELSE alles = Geen

Licht(n) == IF n \in Pijlen THEN n ELSE Geen

Klik(n) ==
  /\ Klikbaar(n) /\ Cardinality(lopen) < MaxLopen
  /\ IF OpDeRoute(n) THEN UNCHANGED ingrepen ELSE Ingreep
  /\ lopen' = lopen \cup {Lege(n, Heden)}
  /\ status' = [status EXCEPT ![n] = "running"]
  /\ pijl' = Licht(n)
  /\ UNCHANGED <<pagina, dienst, refs, alles, storingen, geweigerd>>

\* "Start gouden route": fresh refs, every status cleared, then step after step.
StartAlles ==
  /\ pagina = "sven" /\ alles = Geen /\ Cardinality(lopen) < MaxLopen
  /\ IF OpDeRoute(1) /\ status = AllesIdle THEN UNCHANGED ingrepen ELSE Ingreep
  /\ refs' = VerseRefs
  /\ lopen' = lopen \cup {[Lege(1, Heden) EXCEPT !.gen = Len(refs')]}
  /\ status' = [AllesIdle EXCEPT ![1] = "running"]
  /\ alles' = 1
  /\ UNCHANGED <<pagina, dienst, pijl, storingen, geweigerd>>

\* Reset is disabled while "alles" runs, but not while a step clicked by itself does: that
\* one goes on with the refs it began with.
Reset ==
  /\ pagina = "sven" /\ alles = Geen /\ status # AllesIdle
  /\ Ingreep
  /\ refs' = VerseRefs
  /\ status' = AllesIdle
  /\ UNCHANGED <<pagina, dienst, lopen, alles, pijl, storingen, geweigerd>>

\* The page is reloaded: what it remembered and ran is gone, the services keep theirs.
Herlaad ==
  /\ status # AllesIdle
  /\ Ingreep
  /\ refs' = <<LegeRefs>> /\ status' = AllesIdle /\ lopen' = {}
  /\ alles' = Geen /\ pijl' = Geen
  /\ UNCHANGED <<pagina, dienst, storingen, geweigerd>>

-----------------------------------------------------------------------------
(* The services answer, or a request fails on the way *)

Instructie(l) == Draaiboek[l.stap][l.pc]
Lezen(l) == Instructie(l).bij \in {"wacht", "lees"}

Beantwoord(l, klasse, id) ==
  lopen' = (lopen \ {l}) \cup {[l EXCEPT !.fase = "terug", !.klasse = klasse, !.id = id]}

buitenDienst == <<pagina, status, refs, alles, pijl, ingrepen>>

\* Contract is asked for the gunning of an aanbesteding for a kunstwerk nobody registered.
GunningOnbekende(l) == Instructie(l).wat = "gunning" /\ l.stap = 11

Voer(l) ==
  /\ l.fase = "heen"
  /\ IF Lezen(l)
     THEN LET rijen == Rijen(dienst, Instructie(l).wat)
          IN  /\ \E r \in IF rijen = {} THEN {Geen} ELSE rijen : Beantwoord(l, "ok", r)
              /\ UNCHANGED <<dienst, geweigerd>>
     ELSE LET a == Uitvoering(dienst, Instructie(l).wat, l.eigen)
          IN  /\ Beantwoord(l, a.klasse, a.id)
              /\ dienst' = a.na
              /\ geweigerd' = (geweigerd \/ (GunningOnbekende(l) /\ a.klasse # "ok"))
  /\ UNCHANGED <<buitenDienst, storingen>>

\* The request does not arrive, its answer does not, or the service cannot publish after
\* its commit.
Verlies(l) ==
  LET wat == Instructie(l).wat
      a   == Uitvoering(dienst, wat, l.eigen)
  IN  /\ l.fase = "heen"
      /\ Ruimte /\ storingen' = storingen + 1
      /\ \/ /\ \E klasse \in {"5xx", "netwerk"} : Beantwoord(l, klasse, Geen)
            /\ UNCHANGED dienst
         \/ /\ ~Lezen(l) /\ Beantwoord(l, "netwerk", Geen)
            /\ dienst' = a.na
         \/ /\ ~Lezen(l) /\ wat \in ZonderOutbox /\ a.klasse = "ok" /\ Beantwoord(l, "5xx", Geen)
            /\ dienst' = [a.na EXCEPT !.bus = dienst.bus]
      /\ UNCHANGED <<buitenDienst, geweigerd>>

Bezorg(b) ==
  /\ b \in dienst.bus
  /\ dienst' = Bezorgd(dienst, b)
  /\ UNCHANGED <<pagina, status, refs, lopen, alles, pijl, storingen, ingrepen, geweigerd>>

-----------------------------------------------------------------------------
(* The page takes an answer *)

Gezien(l) == l.klasse = "ok" /\ (Instructie(l).bij = "wacht" => l.id # Geen)

\* Defective variant: a refused start of the sessie is taken for one that runs already.
VerderNaWeigering(l) ==
  Gezien(l) \/ (Instructie(l).bij \in {"bestaat", "herhaal"} /\ l.klasse \in {"conflict", "4xx"})

\* The answer lets the step go on.
Verder(l) == Gezien(l) \/ (Instructie(l).bij = "bestaat" /\ l.klasse = "conflict")

\* retryJson asks again after any error, waitForRows after any error or without the row.
\* Sven's step 3 gives up on a 5xx, and its step 5 on any failed read.
Opnieuw(l) ==
  /\ ~Verder(l)
  /\ \/ Instructie(l).bij = "herhaal" /\ (pagina = "sven" => l.klasse # "5xx")
     \/ Instructie(l).bij = "wacht" /\ (pagina = "sven" => l.klasse = "ok")

\* Any 4xx, whatever it is about, is the refusal that step 11 shows.
Geweigerd(l) == Instructie(l).bij = "weiger" /\ l.klasse \in {"conflict", "4xx"}

Laatste(l) == l.pc = Len(Draaiboek[l.stap])

\* Step 11 throws when its last request was granted.
Klaar(l) ==
  \/ Geweigerd(l)
  \/ Verder(l) /\ Laatste(l) /\ Instructie(l).bij # "weiger"

Onthoud(l) ==
  LET ref == Instructie(l).ref
  IN  IF Gezien(l) /\ ref \in DOMAIN LegeRefs THEN [refs EXCEPT ![l.gen][ref] = l.id] ELSE refs

\* The step is over.  With "alles", the page goes on with the next one when this one was done.
Einde(l, uitkomst) ==
  LET n        == l.stap
      vanAlles == alles = n /\ l.gen = Heden
      door     == vanAlles /\ uitkomst = "done" /\ n < 11
      einde    == [status EXCEPT ![n] = uitkomst]
      volgende == [Lege(IF door THEN n + 1 ELSE n, l.gen) EXCEPT !.gen = l.gen]
  IN  /\ status' = IF door THEN [einde EXCEPT ![n + 1] = "running"] ELSE einde
      /\ lopen' = (lopen \ {l}) \cup (IF door THEN {volgende} ELSE {})
      /\ alles' = IF door THEN n + 1 ELSE IF vanAlles THEN Geen ELSE alles
      /\ pijl' = Geen

buitenBlad == <<pagina, dienst, storingen, ingrepen, geweigerd>>

VolgendeVraag(l) ==
  /\ l.fase = "terug" /\ Verder(l) /\ ~Laatste(l)
  /\ refs' = Onthoud(l)
  /\ lopen' = (lopen \ {l}) \cup
       {[l EXCEPT !.fase = "heen", !.klasse = "ok", !.pc = @ + 1, !.pogingen = 0, !.id = Geen,
                  !.eigen = IF Instructie(l).ref = "eigen" THEN l.id ELSE @]}
  /\ UNCHANGED <<buitenBlad, status, alles, pijl>>

\* Defective variant: a step asks again without looking at the clock.
NogEensZonderEinde(l) ==
  /\ l.fase = "terug" /\ Opnieuw(l)
  /\ lopen' = (lopen \ {l}) \cup
       {[l EXCEPT !.fase = "heen", !.klasse = "ok", !.pogingen = @ + 1, !.id = Geen]}
  /\ UNCHANGED <<buitenBlad, status, refs, alles, pijl>>

NogEens(l) ==
  /\ l.fase = "terug" /\ Opnieuw(l) /\ l.pogingen < MaxPogingen
  /\ lopen' = (lopen \ {l}) \cup
       {[l EXCEPT !.fase = "heen", !.klasse = "ok", !.pogingen = @ + 1, !.id = Geen]}
  /\ UNCHANGED <<buitenBlad, status, refs, alles, pijl>>

StapKlaar(l) ==
  /\ l.fase = "terug" /\ Klaar(l)
  /\ refs' = Onthoud(l)
  /\ Einde(l, "done")
  /\ UNCHANGED buitenBlad

\* An error nobody takes, or the time for asking again is up.
StapMislukt(l) ==
  /\ l.fase = "terug" /\ ~Klaar(l)
  /\ Verder(l) => Laatste(l)
  /\ Einde(l, "error")
  /\ UNCHANGED <<buitenBlad, refs>>

RouteNext ==
  \/ \E n \in Stappen : Klik(n)
  \/ StartAlles \/ Reset \/ Herlaad
  \/ \E l \in lopen : Voer(l) \/ Verlies(l) \/ VolgendeVraag(l) \/ NogEens(l) \/ StapKlaar(l) \/ StapMislukt(l)
  \/ \E b \in dienst.bus : Bezorg(b)

-----------------------------------------------------------------------------
(* Properties *)

Rustig == storingen = 0 /\ ingrepen = 0
Afgerond(t) == t \in DOMAIN dienst.trajecten /\ dienst.trajecten[t].status = "Afgerond"

\* What a step that shows "done" says of the services.
Waar(n) ==
  CASE n = 1  -> dienst.kunstwerk
    [] n = 2  -> dienst.eisen = {"onderhoud", "ontwerp"}
    [] n = 3  -> dienst.sessie
    [] n = 4  -> dienst.incidenten # <<>>
    [] n = 5  -> dienst.trajecten # <<>>
    [] n = 6  -> \E a \in DOMAIN dienst.aanbestedingen : dienst.aanbestedingen[a].demo /\ dienst.aanbestedingen[a].gegund
    [] n = 7  -> dienst.rapport /\ (pagina = "regiekamer" => "rapport" \in dienst.beoordelingen)
    [] n = 8  -> dienst.verklaringen # {}
    [] n = 9  -> /\ \E t \in DOMAIN dienst.trajecten : Afgerond(t)
                 /\ pagina = "regiekamer" => "afgerond" \in dienst.beoordelingen
    [] n = 10 -> \E i \in DOMAIN dienst.incidenten : dienst.incidenten[i] = "Opgelost"
    [] n = 11 -> geweigerd

\* A demo page tells the truth: through lost answers, retries, repeated steps, Reset and
\* reload, a step shows "done" only when the services hold what it was to bring about; the
\* ids the page remembers are of objects that exist; the Regiekamer never starts a step
\* without its id (its findContractId, findOnderhoudId and findIncidentId are never needed);
\* on an undisturbed route steps 8, 9 and 10 were about the contract, the traject and the
\* incident of this route, and the flow that is lit is that of the step that runs.
SchermKlopt ==
  /\ \A n \in Stappen : status[n] = "done" => Waar(n)
  /\ \A g \in DOMAIN refs : /\ refs[g].incident \in DOMAIN dienst.incidenten \cup {Geen}
                            /\ refs[g].onderhoud \in DOMAIN dienst.trajecten \cup {Geen}
                            /\ refs[g].contract # Geen => dienst.aanbestedingen[refs[g].contract].gegund
  /\ pagina = "regiekamer" => \A l \in lopen : l.klasse # "geenId"
  /\ Rustig => /\ status[8] = "done" => refs[Heden].contract \in dienst.verklaringen
               /\ status[9] = "done" => Afgerond(refs[Heden].onderhoud)
               /\ status[10] = "done" => dienst.incidenten[refs[Heden].incident] = "Opgelost"
               /\ status[5] = "done" =>
                    dienst.trajecten[refs[Heden].onderhoud].incident = refs[Heden].incident
  /\ Rustig /\ pagina = "regiekamer" => \A l \in lopen : pijl = Licht(l.stap)

\* The event that step n waits for, or needs without waiting.
VanEvent(n) ==
  CASE n = 3  -> {<<"kunstwerk", "monitoring">>}
    [] n = 5  -> {<<"incident", "onderhoud">>}
    [] n = 6  -> {<<"kunstwerk", "contract">>}
    [] n = 7  -> {<<"rapport", "beheer">>}
    [] n = 8  -> {<<"rapport", "contract">>}
    [] n = 9  -> {<<"gegund", "onderhoud">>, <<"afgerond", "beheer">>}
    [] OTHER  -> {}

Onderweg(n) == \E b \in dienst.bus : <<b.soort, b.naar>> \in VanEvent(n)

\* On an undisturbed route a step is never refused, nor finds nothing, for good: whenever it
\* is answered so, the event it depends on is still on its way to the service it asks (or
\* the answer is the refusal step 11 is after).  No order of deliveries, and no order in
\* which a service lists its rows, leaves the route stuck.
FoutIsTeVroeg ==
  [][Rustig' => \A l \in lopen' \ lopen :
       l.fase = "terug" => Verder(l) \/ Geweigerd(l) \/ Onderweg(l.stap)]_routeVars
=============================================================================
