------------------------------ MODULE Monitoring ------------------------------
(***************************************************************************)
(* The Monitoring service for one kunstwerk: sessies, metingen, incidenten  *)
(* and rapporten (Endpoints.cs), the outbox with its relay, and the         *)
(* consumer of beheer.kunstwerk.*.                                         *)
(*                                                                         *)
(* BewaarAsync of a sessie or an incident is a SELECT (FindAsync) and an    *)
(* UPDATE of the columns in which the copy differs from it (SetValues).     *)
(* Every SaveChanges is a transaction of its own.  Requests interleave at   *)
(* each call to the database; the consumer handles one message at a time.   *)
(***************************************************************************)
EXTENDS Consument

CONSTANTS
  Starts,           \* StartMonitoringSessie
  Pauzes,           \* PauzeerMonitoringSessie
  Hervattingen,     \* HervatMonitoringSessie
  Afrondingen,      \* RondMonitoringSessieAf
  Metingen,         \* RegistreerMeting
  Data,             \* Data[m]: the sensor and the value
  Behandelingen,    \* NeemIncidentInBehandeling
  Oplossingen,      \* LosIncidentOp
  Rapporten,        \* StelRapportOp
  Netwerk,          \* StelNetwerkrapportageOp
  Validatie,        \* KUNSTWERK_VALIDATIE: "soepel" or "streng"
  MaxVerkeer,       \* bound: requests and deliveries in one behaviour
  MaxFouten         \* bound: database errors and deaths of the process

Sessiewijzigingen   == Pauzes \cup Hervattingen \cup Afrondingen
Incidentwijzigingen == Behandelingen \cup Oplossingen
Verzoeken ==
  Starts \cup Sessiewijzigingen \cup Metingen \cup Incidentwijzigingen \cup Rapporten \cup Netwerk

\* A sessie is named by the request that starts it, an incident by its meting.
Sessies    == Starts \cup {"sessie"}
Incidenten == Metingen \cup {"incident"}
Aggregaten == Sessies \cup Incidenten

\* A request is of one kind, and no request is one of the earlier aggregates.
ASSUME MonitoringAssumption ==
  /\ Starts \cap (Sessiewijzigingen \cup Metingen \cup Incidentwijzigingen \cup Rapporten \cup Netwerk) = {}
  /\ Pauzes \cap (Hervattingen \cup Afrondingen) = {} /\ Hervattingen \cap Afrondingen = {}
  /\ Sessiewijzigingen \cap (Metingen \cup Incidentwijzigingen \cup Rapporten \cup Netwerk) = {}
  /\ Metingen \cap (Incidentwijzigingen \cup Rapporten \cup Netwerk) = {}
  /\ Behandelingen \cap Oplossingen = {}
  /\ Incidentwijzigingen \cap (Rapporten \cup Netwerk) = {} /\ Rapporten \cap Netwerk = {}
  /\ {"sessie", "incident", Geen} \cap Verzoeken = {} /\ Geen \notin {"sessie", "incident"}
  /\ IsFiniteSet(Metingen)
  /\ \A b \in Berichten : Soort[b] \in {"geregistreerd", "buitengebruik"} /\ Kopieen[b] = 1
  /\ Verzoeken \cap Leveringen = {}
  /\ Validatie \in {"soepel", "streng"}
  /\ MaxVerkeer \in Nat /\ MaxFouten \in Nat

-----------------------------------------------------------------------------
(* AnalyseService *)

Drempel == [Trilling |-> 5, Belasting |-> 100, Temperatuur |-> 40, Slijtage |-> 60]

\* SensorData.Van.
Geldig(d) ==
  /\ d.waarde >= 0 \/ d.sensor = "Temperatuur"
  /\ d.waarde <= 100 \/ d.sensor # "Slijtage"

\* Analyseer: by the factor between value and drempel; Geen when it stays below.
Ernst(d) ==
  LET factor(n, m) == d.waarde * m >= Drempel[d.sensor] * n
  IN  CASE ~factor(1, 1) -> Geen
        [] factor(1, 1) /\ ~factor(5, 4) -> "Laag"
        [] factor(5, 4) /\ ~factor(3, 2) -> "Middel"
        [] factor(3, 2) /\ ~factor(2, 1) -> "Hoog"
        [] factor(2, 1) -> "Kritiek"

Orde == [Laag |-> 1, Middel |-> 2, Hoog |-> 3, Kritiek |-> 4]

ErnstVan(i) == IF i \in Metingen THEN Ernst(Data[i]) ELSE "Middel"

\* Defective variant: the highest ernst among the incidenten, resolved ones included.
ZwaarsteVanAlle(alle, open) ==
  IF alle = {} THEN Geen
  ELSE CHOOSE i \in alle : \A j \in alle : Orde[ErnstVan(j)] <= Orde[ErnstVan(i)]

\* The heaviest of the open incidenten.
Zwaarste(alle, open) ==
  IF open = {} THEN Geen
  ELSE CHOOSE i \in open : \A j \in open : Orde[ErnstVan(j)] <= Orde[ErnstVan(i)]

-----------------------------------------------------------------------------

VARIABLES
  verkeer,       \* the requests and deliveries that this behaviour sees
  inGebruik,     \* bekend_kunstwerk: "onbekend", "ja" or "nee"
  rij,           \* rij[a]: the row of a sessie or an incident
  meting,        \* meting[m]: the sessie of the row of m, or Geen
  rapport,       \* rapport[r]: what r found and says
  pc,            \* where request r is
  kopie,         \* the aggregate in the memory of r, and its id
  gelezen,       \* what FindAsync found
  aanvaard,      \* history: the requests whose aggregate or rapport was saved
  outbox,        \* the requests with events, in the order of AangemaaktOp
  uitgegeven,    \* those whose outbox rows are committed
  relay,         \* the batch of the relay: rows still to publish, and published ones
  gepubliceerd,  \* the requests whose events went to the exchange
  gemarkeerd,    \* those whose rows are marked Gepubliceerd
  vooraf,        \* history: the incidenten, and the open ones, when rapport r was begun
  fouten,        \* faults so far
  samenloop      \* history: did a request load what another was at work on?

verzoekVars == <<rij, meting, rapport, pc, kopie, gelezen, aanvaard, outbox, uitgegeven, vooraf, samenloop>>
relayVars   == <<relay, gepubliceerd, gemarkeerd>>
vars == <<leveringVars, inGebruik, verzoekVars, relayVars, verkeer, fouten>>

Afwezig       == [status |-> "Ontbreekt", einde |-> Geen, aantal |-> 0]
NieuweSessie  == [Afwezig EXCEPT !.status = "Actief"]
NieuwIncident == [Afwezig EXCEPT !.status = "Nieuw"]
GeenKopie     == [id |-> Geen, rij |-> Afwezig]
Rust          == [rest |-> {}, gedaan |-> {}, bezig |-> FALSE]

\* einde: BeeindigdOp of a sessie, OpgelostOp of an incident; aantal: AantalMetingen.
Rijen ==
  [status : {"Ontbreekt", "Actief", "Gepauzeerd", "Afgerond", "Nieuw", "InBehandeling", "Opgelost"},
   einde : Afrondingen \cup Oplossingen \cup {Geen},
   aantal : 0 .. Cardinality(Metingen)]

Leegrapport == [gebruik |-> TRUE, metingen |-> {}, incidenten |-> {}, open |-> {}, zwaarste |-> Geen]

Geladen == {"geladen", "gevonden", "bewaard", "toegevoegd", "gemeld", "gestempeld"}
Bezig   == Geladen \cup {"bewaakt", "gelezen", "opgesteld"}
Eind    == {"klaar", "afgewezen", "mislukt"}

Bestaat(a) == rij[a].status # "Ontbreekt"

TypeOK ==
  /\ LeveringTypeOK
  /\ verkeer \subseteq Verzoeken \cup Leveringen
  /\ inGebruik \in {"onbekend", "ja", "nee"}
  /\ rij \in [Aggregaten -> Rijen]
  /\ meting \in [Metingen -> Sessies \cup {Geen}]
  /\ rapport \in [Rapporten \cup Netwerk ->
       [gebruik : BOOLEAN, metingen : SUBSET Metingen, incidenten : SUBSET Incidenten,
        open : SUBSET Incidenten, zwaarste : Incidenten \cup {Geen}]]
  /\ pc \in [Verzoeken -> {"nieuw"} \cup Bezig \cup Eind]
  /\ kopie \in [Verzoeken -> [id : Aggregaten \cup {Geen}, rij : Rijen]]
  /\ gelezen \in [Verzoeken -> Rijen]
  /\ aanvaard \subseteq Verzoeken
  /\ outbox \in Seq(Verzoeken)
  /\ uitgegeven \subseteq {outbox[i] : i \in 1 .. Len(outbox)}
  /\ gepubliceerd \subseteq uitgegeven
  /\ gemarkeerd \subseteq gepubliceerd
  /\ relay \in [rest : SUBSET uitgegeven, gedaan : SUBSET gepubliceerd, bezig : BOOLEAN]
  /\ fouten \in 0 .. MaxFouten
  /\ samenloop \in BOOLEAN

\* The requests that read what the consumer writes; the steps of the others and those of
\* the consumer commute, and are not combined.  Nor are those that change a sessie with
\* those that read or change incidenten: only metingen touch both.
Lezers == Starts \cup Metingen \cup Netwerk

\* An earlier sessie, an earlier incident, and a kunstwerk that may not be known yet;
\* what no request of a behaviour looks at starts in one state.
Init ==
  /\ verkeer \in {V \in SUBSET (Verzoeken \cup Leveringen) :
       /\ Cardinality(V) <= MaxVerkeer
       /\ Cardinality({m \in V \cap Metingen : Ernst(Data[m]) # Geen}) <= 1
       /\ Cardinality(V \cap (Rapporten \cup Netwerk)) <= 1
       /\ V \cap Leveringen # {} => V \cap Verzoeken \subseteq Lezers
       /\ \/ V \cap (Starts \cup Sessiewijzigingen) = {}
          \/ V \cap (Incidentwijzigingen \cup Rapporten \cup Netwerk) = {}}
  /\ LeveringInit(verkeer)
  /\ inGebruik \in {"onbekend", "ja"}
  /\ verkeer \cap (Lezers \cup Leveringen) = {} => inGebruik = "ja"
  /\ \E sessie \in {Afwezig, NieuweSessie, [NieuweSessie EXCEPT !.status = "Gepauzeerd"]},
        incident \in {Afwezig, NieuwIncident} :
       /\ verkeer \cap (Starts \cup Sessiewijzigingen \cup Metingen) = {} => sessie = Afwezig
       /\ verkeer \cap (Incidentwijzigingen \cup Rapporten \cup Netwerk) = {} => incident = Afwezig
       /\ rij = [a \in Aggregaten |->
                IF a = "sessie" THEN sessie ELSE IF a = "incident" THEN incident ELSE Afwezig]
  /\ meting = [m \in Metingen |-> Geen]
  /\ rapport = [r \in Rapporten \cup Netwerk |-> Leegrapport]
  /\ pc = [r \in Verzoeken |-> "nieuw"]
  /\ kopie = [r \in Verzoeken |-> GeenKopie]
  /\ gelezen = [r \in Verzoeken |-> Afwezig]
  /\ aanvaard = {}
  /\ outbox = <<>>
  /\ uitgegeven = {}
  /\ relay = Rust
  /\ gepubliceerd = {}
  /\ gemarkeerd = {}
  /\ vooraf = [r \in Rapporten |-> {}]
  /\ fouten = 0
  /\ samenloop = FALSE

-----------------------------------------------------------------------------
(* Loading *)

NaarStap(r, plaats) == pc' = [pc EXCEPT ![r] = plaats]

WijsAf(r) == NaarStap(r, "afgewezen") /\ UNCHANGED <<kopie, samenloop>>

buitenKopie == <<rij, meting, rapport, gelezen, aanvaard, outbox, uitgegeven, vooraf>>

\* What a request is at work on: two starts on the question whether a sessie runs, a
\* meting on its sessie and on the incident it may bring about.
Doel(r, id) == IF r \in Starts THEN Starts ELSE {id} \cup ({r} \cap Metingen)

\* The copy of a, changed by the domain method, is in memory.
Laad(r, a, nieuw) ==
  /\ kopie' = [kopie EXCEPT ![r] = [id |-> a, rij |-> nieuw]]
  /\ samenloop' = (samenloop \/ \E q \in Verzoeken \ {r} :
       pc[q] \in Geladen /\ Doel(q, kopie[q].id) \cap Doel(r, a) # {})
  /\ NaarStap(r, "geladen")

\* Kunstwerkbewaking.BewaakAsync.
Bewaak(r) ==
  /\ r \in verkeer \cap (Starts \cup Metingen)
  /\ pc[r] = "nieuw"
  /\ NaarStap(r, IF inGebruik = "ja" \/ Validatie = "soepel" THEN "bewaakt" ELSE "afgewezen")
  /\ UNCHANGED <<kopie, samenloop, buitenKopie>>

Lopende == {s \in Sessies : rij[s].status \in {"Actief", "Gepauzeerd"}}

\* Defective variant: only an active sessie stands in the way.
StartSessieNaastPauze(r) ==
  /\ r \in Starts
  /\ pc[r] = "bewaakt"
  /\ IF \E s \in Sessies : rij[s].status = "Actief" THEN WijsAf(r) ELSE Laad(r, r, NieuweSessie)
  /\ UNCHANGED buitenKopie

\* StartMonitoringSessie: ZoekLopendeVoorKunstwerkAsync, "er loopt al een
\* monitoringsessie voor dit kunstwerk"; MonitoringSessie.Start.
StartSessie(r) ==
  /\ r \in Starts
  /\ pc[r] = "bewaakt"
  /\ IF Lopende # {} THEN WijsAf(r) ELSE Laad(r, r, NieuweSessie)
  /\ UNCHANGED buitenKopie

\* RegistreerMeting: a sessie that runs, in no particular order, SensorData.Van, and
\* MonitoringSessie.RegistreerMeting.
Meet(m) ==
  /\ m \in Metingen
  /\ pc[m] = "bewaakt"
  /\ \/ Lopende = {} /\ WijsAf(m)
     \/ \E s \in Lopende :
          IF Geldig(Data[m]) /\ rij[s].status = "Actief"
          THEN Laad(m, s, [rij[s] EXCEPT !.aantal = @ + 1])
          ELSE WijsAf(m)
  /\ UNCHANGED buitenKopie

\* Pauzeer, Hervat, RondAf, NeemInBehandeling and LosOp: from which status.
Toelaatbaar(r, status) ==
  CASE r \in Pauzes        -> status = "Actief"
    [] r \in Hervattingen  -> status = "Gepauzeerd"
    [] r \in Afrondingen   -> status # "Afgerond"
    [] r \in Behandelingen -> status = "Nieuw"
    [] r \in Oplossingen   -> status # "Opgelost"

Gewijzigd(r, oud) ==
  CASE r \in Pauzes        -> [oud EXCEPT !.status = "Gepauzeerd"]
    [] r \in Hervattingen  -> [oud EXCEPT !.status = "Actief"]
    [] r \in Afrondingen   -> [oud EXCEPT !.status = "Afgerond", !.einde = r]
    [] r \in Behandelingen -> [oud EXCEPT !.status = "InBehandeling"]
    [] r \in Oplossingen   -> [oud EXCEPT !.status = "Opgelost", !.einde = r]

\* ZoekAsync of the sessie or the incident that the request names, and the method.
Wijzig(r) ==
  /\ r \in verkeer \cap (Sessiewijzigingen \cup Incidentwijzigingen)
  /\ pc[r] = "nieuw"
  /\ \E a \in IF r \in Sessiewijzigingen THEN Sessies ELSE Incidenten :
       IF Bestaat(a) /\ Toelaatbaar(r, rij[a].status)
       THEN Laad(r, a, Gewijzigd(r, rij[a]))
       ELSE WijsAf(r)
  /\ UNCHANGED buitenKopie

-----------------------------------------------------------------------------
(* Saving *)

buitenRij == <<meting, rapport, outbox, uitgegeven, vooraf, samenloop>>

\* BewaarAsync: FindAsync.
Vind(r) ==
  /\ r \in Verzoeken
  /\ pc[r] = "geladen"
  /\ gelezen' = [gelezen EXCEPT ![r] = rij[kopie[r].id]]
  /\ NaarStap(r, "gevonden")
  /\ UNCHANGED <<rij, kopie, aanvaard, buitenRij>>

\* Add when nothing was found, else the columns in which the copy differs.
Samengevoegd(r) ==
  LET k == kopie[r].rij
      g == gelezen[r]
      stand == rij[kopie[r].id]
  IN  IF g.status = "Ontbreekt" THEN k
      ELSE [status |-> IF k.status # g.status THEN k.status ELSE stand.status,
            einde  |-> IF k.einde # g.einde THEN k.einde ELSE stand.einde,
            aantal |-> IF k.aantal # g.aantal THEN k.aantal ELSE stand.aantal]

NaBewaren(r) == IF r \in Metingen THEN "bewaard" ELSE IF r \in Oplossingen THEN "gemeld" ELSE "klaar"

\* Defective variant: the whole copy is attached, and the count of the copy is lost.
SchrijfZonderAantal(r) ==
  /\ r \in Verzoeken
  /\ pc[r] = "gevonden"
  /\ rij' = [rij EXCEPT ![kopie[r].id] = [Samengevoegd(r) EXCEPT !.aantal = rij[kopie[r].id].aantal]]
  /\ gelezen' = [gelezen EXCEPT ![r] = Afwezig]
  /\ kopie' = [kopie EXCEPT ![r].rij = Afwezig]
  /\ aanvaard' = aanvaard \cup {r}
  /\ NaarStap(r, NaBewaren(r))
  /\ UNCHANGED buitenRij

\* BewaarAsync: SaveChangesAsync.
Schrijf(r) ==
  /\ r \in Verzoeken
  /\ pc[r] = "gevonden"
  /\ rij' = [rij EXCEPT ![kopie[r].id] = Samengevoegd(r)]
  /\ gelezen' = [gelezen EXCEPT ![r] = Afwezig]
  /\ kopie' = [kopie EXCEPT ![r].rij = Afwezig]
  /\ aanvaard' = aanvaard \cup {r}
  /\ NaarStap(r, NaBewaren(r))
  /\ UNCHANGED buitenRij

\* RegistreerMeting: VoegToeAsync, and the analysis of the value.
VoegToe(m) ==
  /\ m \in Metingen
  /\ pc[m] = "bewaard"
  /\ meting' = [meting EXCEPT ![m] = kopie[m].id]
  /\ NaarStap(m, IF Ernst(Data[m]) = Geen THEN "gemeld" ELSE "toegevoegd")
  /\ UNCHANGED <<rij, rapport, kopie, gelezen, aanvaard, outbox, uitgegeven, vooraf, samenloop>>

\* Incident.MaakAan and BewaarAsync of the incident.
MaakIncident(m) ==
  /\ m \in Metingen
  /\ pc[m] = "toegevoegd"
  /\ rij' = [rij EXCEPT ![m] = NieuwIncident]
  /\ NaarStap(m, "gemeld")
  /\ UNCHANGED <<kopie, gelezen, aanvaard, buitenRij>>

-----------------------------------------------------------------------------
(* Rapporten *)

buitenRapport == <<rij, meting, kopie, gelezen, outbox, uitgegeven, samenloop>>

\* StelNetwerkrapportageOp: AlleInGebruikAsync; without the kunstwerk nothing is read.
LeesGebruik(n) ==
  /\ n \in verkeer \cap Netwerk
  /\ pc[n] = "nieuw"
  /\ rapport' = [rapport EXCEPT ![n].gebruik = inGebruik = "ja"]
  /\ NaarStap(n, IF inGebruik = "ja" THEN "bewaakt" ELSE "gemeld")
  /\ UNCHANGED <<aanvaard, vooraf, buitenRapport>>

\* ZoekInPeriodeAsync of the metingen; the period is the whole behaviour.
LeesMetingen(r) ==
  /\ \/ r \in verkeer \cap Rapporten /\ pc[r] = "nieuw"
     \/ r \in Netwerk /\ pc[r] = "bewaakt"
  /\ rapport' = [rapport EXCEPT ![r].metingen = {m \in Metingen : meting[m] # Geen}]
  /\ vooraf' = IF r \in Rapporten THEN [vooraf EXCEPT ![r] = {i \in Incidenten : Bestaat(i)}] ELSE vooraf
  /\ NaarStap(r, "gelezen")
  /\ UNCHANGED <<aanvaard, buitenRapport>>

\* ZoekInPeriodeAsync of the incidenten, and StelOp.
LeesIncidenten(r) ==
  LET alle == {i \in Incidenten : Bestaat(i)}
      open == {i \in alle : rij[i].status # "Opgelost"}
  IN  /\ r \in Rapporten \cup Netwerk
      /\ pc[r] = "gelezen"
      /\ rapport' = [rapport EXCEPT ![r] =
           [@ EXCEPT !.incidenten = alle,
                     !.open = IF r \in Rapporten THEN open ELSE {},
                     !.zwaarste = Zwaarste(alle, IF r \in Rapporten THEN open ELSE alle)]]
      /\ NaarStap(r, IF r \in Rapporten THEN "opgesteld" ELSE "gemeld")
      /\ UNCHANGED <<aanvaard, vooraf, buitenRapport>>

\* BewaarAsync of the rapport, write-once.
BewaarRapport(r) ==
  /\ r \in Rapporten
  /\ pc[r] = "opgesteld"
  /\ aanvaard' = aanvaard \cup {r}
  /\ NaarStap(r, "gemeld")
  /\ UNCHANGED <<rapport, vooraf, buitenRapport>>

-----------------------------------------------------------------------------
(* OutboxEventPublisher: the rows of one request get one AangemaaktOp, and are *)
(* committed together.                                                         *)

buitenOutbox == <<rij, meting, rapport, kopie, gelezen, aanvaard, vooraf, samenloop>>

Stempel(r) ==
  /\ pc[r] = "gemeld"
  /\ outbox' = Append(outbox, r)
  /\ NaarStap(r, "gestempeld")
  /\ UNCHANGED <<uitgegeven, buitenOutbox>>

Commit(r) ==
  /\ pc[r] = "gestempeld"
  /\ uitgegeven' = uitgegeven \cup {r}
  /\ NaarStap(r, "klaar")
  /\ UNCHANGED <<outbox, buitenOutbox>>

PubliceerAsync(r) == Stempel(r) \/ Commit(r)

\* The use cases, each with all its steps.
StartMonitoringSessie(r) == r \in Starts /\ (Bewaak(r) \/ StartSessie(r) \/ Vind(r) \/ Schrijf(r))

WijzigSessie(r) == r \in Sessiewijzigingen /\ (Wijzig(r) \/ Vind(r) \/ Schrijf(r))

RegistreerMeting(r) ==
  /\ r \in Metingen
  /\ \/ Bewaak(r) \/ Meet(r) \/ Vind(r) \/ Schrijf(r)
     \/ VoegToe(r) \/ MaakIncident(r) \/ PubliceerAsync(r)

NeemIncidentInBehandeling(r) == r \in Behandelingen /\ (Wijzig(r) \/ Vind(r) \/ Schrijf(r))

LosIncidentOp(r) == r \in Oplossingen /\ (Wijzig(r) \/ Vind(r) \/ Schrijf(r) \/ PubliceerAsync(r))

StelRapportOp(r) ==
  r \in Rapporten /\ (LeesMetingen(r) \/ LeesIncidenten(r) \/ BewaarRapport(r) \/ PubliceerAsync(r))

StelNetwerkrapportageOp(r) ==
  r \in Netwerk /\ (LeesGebruik(r) \/ LeesMetingen(r) \/ LeesIncidenten(r) \/ PubliceerAsync(r))

Verzoek(r) ==
  \/ StartMonitoringSessie(r) \/ WijzigSessie(r) \/ RegistreerMeting(r)
  \/ NeemIncidentInBehandeling(r) \/ LosIncidentOp(r)
  \/ StelRapportOp(r) \/ StelNetwerkrapportageOp(r)

-----------------------------------------------------------------------------
(* The relay: one call of VerwerkBatchAsync after the other *)

\* Defective variant: rows that are not committed yet are taken along.
OnverzondenMetOngecommit == {outbox[i] : i \in 1 .. Len(outbox)} \ gemarkeerd

Onverzonden == uitgegeven \ gemarkeerd

\* The rows of q were stamped before those of r.
Ouder(q, r) == \E i, j \in 1 .. Len(outbox) : i < j /\ outbox[i] = q /\ outbox[j] = r

\* PakOnverzondenAsync: the batch of 50 holds all there is.
PakOnverzonden ==
  /\ ~relay.bezig
  /\ Onverzonden # {}
  /\ relay' = [Rust EXCEPT !.rest = Onverzonden, !.bezig = TRUE]
  /\ UNCHANGED <<gepubliceerd, gemarkeerd>>

Publiceer(r) ==
  /\ gepubliceerd' = gepubliceerd \cup {r}
  /\ relay' = [relay EXCEPT !.rest = @ \ {r}, !.gedaan = @ \cup {r}]
  /\ UNCHANGED gemarkeerd

\* Defective variant: the newest rows first.
PubliceerNieuwste ==
  \E r \in relay.rest : (\A q \in relay.rest \ {r} : Ouder(q, r)) /\ Publiceer(r)

\* The rows of the batch, by AangemaaktOp.
PubliceerRegel ==
  \E r \in relay.rest : (\A q \in relay.rest \ {r} : Ouder(r, q)) /\ Publiceer(r)

\* MarkeerVerzondenAsync, when all rows of the batch were published.
MarkeerVerzonden ==
  /\ relay.bezig
  /\ relay.rest = {}
  /\ gemarkeerd' = gemarkeerd \cup relay.gedaan
  /\ relay' = Rust
  /\ UNCHANGED gepubliceerd

VerwerkBatch == PakOnverzonden \/ PubliceerRegel \/ MarkeerVerzonden

-----------------------------------------------------------------------------
(* The consumer *)

\* UpsertAsync: in use, whatever the row said.
UpsertKunstwerk(d) == PastToe(d, "geregistreerd", "toegepast") /\ inGebruik' = "ja"

\* MarkeerBuitenGebruikAsync: nothing without a row.
MarkeerBuitenGebruik(d) ==
  /\ PastToe(d, "buitengebruik", "toegepast")
  /\ inGebruik' = IF inGebruik = "onbekend" THEN "onbekend" ELSE "nee"

Behandel(d) ==
  \/ (Verwerk(d) \/ MarkeerVerwerkt(d) \/ Ack(d)) /\ UNCHANGED inGebruik
  \/ UpsertKunstwerk(d)
  \/ MarkeerBuitenGebruik(d)

-----------------------------------------------------------------------------
(* Faults *)

Fout ==
  /\ fouten < MaxFouten
  /\ fouten' = fouten + 1
  /\ UNCHANGED <<verkeer, inGebruik>>

buitenPc == <<rij, meting, rapport, kopie, gelezen, aanvaard, outbox, uitgegeven, vooraf, samenloop>>

\* A call to the database throws.
BreekVerzoek ==
  /\ Fout
  /\ \E r \in verkeer \cap Verzoeken : pc[r] \in Bezig /\ NaarStap(r, "mislukt")
  /\ UNCHANGED <<leveringVars, buitenPc, relayVars>>

WeigerBericht ==
  /\ Fout
  /\ \E d \in verkeer \cap Leveringen : Nack(d)
  /\ UNCHANGED <<verzoekVars, relayVars>>

\* The catch of ExecuteAsync: what was published of the batch is not marked.
BreekRelay ==
  /\ Fout
  /\ relay.bezig
  /\ relay' = Rust
  /\ UNCHANGED <<leveringVars, verzoekVars, gepubliceerd, gemarkeerd>>

\* The process dies and is started again.
Herstart ==
  /\ Fout
  /\ LeverOpnieuw
  /\ pc' = [r \in Verzoeken |-> IF pc[r] \in Bezig THEN "mislukt" ELSE pc[r]]
  /\ relay' = Rust
  /\ UNCHANGED <<buitenPc, gepubliceerd, gemarkeerd>>

Stap ==
  /\ \/ \E r \in verkeer \cap Verzoeken : Verzoek(r) /\ UNCHANGED <<leveringVars, inGebruik, relayVars>>
     \/ \E d \in verkeer \cap Leveringen : Behandel(d) /\ UNCHANGED <<verzoekVars, relayVars>>
     \/ VerwerkBatch /\ UNCHANGED <<leveringVars, inGebruik, verzoekVars>>
  /\ UNCHANGED <<verkeer, fouten>>

Next == Stap \/ BreekVerzoek \/ WeigerBericht \/ BreekRelay \/ Herstart

Spec == Init /\ [][Next]_vars

-----------------------------------------------------------------------------
(* Properties *)

\* As long as no two requests were at work on the same thing: at most one sessie runs; a
\* sessie that ended says when, and no other does; its AantalMetingen is the number of
\* metingen it accepted, each of which has its row unless it is under way or its request
\* broke off.
SessieKlopt ==
  ~samenloop =>
    /\ Cardinality(Lopende) <= 1
    /\ \A s \in Sessies :
         /\ rij[s].einde # Geen <=> rij[s].status = "Afgerond"
         /\ rij[s].aantal = Cardinality({m \in aanvaard \cap Metingen : kopie[m].id = s})
    /\ \A m \in Metingen :
         /\ meting[m] # Geen => m \in aanvaard
         /\ m \in aanvaard /\ meting[m] = Geen => pc[m] \in {"bewaard", "mislukt"}

\* monitoring.incident.opgelost does not reach the exchange ahead of its
\* monitoring.incident.aangemaakt, through repetition by the relay and crashes, unless
\* the incident was resolved while its meting was still being handled or had broken off;
\* and an incident that nobody was told of has its request or the relay still to come, or
\* its request broke off.
IncidentVerteld ==
  /\ \A o \in gepubliceerd \cap Oplossingen :
       kopie[o].id \in Metingen \ gepubliceerd => samenloop \/ pc[kopie[o].id] = "mislukt"
  /\ \A m \in Metingen : Bestaat(m) /\ m \notin gepubliceerd =>
       pc[m] \in {"gemeld", "gestempeld", "mislukt"} \/ m \in Onverzonden

\* A rapport that was saved lists every incident there was when it was begun, each with
\* its meting; its zwaarste is one of the open ones, and none of those is heavier; and
\* it is published only when it was saved.  A network rapport that leaves the kunstwerk
\* out lists nothing of it.
RapportKlopt ==
  /\ \A r \in aanvaard \cap Rapporten :
       LET z == rapport[r].zwaarste
       IN  /\ vooraf[r] \subseteq rapport[r].incidenten
           /\ vooraf[r] \cap Metingen \subseteq rapport[r].metingen
           /\ z = Geen <=> rapport[r].open = {}
           /\ z # Geen => z \in rapport[r].open
                /\ \A i \in rapport[r].open : Orde[ErnstVan(i)] <= Orde[ErnstVan(z)]
  /\ gepubliceerd \cap Rapporten \subseteq aanvaard
  /\ \A n \in Netwerk : ~rapport[n].gebruik => rapport[n] = [Leegrapport EXCEPT !.gebruik = FALSE]

\* A sessie that is Afgerond stays as it is, to its count, unless requests overlapped.
AfgerondeSessieBlijft ==
  [][~samenloop' => \A s \in Sessies : rij[s].status = "Afgerond" => rij'[s] = rij[s]]_vars
=============================================================================
