-------------------------------- MODULE Beheer --------------------------------
(***************************************************************************)
(* The Beheer service for one kunstwerk: its lifecycle (registreer, wijzig,  *)
(* stel buiten gebruik) and the assessment of the rapporten that Monitoring   *)
(* and Onderhoud publish.  BeheerEisen models how a set of eisen comes into   *)
(* force; here that is one step.                                             *)
(*                                                                         *)
(* A request is a transaction at READ COMMITTED: get reads the row, save      *)
(* reads it again (the session holds on to nothing that get mapped), and the  *)
(* commit updates the columns in which the copy differs from what save read.  *)
(* Each queue has a thread of its own that handles one message at a time in   *)
(* one transaction; a thread that loses its connection ends, and only the     *)
(* next start of the service makes a new one.                                *)
(***************************************************************************)
EXTENDS Integers, FiniteSets, Sequences, Functions

CONSTANTS
  Registraties,   \* RegistreerKunstwerk
  Wijzigingen,    \* WijzigKunstwerkBasisgegevens
  Opgave,         \* Opgave[r]: the naam and the status in the body of a request, or Geen
  Buitenstellingen, \* StelKunstwerkBuitenGebruik
  Pakketten,      \* StelOntwerpeisenVast, StelOnderhoudseisenVast
  EisenVan,       \* EisenVan[p]: the eisen of a pakket
  Rapporten,      \* monitoring.rapport.opgesteld, onderhoud.onderhoud.afgerond
  Soort,          \* Soort[x] of a pakket or rapport: "ontwerp" or "onderhoud"
  Bron,           \* Bron[e]: the entries of resultaten or resultaat
  Ongeldig,       \* the rapporten whose envelope is refused
  Kopieen,        \* Kopieen[e]: how often the producer's relay published e
  Geen,
  MaxVerkeer,     \* bound: requests, pakketten and deliveries in one behaviour
  MaxFouten       \* bound: errors, lost connections and deaths of the process

Soorten     == {"ontwerp", "onderhoud"}   \* one queue and one thread for each
Verzoeken   == Registraties \cup Wijzigingen \cup Buitenstellingen
Leveringen  == {d \in Rapporten \X (1 .. 2) : d[2] <= Kopieen[d[1]]}
Namen       == {Opgave[r].naam : r \in Registraties \cup Wijzigingen}
Standen     == {"Geregistreerd", "InGebruik", "BuitenGebruik", "Afgekeurd"}

\* Three kinds of requests; the status in a body is one the domain knows.
ASSUME VerzoekenAssumption ==
  /\ IsFiniteSet(Verzoeken)
  /\ Registraties \cap (Wijzigingen \cup Buitenstellingen) = {}
  /\ Wijzigingen \cap Buitenstellingen = {}
  /\ \A r \in Registraties \cup Wijzigingen : Opgave[r].status \in Standen \cup {Geen}
  /\ \A r \in Registraties : Geen \notin {Opgave[r].naam, Opgave[r].status}

\* A pakket has eisen, an entry of a rapport is a number, a sensor or text.
ASSUME RapportenAssumption ==
  /\ Geen \notin Pakketten
  /\ \A x \in Pakketten \cup Rapporten : Soort[x] \in Soorten
  /\ \A p \in Pakketten : EisenVan[p] # {}
  /\ \A e \in Rapporten : Kopieen[e] \in 1 .. 2
  /\ \A e \in Rapporten : Bron[e] \in Seq([soort : {"getal", "sensor", "tekst"},
                                           naam : STRING, waarde : Int])

ASSUME GrenzenAssumption == MaxVerkeer \in Nat /\ MaxFouten \in Nat

-----------------------------------------------------------------------------
(* The values of a rapport *)

KleineLetters(naam) ==
  CASE naam = "Trilling" -> "trilling" [] naam = "Slijtage" -> "slijtage" [] OTHER -> naam

Zet(waarden, naam, waarde) ==
  [n \in DOMAIN waarden \cup {naam} |-> IF n = naam THEN waarde ELSE waarden[n]]

\* A number under its key, the gemiddelde of a sensor under its name and that name in
\* small letters, and nothing for text.
Erbij(waarden, post) ==
  CASE post.soort = "getal"  -> Zet(waarden, post.naam, post.waarde)
    [] post.soort = "sensor" ->
         Zet(Zet(waarden, post.naam, post.waarde), KleineLetters(post.naam), post.waarde)
    [] post.soort = "tekst"  -> waarden

\* _extract_numeric_values: what comes later wins.
Rapportwaarden(bron) ==
  LET tot[n \in 0 .. Len(bron)] == IF n = 0 THEN <<>> ELSE Erbij(tot[n - 1], bron[n])
  IN  tot[Len(bron)]

\* _waarde_voor_eis: under the meetwaarde of the eis, else under its code.
Gemeten(eis, waarden) == {eis.meetwaarde, eis.code} \cap DOMAIN waarden # {}

WaardeVoorEis(eis, waarden) ==
  IF eis.meetwaarde \in DOMAIN waarden THEN waarden[eis.meetwaarde] ELSE waarden[eis.code]

Vergelijk(waarde, eis) ==
  CASE eis.operator = "<"  -> waarde < eis.grens
    [] eis.operator = "<=" -> waarde <= eis.grens
    [] eis.operator = ">"  -> waarde > eis.grens
    [] eis.operator = ">=" -> waarde >= eis.grens
    [] eis.operator = "="  -> waarde = eis.grens

\* Defective variant: an eis without a value does not count.
ValidatorZonderOntbrekende(p, waarden) ==
  LET gemeten == IF p = Geen THEN {} ELSE {eis \in EisenVan[p] : Gemeten(eis, waarden)}
  IN  IF gemeten = {} THEN "NietTeBeoordelen"
      ELSE IF \E eis \in gemeten : ~Vergelijk(WaardeVoorEis(eis, waarden), eis) THEN "VoldoetNiet"
      ELSE "Voldoet"

\* EisenValidator.beoordeel: one eis that is not met decides, then one without a value.
Validator(p, waarden) ==
  LET gemeten == IF p = Geen THEN {} ELSE {eis \in EisenVan[p] : Gemeten(eis, waarden)}
  IN  IF gemeten = {} THEN "NietTeBeoordelen"
      ELSE IF \E eis \in gemeten : ~Vergelijk(WaardeVoorEis(eis, waarden), eis) THEN "VoldoetNiet"
      ELSE IF gemeten # EisenVan[p] THEN "NietTeBeoordelen"
      ELSE "Voldoet"

-----------------------------------------------------------------------------

VARIABLES
  verkeer,        \* what this behaviour sees of requests, pakketten and deliveries
  rij,            \* the row of the kunstwerk
  vastgesteld,    \* the pakketten in the order of their commits
  pc,             \* where request r is
  kopie,          \* the kunstwerk in the memory of r
  gelezen,        \* what save read
  gepubliceerd,   \* the requests whose event is at the broker, in order
  levering,       \* where a delivery is
  concept,        \* the beoordeling that a delivery is about to add
  beoordelingen,  \* rapportage_beoordeling
  verwerkt,       \* verwerkt_event
  verbonden,      \* the queues whose thread has its connection
  verwacht,       \* history: the row if the accepted requests had run one by one
  begonnen,       \* history: begonnen[d]: the length of vastgesteld when d was begun
  teVroeg,        \* history: rapporten that found no kunstwerk
  fouten,         \* faults so far
  samenloop       \* history: did requests overlap?

registerVars == <<rij, pc, kopie, gelezen, gepubliceerd, verwacht, samenloop>>
rapportVars  == <<levering, concept, beoordelingen, verwerkt, verbonden, begonnen, teVroeg>>
vars == <<verkeer, registerVars, vastgesteld, rapportVars, fouten>>

Afwezig    == [status |-> "Ontbreekt", naam |-> Geen, reden |-> Geen]
Rijen      == [status : Standen \cup {"Ontbreekt"}, naam : Namen \cup {Geen},
               reden : Buitenstellingen \cup {Geen}]
Oordelen   == [bron : Rapporten, pakket : Pakketten \cup {Geen},
               resultaat : {"Voldoet", "VoldoetNiet", "NietTeBeoordelen"}]
Open       == {"gelezen", "herlezen"}
Lopend     == {"gecontroleerd", "beoordeeld", "vastgelegd"}

TypeOK ==
  /\ rij \in Rijen
  /\ pc \in [Verzoeken -> {"nieuw", "gecommit", "klaar", "afgewezen", "mislukt"} \cup Open]
  /\ kopie \in [Verzoeken -> Rijen]
  /\ gelezen \in [Verzoeken -> Rijen]
  /\ vastgesteld \in Seq(Pakketten)
  /\ IsInjective(vastgesteld) /\ IsInjective(gepubliceerd)
  /\ \A i \in DOMAIN gepubliceerd : gepubliceerd[i] \in Verzoeken \ Wijzigingen
  /\ levering \in [Leveringen -> {"onderweg", "bevestigd", "verworpen"} \cup Lopend]
  /\ beoordelingen \subseteq Oordelen
  /\ \A d \in Leveringen : concept[d] \in Oordelen \cup {Geen}
  /\ verwerkt \subseteq Rapporten
  /\ verbonden \subseteq Soorten
  /\ fouten \in 0 .. MaxFouten

\* A kunstwerk that may be registered already.  Rapporten look at its existence and at the
\* eisen only, requests not at rapporten or eisen: they are combined with registraties.
Init ==
  /\ verkeer \in {V \in SUBSET (Verzoeken \cup Pakketten \cup Leveringen) :
       /\ Cardinality(V) <= MaxVerkeer
       /\ V \subseteq Verzoeken \/ V \cap (Wijzigingen \cup Buitenstellingen) = {}
       /\ \A d \in V \cap Leveringen : <<d[1], 1>> \in V}
  /\ rij \in {Afwezig} \cup
       [status : {"InGebruik", "BuitenGebruik"}, naam : Namen \ {Geen}, reden : {Geen}]
  /\ vastgesteld = <<>>
  /\ pc = [r \in Verzoeken |-> "nieuw"]
  /\ kopie = [r \in Verzoeken |-> Afwezig]
  /\ gelezen = [r \in Verzoeken |-> Afwezig]
  /\ gepubliceerd = <<>>
  /\ levering = [d \in Leveringen |-> IF d \in verkeer THEN "onderweg" ELSE "bevestigd"]
  /\ concept = [d \in Leveringen |-> Geen]
  /\ beoordelingen = {}
  /\ verwerkt = {}
  /\ verbonden = Soorten
  /\ verwacht = rij
  /\ begonnen = [d \in Leveringen |-> 0]
  /\ teVroeg = {}
  /\ fouten = 0
  /\ samenloop = FALSE

-----------------------------------------------------------------------------
(* The lifecycle *)

NaarStap(r, plaats) == pc' = [pc EXCEPT ![r] = plaats]

Bekend == rij.status # "Ontbreekt"

\* Kunstwerk.registreer.
Geregistreerd(r) == [Afwezig EXCEPT !.naam = Opgave[r].naam, !.status = Opgave[r].status]

\* Defective variant: a field that is absent from the body empties its column.
GewijzigdMetLeeg(r, oud) ==
  CASE r \in Registraties     -> Geregistreerd(r)
    [] r \in Wijzigingen      -> [oud EXCEPT !.naam = Opgave[r].naam, !.status = Opgave[r].status]
    [] r \in Buitenstellingen -> [oud EXCEPT !.status = "BuitenGebruik", !.reden = r]

\* registreer, wijzig_basisgegevens, stel_buiten_gebruik.
Gewijzigd(r, oud) ==
  LET of(nieuw, huidig) == IF nieuw = Geen THEN huidig ELSE nieuw
  IN  CASE r \in Registraties     -> Geregistreerd(r)
        [] r \in Wijzigingen      -> [oud EXCEPT !.naam = of(Opgave[r].naam, @),
                                                 !.status = of(Opgave[r].status, @)]
        [] r \in Buitenstellingen -> [oud EXCEPT !.status = "BuitenGebruik", !.reden = r]

\* ConflictError of registreer and stel_buiten_gebruik, NotFoundError.
Toegestaan(r) ==
  IF r \in Registraties THEN ~Bekend
  ELSE Bekend /\ (r \in Buitenstellingen => rij.status # "BuitenGebruik")

\* kunstwerken.get and the domain method.
Lees(r) ==
  /\ r \in verkeer \cap Verzoeken
  /\ pc[r] = "nieuw"
  /\ IF Toegestaan(r)
     THEN /\ kopie' = [kopie EXCEPT ![r] = Gewijzigd(r, rij)]
          /\ samenloop' = (samenloop \/ \E q \in Verzoeken : pc[q] \in Open \cup {"gecommit"})
          /\ NaarStap(r, "gelezen")
     ELSE NaarStap(r, "afgewezen") /\ UNCHANGED <<kopie, samenloop>>
  /\ UNCHANGED <<rij, gelezen, gepubliceerd, verwacht>>

\* kunstwerken.save: session.get.
Herlees(r) ==
  /\ r \in Wijzigingen \cup Buitenstellingen
  /\ pc[r] = "gelezen"
  /\ gelezen' = [gelezen EXCEPT ![r] = rij]
  /\ NaarStap(r, "herlezen")
  /\ UNCHANGED <<rij, kopie, gepubliceerd, verwacht, samenloop>>

Ronde(r) == IF r \in Wijzigingen THEN "klaar" ELSE "gecommit"

\* Defective variant: _update_kunstwerk_model leaves the reden out.
SchrijfZonderReden(r) ==
  /\ pc[r] = "herlezen"
  /\ rij' = [k \in DOMAIN rij |->
       IF kopie[r][k] # gelezen[r][k] /\ k # "reden" THEN kopie[r][k] ELSE rij[k]]
  /\ verwacht' = Gewijzigd(r, verwacht)
  /\ NaarStap(r, Ronde(r))
  /\ UNCHANGED <<kopie, gelezen, gepubliceerd, samenloop>>

\* commit: an UPDATE of the columns in which the copy differs from what save read.
Schrijf(r) ==
  /\ pc[r] = "herlezen"
  /\ rij' = [k \in DOMAIN rij |-> IF kopie[r][k] # gelezen[r][k] THEN kopie[r][k] ELSE rij[k]]
  /\ verwacht' = Gewijzigd(r, verwacht)
  /\ NaarStap(r, Ronde(r))
  /\ UNCHANGED <<kopie, gelezen, gepubliceerd, samenloop>>

\* add and commit; the primary key refuses a second row.
Voeg(r) ==
  /\ r \in Registraties
  /\ pc[r] = "gelezen"
  /\ IF Bekend
     THEN NaarStap(r, "mislukt") /\ UNCHANGED <<rij, verwacht>>
     ELSE NaarStap(r, "gecommit") /\ rij' = kopie[r] /\ verwacht' = Gewijzigd(r, verwacht)
  /\ UNCHANGED <<kopie, gelezen, gepubliceerd, samenloop>>

\* publisher.publish, after the transaction.
Publiceer(r) ==
  /\ pc[r] = "gecommit"
  /\ gepubliceerd' = Append(gepubliceerd, r)
  /\ NaarStap(r, "klaar")
  /\ UNCHANGED <<rij, kopie, gelezen, verwacht, samenloop>>

RegistreerKunstwerk(r) == r \in Registraties /\ (Lees(r) \/ Voeg(r) \/ Publiceer(r))

WijzigKunstwerkBasisgegevens(r) == r \in Wijzigingen /\ (Lees(r) \/ Herlees(r) \/ Schrijf(r))

StelKunstwerkBuitenGebruik(r) ==
  r \in Buitenstellingen /\ (Lees(r) \/ Herlees(r) \/ Schrijf(r) \/ Publiceer(r))

\* _stel_eisen_vast as BeheerEisen models it, at its commit.
StelEisenVast(p) ==
  /\ Bekend
  /\ p \notin Range(vastgesteld)
  /\ vastgesteld' = Append(vastgesteld, p)

-----------------------------------------------------------------------------
(* The consumers *)

Naar(d, plaats) == levering' = [levering EXCEPT ![d] = plaats]

Rij(d) == {e \in Leveringen : Soort[e[1]] = Soort[d[1]]}

\* The thread takes the next message of its queue: the rapporten in any order, since two
\* requests at the producer may publish in any order, but a repetition after the first copy.
Ontvang(d) ==
  /\ d \in verkeer \cap Leveringen
  /\ levering[d] = "onderweg"
  /\ Soort[d[1]] \in verbonden
  /\ \A e \in Rij(d) : levering[e] \notin Lopend
  /\ d[2] = 2 => levering[<<d[1], 1>>] # "onderweg"

Beoordeeld(e) == \E b \in beoordelingen : b.bron = e

\* Defective variant: an event that was handled before is a conflict.
ControleerMetConflict(d) ==
  /\ Ontvang(d)
  /\ begonnen' = [begonnen EXCEPT ![d] = Len(vastgesteld)]
  /\ concept' = [concept EXCEPT ![d] = Geen]
  /\ teVroeg' = IF Bekend THEN teVroeg ELSE teVroeg \cup {d[1]}
  /\ Naar(d, IF d[1] \in Ongeldig \cup verwerkt \/ ~Bekend THEN "verworpen" ELSE "gecontroleerd")
  /\ UNCHANGED <<beoordelingen, verwerkt, verbonden>>

\* _validated_envelope, get_by_bron_event_id, has and kunstwerken.get: a known rapport has
\* its beoordeling, one about an unknown kunstwerk is refused, without requeue.
Controleer(d) ==
  /\ Ontvang(d)
  /\ begonnen' = [begonnen EXCEPT ![d] = Len(vastgesteld)]
  /\ concept' = [concept EXCEPT ![d] = Geen]
  /\ teVroeg' = IF d[1] \notin Ongeldig /\ ~Beoordeeld(d[1]) /\ ~Bekend
                THEN teVroeg \cup {d[1]} ELSE teVroeg
  /\ Naar(d, IF d[1] \in Ongeldig THEN "verworpen"
             ELSE IF Beoordeeld(d[1]) THEN "vastgelegd"
             ELSE IF d[1] \in verwerkt \/ ~Bekend THEN "verworpen"
             ELSE "gecontroleerd")
  /\ UNCHANGED <<beoordelingen, verwerkt, verbonden>>

\* get_current: the newest pakket of the soort.
GetCurrent(soort) ==
  LET van == {i \in DOMAIN vastgesteld : Soort[vastgesteld[i]] = soort}
  IN  IF van = {} THEN Geen
      ELSE vastgesteld[CHOOSE i \in van : \A j \in van : j <= i]

\* get_current with its eisen, and the validator.
Beoordeel(d) ==
  /\ levering[d] = "gecontroleerd"
  /\ LET e == d[1]
         p == GetCurrent(Soort[e])
     IN  concept' = [concept EXCEPT ![d] =
           [bron |-> e, pakket |-> p, resultaat |-> Validator(p, Rapportwaarden(Bron[e]))]]
  /\ Naar(d, "beoordeeld")
  /\ UNCHANGED <<beoordelingen, verwerkt, verbonden, begonnen, teVroeg>>

\* beoordelingen.add, verwerkte_events.add, commit.
LegVast(d) ==
  /\ levering[d] = "beoordeeld"
  /\ beoordelingen' = beoordelingen \cup {concept[d]}
  /\ verwerkt' = verwerkt \cup {d[1]}
  /\ Naar(d, "vastgelegd")
  /\ UNCHANGED <<concept, verbonden, begonnen, teVroeg>>

\* basic_ack; on a lost connection it raises, so does basic_nack, and the thread ends.
Ack(d) ==
  /\ levering[d] = "vastgelegd"
  /\ Naar(d, IF Soort[d[1]] \in verbonden THEN "bevestigd" ELSE "onderweg")
  /\ UNCHANGED <<concept, beoordelingen, verwerkt, verbonden, begonnen, teVroeg>>

\* VerwerkMonitoringRapport and VerwerkOnderhoudAfgerond, from message to ack.
VerwerkRapport(d) == Controleer(d) \/ Beoordeel(d) \/ LegVast(d) \/ Ack(d)

-----------------------------------------------------------------------------
(* Faults *)

Fout == fouten < MaxFouten /\ fouten' = fouten + 1 /\ UNCHANGED <<verkeer, vastgesteld>>

\* An exception inside "with uow", or the broker away at the publication.
BreekVerzoek ==
  /\ Fout
  /\ \E r \in Verzoeken : pc[r] \in Open \cup {"gecommit"} /\ NaarStap(r, "mislukt")
  /\ UNCHANGED <<rij, kopie, gelezen, gepubliceerd, verwacht, samenloop, rapportVars>>

\* A database error in the handler: rollback, and nack without requeue.
WeigerRapport ==
  /\ Fout
  /\ \E d \in Leveringen : levering[d] \in {"gecontroleerd", "beoordeeld"} /\ Naar(d, "verworpen")
  /\ UNCHANGED <<concept, beoordelingen, verwerkt, verbonden, begonnen, teVroeg, registerVars>>

\* A thread loses its connection: a handler at work goes on.
Verbreek ==
  /\ Fout
  /\ \E q \in verbonden : verbonden' = verbonden \ {q}
  /\ UNCHANGED <<levering, concept, beoordelingen, verwerkt, begonnen, teVroeg, registerVars>>

\* The service dies and starts: what was not acknowledged is delivered again.
Herstart ==
  /\ \/ Fout
     \/ verbonden # Soorten /\ UNCHANGED <<verkeer, vastgesteld, fouten>>
  /\ pc' = [r \in Verzoeken |-> IF pc[r] \in Open \cup {"gecommit"} THEN "mislukt" ELSE pc[r]]
  /\ levering' = [d \in Leveringen |-> IF levering[d] \in Lopend THEN "onderweg" ELSE levering[d]]
  /\ verbonden' = Soorten
  /\ UNCHANGED <<rij, kopie, gelezen, gepubliceerd, verwacht, samenloop>>
  /\ UNCHANGED <<concept, beoordelingen, verwerkt, begonnen, teVroeg>>

Verzoek(r) ==
  RegistreerKunstwerk(r) \/ WijzigKunstwerkBasisgegevens(r) \/ StelKunstwerkBuitenGebruik(r)

Stap ==
  /\ \/ \E r \in verkeer \cap Verzoeken : Verzoek(r) /\ UNCHANGED <<vastgesteld, rapportVars>>
     \/ \E p \in verkeer \cap Pakketten : StelEisenVast(p) /\ UNCHANGED <<registerVars, rapportVars>>
     \/ \E d \in verkeer \cap Leveringen : VerwerkRapport(d) /\ UNCHANGED <<registerVars, vastgesteld>>
  /\ UNCHANGED <<verkeer, fouten>>

Next == Stap \/ BreekVerzoek \/ WeigerRapport \/ Verbreek \/ Herstart

Spec == Init /\ [][Next]_vars

-----------------------------------------------------------------------------
(* Properties *)

\* Whatever overlaps, at most one registratie is accepted.  As long as no two requests
\* overlapped, the row is what the accepted requests make of it one by one (so a PATCH
\* keeps the reden of a buitengebruikstelling and a buitengebruikstelling the naam of a
\* PATCH), and the events reach the broker in the order of that row's history: first
\* geregistreerd, and no second buitengebruikgesteld without a PATCH of the status between.
RegisterKlopt ==
  /\ Cardinality({r \in Registraties : pc[r] = "gecommit" \/ r \in Range(gepubliceerd)}) <= 1
  /\ ~samenloop =>
       /\ rij = verwacht
       /\ \A i \in DOMAIN gepubliceerd : gepubliceerd[i] \in Registraties => i = 1
       /\ Cardinality(Range(gepubliceerd) \cap Buitenstellingen) <=
            1 + Cardinality({w \in Wijzigingen : pc[w] = "klaar" /\ Opgave[w].status # Geen})

\* A rapport has at most one beoordeling, which is there exactly when its event is marked;
\* a delivery that was acknowledged has left one; and none is refused, without a fault,
\* but for its envelope or because no kunstwerk was found: through repetition by the
\* producer, lost connections, redelivery and restarts.
EenBeoordelingPerRapport ==
  /\ \A b, c \in beoordelingen : b.bron = c.bron => b = c
  /\ verwerkt = {b.bron : b \in beoordelingen}
  /\ \A d \in verkeer \cap Leveringen :
       /\ levering[d] = "bevestigd" => Beoordeeld(d[1])
       /\ levering[d] = "verworpen" => fouten > 0 \/ d[1] \in Ongeldig \cup teVroeg

\* The entries of a rapport that give a value under a name, and the last such value.
Genoemd(bron, naam) ==
  {i \in DOMAIN bron :
     \/ bron[i].soort \in {"getal", "sensor"} /\ bron[i].naam = naam
     \/ bron[i].soort = "sensor" /\ KleineLetters(bron[i].naam) = naam}
LaatsteWaarde(bron, naam) ==
  bron[CHOOSE i \in Genoemd(bron, naam) : \A j \in Genoemd(bron, naam) : j <= i].waarde

\* The name under which a rapport answers an eis.
NaamVoor(e, eis) == IF Genoemd(Bron[e], eis.meetwaarde) # {} THEN eis.meetwaarde ELSE eis.code
Zonder(e, eis) == Genoemd(Bron[e], NaamVoor(e, eis)) = {}
Gehaald(e, eis) ==
  ~Zonder(e, eis) /\ Vergelijk(LaatsteWaarde(Bron[e], NaamVoor(e, eis)), eis)

\* A rapport is judged by a pakket of its own soort, not older than the one in force when
\* its delivery was begun; Voldoet only if the rapport meets every eis of it, VoldoetNiet
\* only if it gives a value that fails one, and NietTeBeoordelen only if there is no
\* pakket, or an eis without a value and none that fails.
BeoordelingKlopt ==
  \A d \in Leveringen : levering[d] \in {"beoordeeld", "vastgelegd"} /\ concept[d] # Geen =>
    LET e == d[1]
        b == concept[d]
        toen == {i \in 1 .. begonnen[d] : Soort[vastgesteld[i]] = Soort[e]}
    IN  IF b.pakket = Geen
        THEN toen = {} /\ b.resultaat = "NietTeBeoordelen"
        ELSE /\ \E i \in DOMAIN vastgesteld :
                  vastgesteld[i] = b.pakket /\ \A j \in toen : j <= i
             /\ Soort[b.pakket] = Soort[e]
             /\ b.resultaat = "Voldoet" <=> \A eis \in EisenVan[b.pakket] : Gehaald(e, eis)
             /\ b.resultaat = "VoldoetNiet" <=>
                  \E eis \in EisenVan[b.pakket] : ~Gehaald(e, eis) /\ ~Zonder(e, eis)
=============================================================================
