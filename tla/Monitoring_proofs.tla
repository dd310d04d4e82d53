--------------------------- MODULE Monitoring_proofs ---------------------------
(***************************************************************************)
(* Proofs about Monitoring, for any number of requests, messages and       *)
(* faults, and for behaviours in which they all meet: nothing here uses    *)
(* the bounds that Init puts on what one behaviour combines.               *)
(*                                                                         *)
(* PlaatsInv says what the place of a request says of its copy and of the  *)
(* rows.  IncidentInv follows an incident from its meting to the outbox,   *)
(* VolgordeInv the two events about it from the outbox to the exchange,    *)
(* RapportInv what a rapport has read so far.  AlleenInv says what         *)
(* requests that have a sessie to themselves know of it.                   *)
(***************************************************************************)
EXTENDS Monitoring, Consument_proofs, FiniteSetTheorems

\* The requests that load an aggregate, and those that publish.
Wijzigers == Starts \cup Sessiewijzigingen \cup Metingen \cup Incidentwijzigingen
Melders   == Metingen \cup Oplossingen \cup Rapporten \cup Netwerk

\* Between loading and saving.
Vlucht   == {"geladen", "gevonden"}
InVlucht == {r \in Wijzigers : pc[r] \in Vlucht}

\* The aggregates that a request can change.
Terrein(r) ==
  CASE r \in Starts -> {r}
    [] r \in Sessiewijzigingen \cup Metingen -> Sessies
    [] r \in Incidentwijzigingen -> Incidenten

\* The places of a request of each kind, and what they say of its copy.
PlaatsInv ==
  /\ \A r \in Verzoeken :
       /\ pc[r] \in Vlucht => r \in Wijzigers
       /\ pc[r] \in {"bewaard", "toegevoegd"} => r \in Metingen
       /\ pc[r] \in {"gelezen", "opgesteld"} => r \in Rapporten \cup Netwerk
       /\ pc[r] = "opgesteld" => r \in Rapporten
       /\ pc[r] \in {"gemeld", "gestempeld"} => r \in Melders
       /\ pc[r] = "bewaakt" => r \in Starts \cup Metingen \cup Netwerk
  /\ \A r \in Wijzigers :
       /\ r \in InVlucht \/ r \in aanvaard => kopie[r].id \in Terrein(r)
       /\ pc[r] \in {"nieuw", "bewaakt"} \cup Vlucht => r \notin aanvaard
       /\ pc[r] \in {"nieuw", "bewaakt"} => kopie[r].id = Geen
       /\ pc[r] \in {"bewaard", "toegevoegd", "gemeld", "gestempeld"} => r \in aanvaard
  /\ \A r \in InVlucht :
       /\ kopie[r].rij.status # "Ontbreekt"
       /\ r \notin Starts => Bestaat(kopie[r].id)
       /\ pc[r] = "gevonden" => (gelezen[r].status = "Ontbreekt" <=> r \in Starts)
  /\ \A r \in Starts : Bestaat(r) => r \in aanvaard

\* The counts: no row and no copy has more metingen than were accepted, with its own.
AantalInv ==
  /\ \A a \in Aggregaten : rij[a].aantal <= Cardinality(aanvaard \cap Metingen)
  /\ \A r \in Verzoeken : kopie[r].rij.aantal <= Cardinality((aanvaard \cup {r}) \cap Metingen)

-----------------------------------------------------------------------------

\* An incident is there when its meting is, and is on its way to the outbox.
IncidentInv ==
  \A m \in Metingen :
    /\ Bestaat(m) =>
         /\ pc[m] \in {"gemeld", "gestempeld", "klaar", "mislukt"}
         /\ Ernst(Data[m]) # Geen
         /\ meting[m] # Geen
    /\ pc[m] = "toegevoegd" => Ernst(Data[m]) # Geen
    /\ meting[m] # Geen => m \in aanvaard
    /\ m \in aanvaard /\ meting[m] = Geen => pc[m] \in {"bewaard", "mislukt"}

\* The rows of a request are stamped, committed, published and marked, once.
OutboxInv ==
  /\ \A i, j \in 1 .. Len(outbox) : outbox[i] = outbox[j] => i = j
  /\ \A i \in 1 .. Len(outbox) : pc[outbox[i]] \in {"gestempeld", "klaar", "mislukt"}
  /\ \A r \in Verzoeken : pc[r] = "gestempeld" => \E i \in 1 .. Len(outbox) : outbox[i] = r
  /\ \A r \in uitgegeven : pc[r] = "klaar"
  /\ \A r \in Melders : pc[r] = "klaar" => r \in uitgegeven

\* Who resolved an incident whose meting was handled to the end found that one's rows in
\* the outbox, and his own come after them, there and at the exchange.
VolgordeInv ==
  \A o \in Oplossingen : LET m == kopie[o].id IN
    m \in Metingen /\ ~samenloop /\ pc[m] # "mislukt" =>
      /\ m \in uitgegeven
      /\ (\E i \in 1 .. Len(outbox) : outbox[i] = o) => Ouder(m, o)
      /\ o \in relay.rest => m \in gepubliceerd \cup relay.rest
      /\ o \in gepubliceerd => m \in gepubliceerd

-----------------------------------------------------------------------------

\* What a rapport has to say when it is drawn up.
Volledig(r) ==
  LET z == rapport[r].zwaarste
  IN  /\ vooraf[r] \subseteq rapport[r].incidenten
      /\ vooraf[r] \cap Metingen \subseteq rapport[r].metingen
      /\ z = Geen <=> rapport[r].open = {}
      /\ z # Geen => z \in rapport[r].open
           /\ \A i \in rapport[r].open : Orde[ErnstVan(i)] <= Orde[ErnstVan(z)]

RapportInv ==
  /\ \A r \in Rapporten :
       /\ pc[r] = "gelezen" =>
            (\A i \in vooraf[r] : Bestaat(i)) /\ vooraf[r] \cap Metingen \subseteq rapport[r].metingen
       /\ pc[r] = "opgesteld" \/ r \in aanvaard => Volledig(r)
       /\ pc[r] \in {"gemeld", "gestempeld", "klaar"} => r \in aanvaard
       /\ r \in aanvaard => pc[r] \in {"gemeld", "gestempeld", "klaar", "mislukt"}
  /\ \A n \in Netwerk :
       /\ pc[n] = "nieuw" => rapport[n] = Leegrapport
       /\ pc[n] \in {"bewaakt", "gelezen"} => rapport[n].gebruik
       /\ ~rapport[n].gebruik => rapport[n] = [Leegrapport EXCEPT !.gebruik = FALSE]

-----------------------------------------------------------------------------

\* What the copy of r makes of the sessie it loaded, which is still as it was.
KopieKlopt(r) ==
  LET k   == kopie[r].rij
      oud == rij[kopie[r].id]
  IN  /\ r \in Starts => k.status = "Actief" /\ k.einde = Geen /\ k.aantal = 0 /\ ~Bestaat(r) /\ Lopende = {}
      /\ r \in Metingen =>
           oud.status = "Actief" /\ k.status = "Actief" /\ k.einde = oud.einde /\ k.aantal = oud.aantal + 1
      /\ r \in Sessiewijzigingen =>
           /\ oud.status \in {"Actief", "Gepauzeerd"} /\ k.aantal = oud.aantal
           /\ \/ k.status \in {"Actief", "Gepauzeerd"} /\ k.einde = oud.einde
              \/ k.status = "Afgerond" /\ k.einde = r

Sessieschrijvers == Starts \cup Sessiewijzigingen \cup Metingen

\* A sessie that ended says when; its count is that of the metingen it accepted.
SessieInv(s) ==
  /\ rij[s].status \in {"Ontbreekt", "Actief", "Gepauzeerd", "Afgerond"}
  /\ rij[s].einde # Geen <=> rij[s].status = "Afgerond"
  /\ ~Bestaat(s) => rij[s].aantal = 0
  /\ rij[s].aantal = Cardinality({m \in aanvaard \cap Metingen : kopie[m].id = s})

\* Requests that did not overlap: one is at work, and knows its sessie.
AlleenInv ==
  ~samenloop =>
    /\ \A q, r \in InVlucht \cap Sessieschrijvers : q = r
    /\ \A r \in InVlucht \cap Sessieschrijvers : KopieKlopt(r)
    /\ \A r \in InVlucht \cap Sessieschrijvers : pc[r] = "gevonden" => gelezen[r] = rij[kopie[r].id]
    /\ \A s, t \in Lopende : s = t
    /\ \A s \in Sessies : SessieInv(s)

-----------------------------------------------------------------------------
(* Kinds and types *)

VerzoekTypeOK ==
  /\ verkeer \subseteq Verzoeken \cup Leveringen
  /\ rij \in [Aggregaten -> Rijen]
  /\ meting \in [Metingen -> Sessies \cup {Geen}]
  /\ rapport \in [Rapporten \cup Netwerk ->
       [gebruik : BOOLEAN, metingen : SUBSET Metingen, incidenten : SUBSET Incidenten,
        open : SUBSET Incidenten, zwaarste : Incidenten \cup {Geen}]]
  /\ pc \in [Verzoeken -> {"nieuw"} \cup Bezig \cup Eind]
  /\ kopie \in [Verzoeken -> [id : Aggregaten \cup {Geen}, rij : Rijen]]
  /\ gelezen \in [Verzoeken -> Rijen]
  /\ aanvaard \subseteq Verzoeken
  /\ vooraf \in [Rapporten -> SUBSET Incidenten]
  /\ samenloop \in BOOLEAN

RelayTypeOK ==
  /\ outbox \in Seq(Verzoeken)
  /\ uitgegeven \subseteq {outbox[i] : i \in 1 .. Len(outbox)}
  /\ gepubliceerd \subseteq uitgegeven
  /\ gemarkeerd \subseteq gepubliceerd
  /\ relay \in [rest : SUBSET uitgegeven, gedaan : SUBSET gepubliceerd, bezig : BOOLEAN]

VerzoekInv ==
  /\ VerzoekTypeOK /\ RelayTypeOK
  /\ PlaatsInv /\ AantalInv /\ IncidentInv /\ OutboxInv /\ VolgordeInv /\ RapportInv /\ AlleenInv

\* A request is of one kind.
LEMMA EenSoort ==
  ASSUME NEW r
  PROVE  /\ r \in Starts => r \notin Sessiewijzigingen /\ r \notin Metingen /\ r \notin Incidentwijzigingen
                              /\ r \notin Rapporten /\ r \notin Netwerk
         /\ r \in Sessiewijzigingen => r \notin Metingen /\ r \notin Incidentwijzigingen
                              /\ r \notin Rapporten /\ r \notin Netwerk
         /\ r \in Metingen => r \notin Incidentwijzigingen /\ r \notin Rapporten /\ r \notin Netwerk
         /\ r \in Incidentwijzigingen => r \notin Rapporten /\ r \notin Netwerk
         /\ r \in Rapporten => r \notin Netwerk
         /\ r \in Verzoeken => r # "sessie" /\ r # "incident" /\ r # Geen
BY MonitoringAssumption

LEMMA Kinderen ==
  /\ Starts \subseteq Verzoeken /\ Sessiewijzigingen \subseteq Verzoeken /\ Metingen \subseteq Verzoeken
  /\ Incidentwijzigingen \subseteq Verzoeken /\ Rapporten \subseteq Verzoeken /\ Netwerk \subseteq Verzoeken
  /\ Wijzigers \subseteq Verzoeken /\ Melders \subseteq Verzoeken
  /\ Oplossingen \subseteq Incidentwijzigingen /\ Behandelingen \subseteq Incidentwijzigingen
  /\ Pauzes \subseteq Sessiewijzigingen /\ Hervattingen \subseteq Sessiewijzigingen /\ Afrondingen \subseteq Sessiewijzigingen
  /\ Starts \subseteq Sessies /\ Metingen \subseteq Incidenten
  /\ Sessies \subseteq Aggregaten /\ Incidenten \subseteq Aggregaten
  /\ Sessies \cap Incidenten = {} /\ Geen \notin Aggregaten
<1>1. /\ Starts \subseteq Verzoeken /\ Sessiewijzigingen \subseteq Verzoeken /\ Metingen \subseteq Verzoeken
      /\ Incidentwijzigingen \subseteq Verzoeken /\ Rapporten \subseteq Verzoeken /\ Netwerk \subseteq Verzoeken
      /\ Oplossingen \subseteq Incidentwijzigingen /\ Behandelingen \subseteq Incidentwijzigingen
      /\ Pauzes \subseteq Sessiewijzigingen /\ Hervattingen \subseteq Sessiewijzigingen /\ Afrondingen \subseteq Sessiewijzigingen
  BY DEF Verzoeken, Incidentwijzigingen, Sessiewijzigingen
<1>2. Wijzigers \subseteq Verzoeken /\ Melders \subseteq Verzoeken
  BY <1>1 DEF Wijzigers, Melders
<1>3. /\ Starts \subseteq Sessies /\ Metingen \subseteq Incidenten
      /\ Sessies \subseteq Aggregaten /\ Incidenten \subseteq Aggregaten
  BY DEF Sessies, Incidenten, Aggregaten
<1>4. Sessies \cap Incidenten = {} /\ Geen \notin Aggregaten
  BY <1>1, EenSoort, MonitoringAssumption DEF Sessies, Incidenten, Aggregaten
<1> QED BY <1>1, <1>2, <1>3, <1>4

LEMMA RijType ==
  ASSUME NEW k \in Rijen
  PROVE  /\ k.status \in {"Ontbreekt", "Actief", "Gepauzeerd", "Afgerond", "Nieuw", "InBehandeling", "Opgelost"}
         /\ k.einde \in Afrondingen \cup Oplossingen \cup {Geen}
         /\ k.aantal \in 0 .. Cardinality(Metingen) /\ k.aantal \in Nat
         /\ k = [status |-> k.status, einde |-> k.einde, aantal |-> k.aantal]
<1>1. Cardinality(Metingen) \in Nat
  BY MonitoringAssumption, FS_CardinalityType
<1> QED BY <1>1 DEF Rijen

LEMMA RijIs ==
  ASSUME NEW s \in {"Ontbreekt", "Actief", "Gepauzeerd", "Afgerond", "Nieuw", "InBehandeling", "Opgelost"},
         NEW e \in Afrondingen \cup Oplossingen \cup {Geen}, NEW n \in 0 .. Cardinality(Metingen)
  PROVE  [status |-> s, einde |-> e, aantal |-> n] \in Rijen
BY DEF Rijen

LEMMA BeginrijType ==
  /\ Afwezig \in Rijen /\ Afwezig.status = "Ontbreekt" /\ Afwezig.einde = Geen /\ Afwezig.aantal = 0
  /\ NieuweSessie \in Rijen /\ NieuweSessie.status = "Actief" /\ NieuweSessie.einde = Geen /\ NieuweSessie.aantal = 0
  /\ NieuwIncident \in Rijen /\ NieuwIncident.status = "Nieuw" /\ NieuwIncident.einde = Geen /\ NieuwIncident.aantal = 0
<1>1. 0 \in 0 .. Cardinality(Metingen)
  BY MonitoringAssumption, FS_CardinalityType
<1> QED BY <1>1 DEF Rijen, Afwezig, NieuweSessie, NieuwIncident

\* The metingen that were accepted, and how many there can be.
LEMMA AantalMetingen ==
  ASSUME NEW A, NEW B, A \subseteq B
  PROVE  /\ IsFiniteSet(A \cap Metingen) /\ Cardinality(A \cap Metingen) \in Nat
         /\ Cardinality(A \cap Metingen) <= Cardinality(B \cap Metingen)
         /\ Cardinality(B \cap Metingen) <= Cardinality(Metingen)
<1>1. \A C : /\ IsFiniteSet(C \cap Metingen) /\ Cardinality(C \cap Metingen) <= Cardinality(Metingen)
             /\ Cardinality(C \cap Metingen) \in Nat
  <2> TAKE C
  <2>1. C \cap Metingen \in SUBSET Metingen
    OBVIOUS
  <2>2. IsFiniteSet(C \cap Metingen) /\ Cardinality(C \cap Metingen) <= Cardinality(Metingen)
    BY <2>1, MonitoringAssumption, FS_Subset
  <2> QED BY <2>2, FS_CardinalityType
<1>2. A \cap Metingen \in SUBSET (B \cap Metingen)
  OBVIOUS
<1>3. Cardinality(A \cap Metingen) <= Cardinality(B \cap Metingen)
  BY <1>1, <1>2, FS_Subset
<1> QED BY <1>1, <1>3

\* Where a request goes when it moves.
LEMMA Verplaats ==
  ASSUME VerzoekTypeOK, NEW r \in Verzoeken, NEW plaats \in {"nieuw"} \cup Bezig \cup Eind, NaarStap(r, plaats)
  PROVE  /\ pc' \in [Verzoeken -> {"nieuw"} \cup Bezig \cup Eind]
         /\ pc'[r] = plaats /\ \A q \in Verzoeken \ {r} : pc'[q] = pc[q]
BY DEF VerzoekTypeOK, NaarStap

\* An aggregate that is on its way is one of its request's.
LEMMA TerreinType ==
  ASSUME NEW r \in Wijzigers
  PROVE  /\ Terrein(r) \subseteq Aggregaten
         /\ r \in Sessieschrijvers => Terrein(r) \subseteq Sessies
         /\ r \in Incidentwijzigingen => Terrein(r) = Incidenten
         /\ r \in Starts => Terrein(r) = {r}
BY EenSoort, Kinderen DEF Terrein, Wijzigers, Sessieschrijvers

\* Steps that leave the sessies, and who is at work on them, alone.
LEMMA AlleenStil ==
  ASSUME VerzoekInv, \A s \in Sessies : rij'[s] = rij[s], aanvaard' \cap Metingen = aanvaard \cap Metingen,
         \A r \in Sessieschrijvers :
           kopie'[r] = kopie[r] /\ gelezen'[r] = gelezen[r] /\ (pc'[r] \in Vlucht => pc'[r] = pc[r]),
         samenloop => samenloop'
  PROVE  AlleenInv'
<1>1. AlleenInv /\ PlaatsInv
  BY DEF VerzoekInv
<1> SUFFICES ASSUME ~samenloop' PROVE AlleenInv'
  BY DEF AlleenInv
<1> DEFINE Wie == InVlucht \cap Sessieschrijvers
           Deze == InVlucht' \cap Sessieschrijvers
<1>2. ~samenloop
  OBVIOUS
<1>3. Deze \subseteq Wie /\ \A r \in Deze : pc'[r] = pc[r] /\ kopie[r].id \in Sessies
  <2>1. \A r \in Deze : r \in Wijzigers /\ pc'[r] \in Vlucht /\ r \in Sessieschrijvers
    BY DEF InVlucht
  <2>2. \A r \in Deze : pc'[r] = pc[r]
    BY <2>1
  <2>3. Deze \subseteq Wie
    BY <2>1, <2>2 DEF InVlucht
  <2> QED BY <1>1, <2>2, <2>3, TerreinType DEF PlaatsInv, InVlucht
<1>4. Lopende' = Lopende /\ \A s \in Sessies : Bestaat(s)' <=> Bestaat(s)
  BY DEF Lopende, Bestaat
<1>5. \A r \in Deze : KopieKlopt(r)'
  <2> SUFFICES ASSUME NEW r \in Deze PROVE KopieKlopt(r)'
    OBVIOUS
  <2>1. KopieKlopt(r) /\ kopie'[r] = kopie[r] /\ rij'[kopie[r].id] = rij[kopie[r].id]
    BY <1>1, <1>2, <1>3 DEF AlleenInv
  <2>2. r \in Starts => r \in Sessies
    BY Kinderen
  <2> HIDE DEF Deze
  <2> QED BY <1>4, <2>1, <2>2 DEF KopieKlopt
<1>6. \A r \in Deze : pc'[r] = "gevonden" => gelezen'[r] = rij'[kopie'[r].id]
  <2> SUFFICES ASSUME NEW r \in Deze, pc'[r] = "gevonden" PROVE gelezen'[r] = rij'[kopie'[r].id]
    OBVIOUS
  <2>1. gelezen[r] = rij[kopie[r].id] /\ kopie[r].id \in Sessies
    BY <1>1, <1>2, <1>3 DEF AlleenInv
  <2> QED BY <2>1
<1>7. \A s \in Sessies : SessieInv(s)'
  <2> SUFFICES ASSUME NEW s \in Sessies PROVE SessieInv(s)'
    OBVIOUS
  <2>1. {m \in aanvaard \cap Metingen : kopie[m].id = s}' = {m \in aanvaard \cap Metingen : kopie[m].id = s}
    BY DEF Sessieschrijvers
  <2>2. SessieInv(s)
    BY <1>1, <1>2 DEF AlleenInv
  <2> QED BY <1>4, <2>1, <2>2 DEF SessieInv
<1> QED BY <1>1, <1>2, <1>3, <1>4, <1>5, <1>6, <1>7 DEF AlleenInv

-----------------------------------------------------------------------------
(* Steps that only move requests *)

\* A request is let in, refused or broken off, and the relay may lose its batch.
LEMMA VerzetHoudt ==
  ASSUME VerzoekInv, UNCHANGED <<rij, meting, rapport, kopie, gelezen, aanvaard, outbox, uitgegeven, vooraf, samenloop>>,
         UNCHANGED <<gepubliceerd, gemarkeerd, verkeer>>, relay' = relay \/ relay' = Rust,
         pc' \in [Verzoeken -> {"nieuw"} \cup Bezig \cup Eind],
         \A r \in Verzoeken :
           \/ pc'[r] = pc[r]
           \/ pc[r] \in Bezig /\ pc'[r] = "mislukt"
           \/ pc[r] \in {"nieuw", "bewaakt"} /\ pc'[r] = "afgewezen"
           \/ pc[r] = "nieuw" /\ pc'[r] = "bewaakt" /\ r \in Starts \cup Metingen
  PROVE  VerzoekInv'
<1>1. /\ VerzoekTypeOK /\ RelayTypeOK /\ PlaatsInv /\ AantalInv /\ IncidentInv /\ OutboxInv /\ VolgordeInv
      /\ RapportInv /\ AlleenInv
  BY DEF VerzoekInv
<1>2. /\ \A a : Bestaat(a)' <=> Bestaat(a)
      /\ InVlucht' \subseteq InVlucht /\ \A r \in InVlucht' : pc'[r] = pc[r]
      /\ Lopende' = Lopende
  BY Kinderen DEF Bestaat, InVlucht, Lopende, Vlucht
<1>3. VerzoekTypeOK'
  BY <1>1 DEF VerzoekTypeOK
<1>4. RelayTypeOK'
  <2>1. /\ outbox' = outbox /\ uitgegeven' = uitgegeven /\ gepubliceerd' = gepubliceerd
        /\ gemarkeerd' = gemarkeerd
    OBVIOUS
  <2>2. Rust \in [rest : SUBSET uitgegeven, gedaan : SUBSET gepubliceerd, bezig : BOOLEAN]
    BY DEF Rust
  <2>3. relay' \in [rest : SUBSET uitgegeven, gedaan : SUBSET gepubliceerd, bezig : BOOLEAN]
    BY <1>1, <2>2 DEF RelayTypeOK
  <2> QED BY <1>1, <2>1, <2>3 DEF RelayTypeOK
<1>5. PlaatsInv'
  BY <1>1, <1>2, EenSoort, Kinderen DEF PlaatsInv, Vlucht, Bezig, Geladen
<1>6. AantalInv'
  BY <1>1 DEF AantalInv
<1>7. IncidentInv'
  BY <1>1, <1>2, Kinderen DEF IncidentInv, Bezig, Vlucht
<1>8. OutboxInv'
  <2>1. outbox \in Seq(Verzoeken) /\ outbox' = outbox /\ uitgegeven' = uitgegeven /\ uitgegeven \subseteq Verzoeken
    BY <1>1 DEF RelayTypeOK
  <2>2. \A i \in 1 .. Len(outbox) : outbox[i] \in Verzoeken
    BY <2>1
  <2>3. \A i \in 1 .. Len(outbox) : pc'[outbox[i]] \in {"gestempeld", "klaar", "mislukt"}
    BY <1>1, <2>2 DEF OutboxInv
  <2>4. \A r \in Verzoeken : pc'[r] = "gestempeld" => pc[r] = "gestempeld"
    OBVIOUS
  <2>5. \A r \in uitgegeven : pc'[r] = "klaar"
    BY <1>1, <2>1 DEF OutboxInv, Bezig, Geladen
  <2>6. \A r \in Melders : pc'[r] = "klaar" => r \in uitgegeven
    BY <1>1, Kinderen DEF OutboxInv
  <2> QED BY <1>1, <2>1, <2>3, <2>4, <2>5, <2>6 DEF OutboxInv
<1>9. VolgordeInv'
  BY <1>1, Kinderen DEF VolgordeInv, Ouder, Bezig, Geladen, Rust, Vlucht
<1>10. RapportInv'
  BY <1>1, <1>2, EenSoort, Kinderen DEF RapportInv, Volledig, Bezig, Geladen, Vlucht
<1>11. AlleenInv'
  <2>1. Sessieschrijvers \subseteq Verzoeken
    BY Kinderen DEF Sessieschrijvers
  <2> QED BY <2>1, AlleenStil DEF Vlucht
<1> QED BY <1>3, <1>4, <1>5, <1>6, <1>7, <1>8, <1>9, <1>10, <1>11 DEF VerzoekInv

\* Steps that leave the outbox, and what it is about, alone.
LEMMA VolgordeStil ==
  ASSUME VolgordeInv, outbox' = outbox, relay' = relay, gepubliceerd' = gepubliceerd, uitgegeven \subseteq uitgegeven',
         \A o \in Oplossingen : kopie'[o].id = kopie[o].id,
         samenloop => samenloop', \A m \in Metingen : pc[m] = "mislukt" => pc'[m] = "mislukt"
  PROVE  VolgordeInv'
BY DEF VolgordeInv, Ouder

-----------------------------------------------------------------------------
(* Loading *)

LEMMA LaadHoudt ==
  ASSUME VerzoekInv, NEW r \in Wijzigers, pc[r] \in {"nieuw", "bewaakt"}, NEW a \in Terrein(r), NEW nieuw \in Rijen,
         Laad(r, a, nieuw), UNCHANGED buitenKopie, UNCHANGED relayVars, verkeer' = verkeer,
         nieuw.status # "Ontbreekt",
         r \notin Starts => Bestaat(a),
         r \in Starts => nieuw.status = "Actief" /\ nieuw.einde = Geen /\ nieuw.aantal = 0 /\ Lopende = {},
         r \in Metingen =>
           /\ rij[a].status = "Actief" /\ nieuw.status = "Actief"
           /\ nieuw.einde = rij[a].einde /\ nieuw.aantal = rij[a].aantal + 1,
         r \in Sessiewijzigingen =>
           /\ nieuw.aantal = rij[a].aantal
           /\ ~samenloop => /\ rij[a].status \in {"Actief", "Gepauzeerd"}
                            /\ \/ nieuw.status \in {"Actief", "Gepauzeerd"} /\ nieuw.einde = rij[a].einde
                               \/ nieuw.status = "Afgerond" /\ nieuw.einde = r,
         r \in Incidentwijzigingen => nieuw.aantal = rij[a].aantal
  PROVE  VerzoekInv'
<1>1. /\ VerzoekTypeOK /\ RelayTypeOK /\ PlaatsInv /\ AantalInv /\ IncidentInv /\ OutboxInv /\ VolgordeInv
      /\ RapportInv /\ AlleenInv
      /\ r \in Verzoeken /\ r \notin aanvaard /\ a \in Aggregaten
  BY TerreinType, Kinderen DEF VerzoekInv, PlaatsInv
<1>2. /\ rij' = rij /\ meting' = meting /\ rapport' = rapport /\ gelezen' = gelezen /\ aanvaard' = aanvaard
      /\ outbox' = outbox /\ uitgegeven' = uitgegeven /\ vooraf' = vooraf
      /\ relay' = relay /\ gepubliceerd' = gepubliceerd /\ gemarkeerd' = gemarkeerd
  BY DEF buitenKopie, relayVars
<1>3. /\ kopie' \in [Verzoeken -> [id : Aggregaten \cup {Geen}, rij : Rijen]]
      /\ kopie'[r].id = a /\ kopie'[r].rij = nieuw /\ \A q \in Verzoeken \ {r} : kopie'[q] = kopie[q]
  BY <1>1 DEF Laad, VerzoekTypeOK
<1>4. /\ pc' \in [Verzoeken -> {"nieuw"} \cup Bezig \cup Eind]
      /\ pc'[r] = "geladen" /\ \A q \in Verzoeken \ {r} : pc'[q] = pc[q]
  BY <1>1, Verplaats DEF Laad, Bezig, Geladen
<1>5. /\ samenloop' \in BOOLEAN /\ (samenloop => samenloop')
      /\ ~samenloop' => \A q \in Verzoeken \ {r} :
           pc[q] \in Geladen => Doel(q, kopie[q].id) \cap Doel(r, a) = {}
  BY <1>1 DEF Laad, VerzoekTypeOK
<1>6. /\ \A b : Bestaat(b)' <=> Bestaat(b)
      /\ InVlucht' = InVlucht \cup {r} /\ r \notin InVlucht
      /\ Lopende' = Lopende
  BY <1>1, <1>2, <1>4, Kinderen DEF Bestaat, InVlucht, Lopende, Vlucht
<1>7. VerzoekTypeOK'
  BY <1>1, <1>2, <1>3, <1>4, <1>5 DEF VerzoekTypeOK
<1>8. RelayTypeOK'
  BY <1>1, <1>2 DEF RelayTypeOK
<1>9. PlaatsInv'
  <2>1. \A q \in Verzoeken :
          /\ pc'[q] \in Vlucht => q \in Wijzigers
          /\ pc'[q] \in {"bewaard", "toegevoegd"} => q \in Metingen
          /\ pc'[q] \in {"gelezen", "opgesteld"} => q \in Rapporten \cup Netwerk
          /\ pc'[q] = "opgesteld" => q \in Rapporten
          /\ pc'[q] \in {"gemeld", "gestempeld"} => q \in Melders
          /\ pc'[q] = "bewaakt" => q \in Starts \cup Metingen \cup Netwerk
    BY <1>1, <1>4 DEF PlaatsInv
  <2>2. \A q \in Wijzigers :
          /\ q \in InVlucht' \/ q \in aanvaard' => kopie'[q].id \in Terrein(q)
          /\ pc'[q] \in {"nieuw", "bewaakt"} \cup Vlucht => q \notin aanvaard'
          /\ pc'[q] \in {"nieuw", "bewaakt"} => kopie'[q].id = Geen
          /\ pc'[q] \in {"bewaard", "toegevoegd", "gemeld", "gestempeld"} => q \in aanvaard'
    BY <1>1, <1>2, <1>3, <1>4, <1>6, Kinderen DEF PlaatsInv
  <2>3. \A q \in InVlucht' :
          /\ kopie'[q].rij.status # "Ontbreekt"
          /\ q \notin Starts => Bestaat(kopie'[q].id)
          /\ pc'[q] = "gevonden" => (gelezen'[q].status = "Ontbreekt" <=> q \in Starts)
    BY <1>1, <1>2, <1>3, <1>4, <1>6, Kinderen DEF PlaatsInv, InVlucht
  <2>4. \A q \in InVlucht' : q \notin Starts => Bestaat(kopie[q].id)'
    BY <1>2, <2>3 DEF Bestaat
  <2>5. \A q \in Starts : Bestaat(q)' => q \in aanvaard'
    BY <1>1, <1>2, <1>6 DEF PlaatsInv
  <2> QED BY <2>1, <2>2, <2>3, <2>4, <2>5 DEF PlaatsInv
<1>10. AantalInv'
  <2>1. nieuw.aantal <= Cardinality((aanvaard \cup {r}) \cap Metingen)
    <3>1. /\ Cardinality(aanvaard \cap Metingen) \in Nat /\ Cardinality((aanvaard \cup {r}) \cap Metingen) \in Nat
          /\ Cardinality(aanvaard \cap Metingen) <= Cardinality((aanvaard \cup {r}) \cap Metingen)
          /\ rij[a].aantal <= Cardinality(aanvaard \cap Metingen) /\ rij[a].aantal \in Nat /\ nieuw.aantal \in Nat
      BY <1>1, AantalMetingen, RijType DEF AantalInv, VerzoekTypeOK
    <3>2. CASE r \in Metingen
      <4>1. (aanvaard \cup {r}) \cap Metingen = (aanvaard \cap Metingen) \cup {r} /\ r \notin aanvaard \cap Metingen
        BY <1>1, <3>2
      <4>2. IsFiniteSet(aanvaard \cap Metingen)
        BY AantalMetingen
      <4>3. Cardinality((aanvaard \cap Metingen) \cup {r}) = Cardinality(aanvaard \cap Metingen) + 1
        BY <4>1, <4>2, FS_AddElement
      <4>4. Cardinality((aanvaard \cup {r}) \cap Metingen) = Cardinality(aanvaard \cap Metingen) + 1
        BY <4>1, <4>3
      <4>5. nieuw.aantal = rij[a].aantal + 1
        BY <3>2
      <4> QED BY <3>1, <4>4, <4>5
    <3>3. CASE r \notin Metingen
      <4>1. nieuw.aantal = 0 \/ nieuw.aantal = rij[a].aantal
        BY <3>3 DEF Wijzigers
      <4> QED BY <3>1, <4>1
    <3> QED BY <3>2, <3>3
  <2> QED BY <1>1, <1>2, <1>3, <2>1 DEF AantalInv
<1>11. IncidentInv'
  <2>1. \A m \in Metingen : pc[m] = "toegevoegd" \/ pc[m] \in {"gemeld", "gestempeld", "klaar", "mislukt", "bewaard"} => m # r
    OBVIOUS
  <2> QED BY <1>1, <1>2, <1>4, <1>6, <2>1, Kinderen DEF IncidentInv
<1>12. OutboxInv'
  <2>1. \A i \in 1 .. Len(outbox) : outbox[i] \in Verzoeken /\ outbox[i] # r
    BY <1>1 DEF OutboxInv, RelayTypeOK
  <2>2. \A q \in uitgegeven : q \in Verzoeken /\ q # r
    BY <1>1, <2>1 DEF RelayTypeOK
  <2> QED BY <1>1, <1>2, <1>4, <2>1, <2>2, Kinderen DEF OutboxInv
<1>13. VolgordeInv'
  <2> SUFFICES ASSUME NEW o \in Oplossingen, kopie'[o].id \in Metingen, ~samenloop', pc'[kopie'[o].id] # "mislukt"
               PROVE  /\ kopie'[o].id \in uitgegeven
                      /\ (\E i \in 1 .. Len(outbox) : outbox[i] = o) => Ouder(kopie'[o].id, o)
                      /\ o \in relay.rest => kopie'[o].id \in gepubliceerd \cup relay.rest
                      /\ o \in gepubliceerd => kopie'[o].id \in gepubliceerd
    BY <1>2 DEF VolgordeInv, Ouder
  <2>1. o \in Verzoeken /\ ~samenloop /\ o \notin Metingen /\ o \in Incidentwijzigingen /\ o \in Wijzigers
    BY <1>5, Kinderen, EenSoort DEF Wijzigers
  <2>2. CASE o # r
    <3>1. kopie'[o] = kopie[o] /\ pc[kopie[o].id] # "mislukt"
      BY <1>3, <1>4, <2>1, <2>2, Kinderen
    <3> QED BY <1>1, <2>1, <3>1 DEF VolgordeInv
  <2>3. CASE o = r
    <3>1. kopie'[o].id = a /\ a \in Metingen /\ Bestaat(a) /\ a \in Verzoeken /\ a # r
      BY <1>3, <2>1, <2>3, Kinderen, EenSoort
    <3>2. pc[a] \in {"gemeld", "gestempeld", "klaar", "mislukt"} /\ pc'[a] = pc[a]
      BY <1>1, <1>4, <3>1 DEF IncidentInv
    <3>3. pc[a] \notin Geladen
      <4>1. a \in Doel(a, kopie[a].id) /\ a \in Doel(r, a)
        BY <2>1, <2>3, <3>1, EenSoort, Kinderen DEF Doel
      <4> QED BY <1>5, <3>1, <4>1
    <3>4. pc[a] = "klaar" /\ a \in Melders
      BY <3>1, <3>2, <3>3 DEF Geladen, Melders
    <3>5. a \in uitgegeven
      BY <1>1, <3>4 DEF OutboxInv
    <3>6. /\ \A i \in 1 .. Len(outbox) : outbox[i] # r
          /\ r \notin uitgegeven
      BY <1>1 DEF OutboxInv
    <3>7. r \notin gepubliceerd /\ r \notin relay.rest
      BY <1>1, <3>6 DEF RelayTypeOK
    <3> QED BY <2>3, <3>1, <3>5, <3>6, <3>7
  <2> QED BY <2>2, <2>3
<1>14. RapportInv'
  <2>1. r \notin Rapporten /\ r \notin Netwerk
    BY EenSoort DEF Wijzigers
  <2>2. \A q \in Rapporten \cup Netwerk : pc'[q] = pc[q]
    BY <1>4, <2>1, Kinderen
  <2>3. \A q \in Rapporten : Volledig(q)' <=> Volledig(q)
    BY <1>2 DEF Volledig
  <2> QED BY <1>1, <1>2, <1>6, <2>2, <2>3 DEF RapportInv
<1>15. AlleenInv'
  <2>1. CASE r \in Incidentwijzigingen
    <3>1. r \notin Sessieschrijvers
      BY <2>1, EenSoort DEF Sessieschrijvers
    <3>2. Sessieschrijvers \subseteq Verzoeken
      BY Kinderen DEF Sessieschrijvers
    <3> QED BY <1>2, <1>3, <1>4, <1>5, <3>1, <3>2, AlleenStil
  <2>2. CASE r \in Sessieschrijvers
    <3> SUFFICES ASSUME ~samenloop' PROVE AlleenInv'
      BY DEF AlleenInv
    <3> DEFINE Wie == InVlucht \cap Sessieschrijvers
    <3>1. /\ ~samenloop /\ a \in Sessies
          /\ \A q \in Wie : KopieKlopt(q) /\ (pc[q] = "gevonden" => gelezen[q] = rij[kopie[q].id])
          /\ \A s, t \in Lopende : s = t
          /\ \A s \in Sessies : SessieInv(s)
      BY <1>1, <1>5, <2>2, TerreinType DEF AlleenInv
    <3>2. Sessieschrijvers \subseteq Verzoeken /\ \A q \in Sessieschrijvers : q \in Starts \cup Sessiewijzigingen \cup Metingen
      BY Kinderen DEF Sessieschrijvers
    <3>3. \A q \in Wie : q \notin Starts => kopie[q].id \in Lopende
      <4> SUFFICES ASSUME NEW q \in Wie, q \notin Starts PROVE kopie[q].id \in Lopende
        OBVIOUS
      <4>1. rij[kopie[q].id].status \in {"Actief", "Gepauzeerd"}
        BY <3>1, <3>2 DEF KopieKlopt
      <4>2. kopie[q].id \in Sessies
        BY <1>1, <3>2, TerreinType DEF PlaatsInv, InVlucht
      <4> QED BY <4>1, <4>2 DEF Lopende
    <3>4. r \notin Starts => a \in Lopende
      BY <2>2, <3>1, <3>2 DEF Lopende
    <3>5. Wie = {}
      <4> SUFFICES ASSUME NEW q \in Wie PROVE FALSE
        OBVIOUS
      <4>1. q # r /\ q \in Verzoeken /\ pc[q] \in Geladen
        BY <1>6, <3>2 DEF InVlucht, Vlucht, Geladen
      <4>2. Doel(q, kopie[q].id) \cap Doel(r, a) = {}
        BY <1>5, <4>1
      <4>3. CASE q \in Starts
        <5>1. Lopende = {}
          BY <3>1, <4>3 DEF KopieKlopt
        <5>2. r \in Starts
          BY <3>4, <5>1
        <5> QED BY <4>2, <4>3, <5>2 DEF Doel
      <4>4. CASE q \notin Starts
        <5>1. kopie[q].id \in Lopende
          BY <3>3, <4>4
        <5>2. r \notin Starts
          BY <5>1
        <5>3. kopie[q].id = a
          BY <3>1, <3>4, <5>1, <5>2
        <5> QED BY <4>2, <4>4, <5>2, <5>3 DEF Doel
      <4> QED BY <4>3, <4>4
    <3>6. InVlucht' \cap Sessieschrijvers = {r}
      BY <1>6, <2>2, <3>5
    <3>7. KopieKlopt(r)'
      <4>1. r \in Starts => ~Bestaat(r)
        BY <1>1 DEF PlaatsInv
      <4>2. ~samenloop
        BY <3>1
      <4> QED BY <1>2, <1>3, <1>6, <4>1, <4>2 DEF KopieKlopt
    <3>8. \A s \in Sessies : SessieInv(s)'
      <4> SUFFICES ASSUME NEW s \in Sessies PROVE SessieInv(s)'
        OBVIOUS
      <4>1. {m \in aanvaard \cap Metingen : kopie[m].id = s}' = {m \in aanvaard \cap Metingen : kopie[m].id = s}
        BY <1>1, <1>2, <1>3, Kinderen
      <4>2. SessieInv(s)
        BY <3>1
      <4> QED BY <1>2, <1>6, <4>1, <4>2 DEF SessieInv
    <3>9. pc'[r] # "gevonden"
      BY <1>4
    <3> QED BY <1>6, <3>1, <3>6, <3>7, <3>8, <3>9 DEF AlleenInv
  <2> QED BY <2>1, <2>2 DEF Wijzigers, Sessieschrijvers
<1> QED
  BY <1>7, <1>8, <1>9, <1>10, <1>11, <1>12, <1>13, <1>14, <1>15 DEF VerzoekInv

\* A request that is let in or refused.
LEMMA ToegangHoudt ==
  ASSUME VerzoekInv, NEW r \in Verzoeken, UNCHANGED <<kopie, samenloop>>, UNCHANGED buitenKopie,
         UNCHANGED relayVars, verkeer' = verkeer,
         \/ pc[r] \in {"nieuw", "bewaakt"} /\ NaarStap(r, "afgewezen")
         \/ pc[r] = "nieuw" /\ r \in Starts \cup Metingen /\ NaarStap(r, "bewaakt")
  PROVE  VerzoekInv'
<1>1. PICK plaats \in {"afgewezen", "bewaakt"} :
        /\ NaarStap(r, plaats)
        /\ plaats = "afgewezen" => pc[r] \in {"nieuw", "bewaakt"}
        /\ plaats = "bewaakt" => pc[r] = "nieuw" /\ r \in Starts \cup Metingen
  OBVIOUS
<1>2. VerzoekTypeOK /\ plaats \in {"nieuw"} \cup Bezig \cup Eind
  BY DEF VerzoekInv, Bezig, Eind
<1>3. /\ pc' \in [Verzoeken -> {"nieuw"} \cup Bezig \cup Eind]
      /\ pc'[r] = plaats /\ \A q \in Verzoeken \ {r} : pc'[q] = pc[q]
  BY <1>1, <1>2, Verplaats
<1>4. /\ rij' = rij /\ meting' = meting /\ rapport' = rapport /\ gelezen' = gelezen /\ aanvaard' = aanvaard
      /\ outbox' = outbox /\ uitgegeven' = uitgegeven /\ vooraf' = vooraf
      /\ relay' = relay /\ gepubliceerd' = gepubliceerd /\ gemarkeerd' = gemarkeerd
  BY DEF buitenKopie, relayVars
<1>5. \A q \in Verzoeken :
        \/ pc'[q] = pc[q]
        \/ pc[q] \in {"nieuw", "bewaakt"} /\ pc'[q] = "afgewezen"
        \/ pc[q] = "nieuw" /\ pc'[q] = "bewaakt" /\ q \in Starts \cup Metingen
  BY <1>1, <1>3
<1> QED BY <1>3, <1>4, <1>5, VerzetHoudt

LEMMA StartSessieHoudt ==
  ASSUME VerzoekInv, NEW r \in Starts, StartSessie(r), UNCHANGED relayVars, verkeer' = verkeer
  PROVE  VerzoekInv'
<1>1. pc[r] = "bewaakt" /\ UNCHANGED buitenKopie /\ r \in Verzoeken
  BY Kinderen DEF StartSessie
<1>2. CASE WijsAf(r)
  <2>1. NaarStap(r, "afgewezen") /\ UNCHANGED <<kopie, samenloop>>
    BY <1>2 DEF WijsAf
  <2> QED BY <1>1, <2>1, ToegangHoudt
<1>3. CASE Lopende = {} /\ Laad(r, r, NieuweSessie)
  <2>1. r \in Wijzigers /\ r \in Terrein(r)
    BY TerreinType DEF Wijzigers
  <2>2. r \notin Metingen /\ r \notin Sessiewijzigingen /\ r \notin Incidentwijzigingen
    BY EenSoort
  <2>3. NieuweSessie \in Rijen /\ NieuweSessie.status = "Actief" /\ NieuweSessie.einde = Geen /\ NieuweSessie.aantal = 0
    BY BeginrijType
  <2> QED BY <1>1, <1>3, <2>1, <2>2, <2>3, LaadHoudt
<1> QED BY <1>2, <1>3 DEF StartSessie

LEMMA MeetHoudt ==
  ASSUME VerzoekInv, NEW m \in Metingen, Meet(m), UNCHANGED relayVars, verkeer' = verkeer
  PROVE  VerzoekInv'
<1>1. pc[m] = "bewaakt" /\ UNCHANGED buitenKopie /\ m \in Verzoeken
  BY Kinderen DEF Meet
<1>2. CASE WijsAf(m)
  <2>1. NaarStap(m, "afgewezen") /\ UNCHANGED <<kopie, samenloop>>
    BY <1>2 DEF WijsAf
  <2> QED BY <1>1, <2>1, ToegangHoudt
<1>3. CASE \E s \in Lopende : rij[s].status = "Actief" /\ Laad(m, s, [rij[s] EXCEPT !.aantal = @ + 1])
  <2>1. PICK s \in Lopende : rij[s].status = "Actief" /\ Laad(m, s, [rij[s] EXCEPT !.aantal = @ + 1])
    BY <1>3
  <2>2. s \in Sessies /\ s \in Aggregaten /\ m \in Wijzigers
    BY Kinderen DEF Lopende, Wijzigers
  <2>3. s \in Terrein(m)
    BY <2>2, EenSoort DEF Terrein
  <2>4. rij[s] \in Rijen
    BY <2>2 DEF VerzoekInv, VerzoekTypeOK
  <2> DEFINE nieuw == [rij[s] EXCEPT !.aantal = @ + 1]
  <2>5. rij[s].aantal + 1 \in 0 .. Cardinality(Metingen)
    <3>1. m \notin aanvaard /\ rij[s].aantal <= Cardinality(aanvaard \cap Metingen)
      BY <1>1, <2>2 DEF VerzoekInv, PlaatsInv, AantalInv
    <3>2. (aanvaard \cup {m}) \cap Metingen = (aanvaard \cap Metingen) \cup {m} /\ m \notin aanvaard \cap Metingen
      BY <3>1
    <3>3. IsFiniteSet(aanvaard \cap Metingen)
      BY AantalMetingen
    <3>4. Cardinality((aanvaard \cap Metingen) \cup {m}) = Cardinality(aanvaard \cap Metingen) + 1
      BY <3>2, <3>3, FS_AddElement
    <3>5. Cardinality((aanvaard \cup {m}) \cap Metingen) = Cardinality(aanvaard \cap Metingen) + 1
      BY <3>2, <3>4
    <3>6. /\ Cardinality(aanvaard \cap Metingen) \in Nat
          /\ Cardinality((aanvaard \cup {m}) \cap Metingen) <= Cardinality(Metingen)
          /\ Cardinality(Metingen) \in Nat /\ rij[s].aantal \in Nat
      BY <2>4, AantalMetingen, RijType, MonitoringAssumption, FS_CardinalityType
    <3> QED BY <3>1, <3>5, <3>6
  <2>6. /\ nieuw \in Rijen /\ nieuw.status = rij[s].status /\ nieuw.einde = rij[s].einde
        /\ nieuw.aantal = rij[s].aantal + 1
    BY <2>4, <2>5 DEF Rijen
  <2>7. m \notin Starts /\ m \notin Sessiewijzigingen /\ m \notin Incidentwijzigingen
    BY EenSoort
  <2>8. Bestaat(s)
    BY <2>1 DEF Bestaat
  <2>9. Laad(m, s, nieuw)
    BY <2>1
  <2> HIDE DEF nieuw
  <2> QED BY <1>1, <2>1, <2>2, <2>3, <2>6, <2>7, <2>8, <2>9, LaadHoudt
<1> QED BY <1>2, <1>3 DEF Meet

LEMMA WijzigHoudt ==
  ASSUME VerzoekInv, NEW r \in Sessiewijzigingen \cup Incidentwijzigingen, Wijzig(r),
         UNCHANGED relayVars, verkeer' = verkeer
  PROVE  VerzoekInv'
<1>1. pc[r] = "nieuw" /\ UNCHANGED buitenKopie /\ r \in Verzoeken /\ r \in Wijzigers
  BY Kinderen DEF Wijzig, Wijzigers
<1>2. CASE WijsAf(r)
  <2>1. NaarStap(r, "afgewezen") /\ UNCHANGED <<kopie, samenloop>>
    BY <1>2 DEF WijsAf
  <2> QED BY <1>1, <2>1, ToegangHoudt
<1>3. ASSUME NEW a \in IF r \in Sessiewijzigingen THEN Sessies ELSE Incidenten,
             Bestaat(a), Toelaatbaar(r, rij[a].status), Laad(r, a, Gewijzigd(r, rij[a]))
      PROVE  VerzoekInv'
  <2> DEFINE nieuw == Gewijzigd(r, rij[a])
  <2>1. r \notin Starts /\ r \notin Metingen /\ (r \in Sessiewijzigingen => r \notin Incidentwijzigingen)
    BY EenSoort
  <2>2. a \in Terrein(r) /\ a \in Aggregaten /\ (r \in Sessiewijzigingen => a \in Sessies)
    BY <2>1, Kinderen DEF Terrein
  <2>3. rij[a] \in Rijen
    BY <2>2 DEF VerzoekInv, VerzoekTypeOK
  <2>4. CASE r \in Sessiewijzigingen
    <3>1. r \notin Behandelingen /\ r \notin Oplossingen
      BY <2>1, <2>4, Kinderen
    <3>2. /\ nieuw \in Rijen /\ nieuw.aantal = rij[a].aantal
          /\ \/ nieuw.status \in {"Actief", "Gepauzeerd"} /\ nieuw.einde = rij[a].einde
             \/ nieuw.status = "Afgerond" /\ nieuw.einde = r
          /\ rij[a].status \in {"Actief", "Gepauzeerd"} \/ rij[a].status # "Afgerond"
      <4>1. CASE r \in Pauzes
        <5>1. nieuw = [rij[a] EXCEPT !.status = "Gepauzeerd"] /\ rij[a].status = "Actief"
          BY <1>3, <3>1, <4>1, MonitoringAssumption DEF Gewijzigd, Toelaatbaar
        <5> QED BY <2>3, <5>1 DEF Rijen
      <4>2. CASE r \in Hervattingen
        <5>0. r \notin Pauzes
          BY <4>2, MonitoringAssumption
        <5>1. nieuw = [rij[a] EXCEPT !.status = "Actief"] /\ rij[a].status = "Gepauzeerd"
          BY <1>3, <3>1, <4>2, <5>0, MonitoringAssumption DEF Gewijzigd, Toelaatbaar
        <5> QED BY <2>3, <5>1 DEF Rijen
      <4>3. CASE r \in Afrondingen
        <5>0. r \notin Pauzes /\ r \notin Hervattingen
          BY <4>3, MonitoringAssumption
        <5>1. nieuw = [rij[a] EXCEPT !.status = "Afgerond", !.einde = r] /\ rij[a].status # "Afgerond"
          BY <1>3, <3>1, <4>3, <5>0 DEF Gewijzigd, Toelaatbaar
        <5> QED BY <2>3, <4>3, <5>1 DEF Rijen
      <4> QED BY <2>4, <4>1, <4>2, <4>3 DEF Sessiewijzigingen
    <3>3. ~samenloop => rij[a].status \in {"Actief", "Gepauzeerd"}
      <4> SUFFICES ASSUME ~samenloop PROVE rij[a].status \in {"Actief", "Gepauzeerd"}
        OBVIOUS
      <4>1. SessieInv(a)
        BY <2>2, <2>4 DEF VerzoekInv, AlleenInv
      <4> QED BY <1>3, <3>2, <4>1 DEF SessieInv, Bestaat
    <3>4. nieuw.status # "Ontbreekt"
      BY <3>2
    <3>5. Laad(r, a, nieuw)
      BY <1>3
    <3>6. ~samenloop => /\ rij[a].status \in {"Actief", "Gepauzeerd"}
                        /\ \/ nieuw.status \in {"Actief", "Gepauzeerd"} /\ nieuw.einde = rij[a].einde
                           \/ nieuw.status = "Afgerond" /\ nieuw.einde = r
      BY <3>2, <3>3
    <3> HIDE DEF nieuw
    <3> QED BY <1>1, <1>3, <2>1, <2>2, <2>4, <3>2, <3>4, <3>5, <3>6, LaadHoudt
  <2>5. CASE r \in Incidentwijzigingen
    <3>1. r \notin Pauzes /\ r \notin Hervattingen /\ r \notin Afrondingen /\ r \notin Sessiewijzigingen
      BY <2>5, EenSoort DEF Sessiewijzigingen
    <3>2. nieuw \in Rijen /\ nieuw.aantal = rij[a].aantal /\ nieuw.status # "Ontbreekt"
      <4>1. CASE r \in Behandelingen
        <5>1. nieuw = [rij[a] EXCEPT !.status = "InBehandeling"]
          BY <3>1, <4>1, MonitoringAssumption DEF Gewijzigd
        <5> QED BY <2>3, <5>1 DEF Rijen
      <4>2. CASE r \in Oplossingen
        <5>0. r \notin Behandelingen
          BY <4>2, MonitoringAssumption
        <5>1. nieuw = [rij[a] EXCEPT !.status = "Opgelost", !.einde = r]
          BY <3>1, <4>2, <5>0 DEF Gewijzigd
        <5> QED BY <2>3, <4>2, <5>1 DEF Rijen
      <4> QED BY <2>5, <4>1, <4>2 DEF Incidentwijzigingen
    <3>3. Laad(r, a, nieuw)
      BY <1>3
    <3> HIDE DEF nieuw
    <3> QED BY <1>1, <1>3, <2>1, <2>2, <2>5, <3>1, <3>2, <3>3, LaadHoudt
  <2> QED BY <2>4, <2>5
<1> QED BY <1>2, <1>3 DEF Wijzig

-----------------------------------------------------------------------------
(* Saving *)

LEMMA VindHoudt ==
  ASSUME VerzoekInv, NEW r \in Verzoeken, Vind(r), UNCHANGED relayVars, verkeer' = verkeer
  PROVE  VerzoekInv'
<1> DEFINE a == kopie[r].id
<1>1. /\ VerzoekTypeOK /\ RelayTypeOK /\ PlaatsInv /\ AantalInv /\ IncidentInv /\ OutboxInv /\ VolgordeInv
      /\ RapportInv /\ AlleenInv
      /\ pc[r] = "geladen" /\ r \in Wijzigers /\ r \in InVlucht /\ a \in Terrein(r) /\ a \in Aggregaten
  BY TerreinType, Kinderen DEF VerzoekInv, PlaatsInv, Vind, InVlucht, Vlucht
<1>2. /\ rij' = rij /\ meting' = meting /\ rapport' = rapport /\ kopie' = kopie /\ aanvaard' = aanvaard
      /\ outbox' = outbox /\ uitgegeven' = uitgegeven /\ vooraf' = vooraf /\ samenloop' = samenloop
      /\ relay' = relay /\ gepubliceerd' = gepubliceerd /\ gemarkeerd' = gemarkeerd
  BY DEF Vind, buitenRij, relayVars
<1>3. gelezen' \in [Verzoeken -> Rijen] /\ gelezen'[r] = rij[a] /\ \A q \in Verzoeken \ {r} : gelezen'[q] = gelezen[q]
  <2>1. rij[a] \in Rijen
    BY <1>1 DEF VerzoekTypeOK
  <2> HIDE DEF a
  <2> QED BY <1>1, <2>1 DEF Vind, VerzoekTypeOK, a
<1>4. /\ pc' \in [Verzoeken -> {"nieuw"} \cup Bezig \cup Eind]
      /\ pc'[r] = "gevonden" /\ \A q \in Verzoeken \ {r} : pc'[q] = pc[q]
  BY <1>1, Verplaats DEF Vind, Bezig, Geladen
<1>5. /\ \A b : Bestaat(b)' <=> Bestaat(b)
      /\ InVlucht' = InVlucht /\ Lopende' = Lopende
  BY <1>1, <1>2, <1>4, Kinderen DEF Bestaat, InVlucht, Lopende, Vlucht
<1>6. VerzoekTypeOK'
  BY <1>1, <1>2, <1>3, <1>4 DEF VerzoekTypeOK
<1>7. RelayTypeOK'
  BY <1>1, <1>2 DEF RelayTypeOK
<1>8. PlaatsInv'
  <2>1. \A q \in Verzoeken :
          /\ pc'[q] \in Vlucht => q \in Wijzigers
          /\ pc'[q] \in {"bewaard", "toegevoegd"} => q \in Metingen
          /\ pc'[q] \in {"gelezen", "opgesteld"} => q \in Rapporten \cup Netwerk
          /\ pc'[q] = "opgesteld" => q \in Rapporten
          /\ pc'[q] \in {"gemeld", "gestempeld"} => q \in Melders
          /\ pc'[q] = "bewaakt" => q \in Starts \cup Metingen \cup Netwerk
    BY <1>1, <1>4 DEF PlaatsInv
  <2>2. \A q \in Wijzigers :
          /\ q \in InVlucht' \/ q \in aanvaard' => kopie'[q].id \in Terrein(q)
          /\ pc'[q] \in {"nieuw", "bewaakt"} \cup Vlucht => q \notin aanvaard'
          /\ pc'[q] \in {"nieuw", "bewaakt"} => kopie'[q].id = Geen
          /\ pc'[q] \in {"bewaard", "toegevoegd", "gemeld", "gestempeld"} => q \in aanvaard'
    BY <1>1, <1>2, <1>4, <1>5, Kinderen DEF PlaatsInv, Vlucht
  <2>3. ~Bestaat(a) <=> r \in Starts
    <3>1. r \in Starts => a = r /\ r \notin aanvaard
      BY <1>1, TerreinType DEF PlaatsInv, InVlucht
    <3> QED BY <1>1, <3>1 DEF PlaatsInv
  <2>4. \A q \in InVlucht' :
          /\ kopie'[q].rij.status # "Ontbreekt"
          /\ q \notin Starts => Bestaat(kopie[q].id)'
          /\ pc'[q] = "gevonden" => (gelezen'[q].status = "Ontbreekt" <=> q \in Starts)
    <3> SUFFICES ASSUME NEW q \in InVlucht'
                 PROVE  /\ kopie'[q].rij.status # "Ontbreekt"
                        /\ q \notin Starts => Bestaat(kopie[q].id)'
                        /\ pc'[q] = "gevonden" => (gelezen'[q].status = "Ontbreekt" <=> q \in Starts)
      OBVIOUS
    <3>1. q \in Verzoeken /\ q \in InVlucht
      BY <1>5, Kinderen DEF InVlucht
    <3>2. kopie'[q].rij.status # "Ontbreekt" /\ (q \notin Starts => Bestaat(kopie[q].id)')
      BY <1>1, <1>2, <3>1 DEF PlaatsInv, Bestaat
    <3>3. CASE q = r
      BY <1>3, <2>3, <3>2, <3>3 DEF Bestaat
    <3>4. CASE q # r
      BY <1>1, <1>3, <1>4, <3>1, <3>2, <3>4 DEF PlaatsInv
    <3> QED BY <3>3, <3>4
  <2>5. \A q \in Starts : Bestaat(q)' => q \in aanvaard'
    BY <1>1, <1>2, <1>5 DEF PlaatsInv
  <2> QED BY <2>1, <2>2, <2>4, <2>5 DEF PlaatsInv
<1>9. AantalInv'
  BY <1>1, <1>2 DEF AantalInv
<1>10. IncidentInv'
  BY <1>1, <1>2, <1>4, <1>5, Kinderen DEF IncidentInv
<1>11. OutboxInv'
  <2>1. \A i \in 1 .. Len(outbox) : outbox[i] \in Verzoeken /\ outbox[i] # r
    BY <1>1 DEF OutboxInv, RelayTypeOK
  <2>2. \A q \in uitgegeven : q \in Verzoeken /\ q # r
    BY <1>1, <2>1 DEF RelayTypeOK
  <2> QED BY <1>1, <1>2, <1>4, <2>1, <2>2, Kinderen DEF OutboxInv
<1>12. VolgordeInv'
  BY <1>1, <1>2, <1>4, Kinderen, VolgordeStil
<1>13. RapportInv'
  <2>1. r \notin Rapporten /\ r \notin Netwerk
    BY <1>1, EenSoort DEF Wijzigers
  <2>2. \A q \in Rapporten \cup Netwerk : pc'[q] = pc[q]
    BY <1>4, <2>1, Kinderen
  <2>3. \A q \in Rapporten : Volledig(q)' <=> Volledig(q)
    BY <1>2 DEF Volledig
  <2> QED BY <1>1, <1>2, <1>5, <2>2, <2>3 DEF RapportInv
<1>14. AlleenInv'
  <2> SUFFICES ASSUME ~samenloop PROVE AlleenInv'
    BY <1>2 DEF AlleenInv
  <2>1. \A q \in Sessieschrijvers : KopieKlopt(q)' <=> KopieKlopt(q)
    BY <1>2, <1>5 DEF KopieKlopt
  <2>2. \A q \in InVlucht \cap Sessieschrijvers : pc'[q] = "gevonden" => gelezen'[q] = rij'[kopie'[q].id]
    <3> SUFFICES ASSUME NEW q \in InVlucht \cap Sessieschrijvers, pc'[q] = "gevonden"
                 PROVE  gelezen'[q] = rij'[kopie'[q].id]
      OBVIOUS
    <3>1. q \in Verzoeken
      BY Kinderen DEF InVlucht
    <3>2. CASE q = r
      BY <1>2, <1>3, <3>2
    <3>3. CASE q # r
      BY <1>1, <1>2, <1>3, <1>4, <3>1, <3>3 DEF AlleenInv
    <3> QED BY <3>2, <3>3
  <2>3. \A s \in Sessies : SessieInv(s)'
    <3> SUFFICES ASSUME NEW s \in Sessies PROVE SessieInv(s)'
      OBVIOUS
    <3>1. {m \in aanvaard \cap Metingen : kopie[m].id = s}' = {m \in aanvaard \cap Metingen : kopie[m].id = s}
      BY <1>2
    <3>2. SessieInv(s)
      BY <1>1 DEF AlleenInv
    <3> QED BY <1>2, <1>5, <3>1, <3>2 DEF SessieInv
  <2> QED BY <1>1, <1>2, <1>5, <2>1, <2>2, <2>3 DEF AlleenInv
<1> QED
  BY <1>6, <1>7, <1>8, <1>9, <1>10, <1>11, <1>12, <1>13, <1>14 DEF VerzoekInv

\* What a save makes of the row.
LEMMA SamengevoegdKlopt ==
  ASSUME VerzoekInv, NEW r \in InVlucht, pc[r] = "gevonden"
  PROVE  LET a == kopie[r].id
             nieuw == Samengevoegd(r)
         IN  /\ nieuw \in Rijen /\ nieuw.status # "Ontbreekt"
             /\ nieuw.aantal <= kopie[r].rij.aantal \/ nieuw.aantal = rij[a].aantal
             /\ ~samenloop /\ r \in Sessieschrijvers =>
                  /\ nieuw.status = kopie[r].rij.status /\ nieuw.einde = kopie[r].rij.einde
                  /\ nieuw.aantal = kopie[r].rij.aantal
<1> DEFINE a == kopie[r].id
           k == kopie[r].rij
           g == gelezen[r]
           stand == rij[a]
           nieuw == Samengevoegd(r)
<1>1. /\ r \in Wijzigers /\ r \in Verzoeken /\ a \in Aggregaten /\ k \in Rijen /\ g \in Rijen /\ stand \in Rijen
  <2>1. r \in Wijzigers /\ r \in Verzoeken
    BY Kinderen DEF InVlucht
  <2>2. a \in Aggregaten
    BY <2>1, TerreinType DEF VerzoekInv, PlaatsInv
  <2> QED BY <2>1, <2>2 DEF VerzoekInv, VerzoekTypeOK
<1>2. /\ k.status # "Ontbreekt" /\ (g.status = "Ontbreekt" <=> r \in Starts)
      /\ r \notin Starts => stand.status # "Ontbreekt"
  BY DEF VerzoekInv, PlaatsInv, Bestaat
<1>3. ~samenloop /\ r \in Sessieschrijvers => g = stand
  BY DEF VerzoekInv, AlleenInv
<1>4. CASE g.status = "Ontbreekt"
  <2>1. nieuw = k
    BY <1>4 DEF Samengevoegd
  <2>2. k.aantal \in Nat
    BY <1>1, RijType
  <2> QED BY <1>1, <1>2, <2>1, <2>2
<1>5. CASE g.status # "Ontbreekt"
  <2> DEFINE status == IF k.status # g.status THEN k.status ELSE stand.status
             einde == IF k.einde # g.einde THEN k.einde ELSE stand.einde
             aantal == IF k.aantal # g.aantal THEN k.aantal ELSE stand.aantal
  <2>1. nieuw = [status |-> status, einde |-> einde, aantal |-> aantal]
    BY <1>5 DEF Samengevoegd
  <2>2. /\ status \in {"Ontbreekt", "Actief", "Gepauzeerd", "Afgerond", "Nieuw", "InBehandeling", "Opgelost"}
        /\ einde \in Afrondingen \cup Oplossingen \cup {Geen} /\ aantal \in 0 .. Cardinality(Metingen)
        /\ k.aantal \in Nat
    <3> HIDE DEF k, g, stand
    <3> QED BY <1>1, RijType
  <2>3. nieuw.status = status /\ nieuw.einde = einde /\ nieuw.aantal = aantal
    BY <2>1
  <2>4. nieuw \in Rijen
    <3> HIDE DEF status, einde, aantal, nieuw
    <3> QED BY <2>1, <2>2, RijIs
  <2>5. status # "Ontbreekt" /\ (aantal <= k.aantal \/ aantal = stand.aantal)
    BY <1>2, <1>5, <2>2
  <2>6. g = stand => status = k.status /\ einde = k.einde /\ aantal = k.aantal
    OBVIOUS
  <2> HIDE DEF status, einde, aantal, nieuw
  <2> QED BY <1>3, <2>3, <2>4, <2>5, <2>6 DEF nieuw
<1> QED BY <1>4, <1>5

\* A save takes the request out of flight.
LEMMA SchrijfHoudt ==
  ASSUME VerzoekInv, NEW r \in Verzoeken, Schrijf(r), UNCHANGED relayVars, verkeer' = verkeer
  PROVE  VerzoekInv'
<1> DEFINE a == kopie[r].id
           nieuw == Samengevoegd(r)
<1>1. /\ VerzoekTypeOK /\ RelayTypeOK /\ PlaatsInv /\ AantalInv /\ IncidentInv /\ OutboxInv /\ VolgordeInv
      /\ RapportInv /\ AlleenInv
      /\ pc[r] = "gevonden" /\ r \in Wijzigers /\ r \in InVlucht /\ r \notin aanvaard
      /\ a \in Terrein(r) /\ a \in Aggregaten
  BY TerreinType, Kinderen DEF VerzoekInv, PlaatsInv, Schrijf, InVlucht, Vlucht
<1>2. /\ meting' = meting /\ rapport' = rapport /\ aanvaard' = aanvaard \cup {r}
      /\ outbox' = outbox /\ uitgegeven' = uitgegeven /\ vooraf' = vooraf /\ samenloop' = samenloop
      /\ relay' = relay /\ gepubliceerd' = gepubliceerd /\ gemarkeerd' = gemarkeerd
  BY DEF Schrijf, buitenRij, relayVars
<1>3. /\ nieuw \in Rijen /\ nieuw.status # "Ontbreekt"
      /\ nieuw.aantal <= kopie[r].rij.aantal \/ nieuw.aantal = rij[a].aantal
      /\ ~samenloop /\ r \in Sessieschrijvers =>
           /\ nieuw.status = kopie[r].rij.status /\ nieuw.einde = kopie[r].rij.einde
           /\ nieuw.aantal = kopie[r].rij.aantal
  BY <1>1, SamengevoegdKlopt
<1> HIDE DEF nieuw
<1>4. rij' \in [Aggregaten -> Rijen] /\ rij'[a] = nieuw /\ \A b \in Aggregaten \ {a} : rij'[b] = rij[b]
  <2>1. rij' = [rij EXCEPT ![a] = nieuw]
    BY DEF Schrijf, nieuw
  <2> HIDE DEF a
  <2> QED BY <1>1, <1>3, <2>1 DEF VerzoekTypeOK
<1>5. /\ kopie' \in [Verzoeken -> [id : Aggregaten \cup {Geen}, rij : Rijen]]
      /\ \A q \in Verzoeken : kopie'[q].id = kopie[q].id
      /\ kopie'[r].rij = Afwezig /\ \A q \in Verzoeken \ {r} : kopie'[q] = kopie[q]
  BY <1>1, BeginrijType DEF Schrijf, VerzoekTypeOK
<1>6. gelezen' \in [Verzoeken -> Rijen] /\ \A q \in Verzoeken \ {r} : gelezen'[q] = gelezen[q]
  BY <1>1, BeginrijType DEF Schrijf, VerzoekTypeOK
<1>7. /\ pc' \in [Verzoeken -> {"nieuw"} \cup Bezig \cup Eind]
      /\ pc'[r] = NaBewaren(r) /\ \A q \in Verzoeken \ {r} : pc'[q] = pc[q]
      /\ pc'[r] \in {"bewaard", "gemeld", "klaar"}
  <2>1. NaBewaren(r) \in {"bewaard", "gemeld", "klaar"}
    BY DEF NaBewaren
  <2>2. NaBewaren(r) \in {"nieuw"} \cup Bezig \cup Eind /\ NaarStap(r, NaBewaren(r))
    BY <2>1 DEF Bezig, Geladen, Eind, Schrijf
  <2> QED BY <1>1, <2>1, <2>2, Verplaats
<1>8. /\ r \in Metingen => pc'[r] = "bewaard"
      /\ r \in Oplossingen => pc'[r] = "gemeld"
      /\ r \notin Metingen /\ r \notin Oplossingen => pc'[r] = "klaar"
  BY <1>7, EenSoort, Kinderen DEF NaBewaren
<1>9. /\ \A b \in Aggregaten : Bestaat(b)' <=> (Bestaat(b) \/ b = a)
      /\ InVlucht' = InVlucht \ {r}
      /\ r \notin Starts => Bestaat(a)
  <2>1. \A b \in Aggregaten : Bestaat(b)' <=> (Bestaat(b) \/ b = a)
    BY <1>3, <1>4 DEF Bestaat
  <2>2. InVlucht' = InVlucht \ {r}
    BY <1>7, Kinderen DEF InVlucht, Vlucht
  <2> QED BY <1>1, <2>1, <2>2 DEF PlaatsInv
<1>10. \A m \in Metingen : Bestaat(m)' <=> Bestaat(m)
  <2>1. CASE r \in Starts
    BY <1>1, <1>9, <2>1, TerreinType, EenSoort, Kinderen
  <2>2. CASE r \notin Starts
    BY <1>9, <2>2, Kinderen
  <2> QED BY <2>1, <2>2
<1>11. VerzoekTypeOK'
  BY <1>1, <1>2, <1>4, <1>5, <1>6, <1>7 DEF VerzoekTypeOK
<1>12. RelayTypeOK'
  BY <1>1, <1>2 DEF RelayTypeOK
<1>13. PlaatsInv'
  <2>1. \A q \in Verzoeken :
          /\ pc'[q] \in Vlucht => q \in Wijzigers
          /\ pc'[q] \in {"bewaard", "toegevoegd"} => q \in Metingen
          /\ pc'[q] \in {"gelezen", "opgesteld"} => q \in Rapporten \cup Netwerk
          /\ pc'[q] = "opgesteld" => q \in Rapporten
          /\ pc'[q] \in {"gemeld", "gestempeld"} => q \in Melders
          /\ pc'[q] = "bewaakt" => q \in Starts \cup Metingen \cup Netwerk
    BY <1>1, <1>7, <1>8 DEF PlaatsInv, Melders, Vlucht
  <2>2. \A q \in Wijzigers :
          /\ q \in InVlucht' \/ q \in aanvaard' => kopie'[q].id \in Terrein(q)
          /\ pc'[q] \in {"nieuw", "bewaakt"} \cup Vlucht => q \notin aanvaard'
          /\ pc'[q] \in {"nieuw", "bewaakt"} => kopie'[q].id = Geen
          /\ pc'[q] \in {"bewaard", "toegevoegd", "gemeld", "gestempeld"} => q \in aanvaard'
    BY <1>1, <1>2, <1>5, <1>7, <1>9, Kinderen DEF PlaatsInv, Vlucht
  <2>3. \A q \in InVlucht' :
          /\ kopie'[q].rij.status # "Ontbreekt"
          /\ q \notin Starts => Bestaat(kopie[q].id)'
          /\ pc'[q] = "gevonden" => (gelezen'[q].status = "Ontbreekt" <=> q \in Starts)
    <3> SUFFICES ASSUME NEW q \in InVlucht'
                 PROVE  /\ kopie'[q].rij.status # "Ontbreekt"
                        /\ q \notin Starts => Bestaat(kopie[q].id)'
                        /\ pc'[q] = "gevonden" => (gelezen'[q].status = "Ontbreekt" <=> q \in Starts)
      OBVIOUS
    <3>1. q \in Verzoeken /\ q \in Wijzigers /\ q \in InVlucht /\ q # r
      BY <1>9, Kinderen DEF InVlucht
    <3>2. kopie'[q] = kopie[q] /\ gelezen'[q] = gelezen[q] /\ pc'[q] = pc[q]
      BY <1>5, <1>6, <1>7, <3>1
    <3>3. /\ kopie[q].rij.status # "Ontbreekt" /\ (q \notin Starts => Bestaat(kopie[q].id))
          /\ pc[q] = "gevonden" => (gelezen[q].status = "Ontbreekt" <=> q \in Starts)
          /\ kopie[q].id \in Aggregaten
      BY <1>1, <3>1, TerreinType DEF PlaatsInv
    <3>4. q \notin Starts => rij'[kopie[q].id].status # "Ontbreekt"
      BY <1>9, <3>3 DEF Bestaat
    <3> QED BY <3>2, <3>3, <3>4 DEF Bestaat
  <2>4. \A q \in Starts : Bestaat(q)' => q \in aanvaard'
    <3> SUFFICES ASSUME NEW q \in Starts, Bestaat(q)' PROVE q \in aanvaard'
      OBVIOUS
    <3>1. Bestaat(q) \/ q = a
      BY <1>9, Kinderen
    <3>2. CASE Bestaat(q)
      BY <1>1, <1>2, <3>2 DEF PlaatsInv
    <3>3. CASE q = a /\ ~Bestaat(q)
      BY <1>1, <1>2, <1>9, <3>3, TerreinType
    <3> QED BY <3>1, <3>2, <3>3
  <2> QED BY <2>1, <2>2, <2>3, <2>4 DEF PlaatsInv
<1>14. AantalInv'
  <2>1. \A C : Cardinality(C \cap Metingen) \in Nat
    BY AantalMetingen
  <2>2. /\ Cardinality(aanvaard \cap Metingen) <= Cardinality(aanvaard' \cap Metingen)
        /\ \A q \in Verzoeken :
             Cardinality((aanvaard \cup {q}) \cap Metingen) <= Cardinality((aanvaard' \cup {q}) \cap Metingen)
    <3>1. aanvaard \subseteq aanvaard' /\ \A q \in Verzoeken : aanvaard \cup {q} \subseteq aanvaard' \cup {q}
      BY <1>2
    <3> QED BY <3>1, AantalMetingen
  <2>3. nieuw.aantal <= Cardinality(aanvaard' \cap Metingen)
    <3>1. /\ kopie[r].rij.aantal <= Cardinality(aanvaard' \cap Metingen)
          /\ rij[a].aantal <= Cardinality(aanvaard \cap Metingen)
      BY <1>1, <1>2 DEF AantalInv
    <3>2. nieuw.aantal \in Nat /\ kopie[r].rij.aantal \in Nat /\ rij[a].aantal \in Nat
      BY <1>1, <1>3, RijType DEF VerzoekTypeOK
    <3> QED BY <1>3, <2>1, <2>2, <3>1, <3>2
  <2>4. \A b \in Aggregaten : rij'[b].aantal <= Cardinality(aanvaard' \cap Metingen)
    <3> SUFFICES ASSUME NEW b \in Aggregaten PROVE rij'[b].aantal <= Cardinality(aanvaard' \cap Metingen)
      OBVIOUS
    <3>1. CASE b = a
      BY <1>4, <2>3, <3>1
    <3>2. CASE b # a
      <4>1. rij'[b] = rij[b] /\ rij[b].aantal \in Nat /\ rij[b].aantal <= Cardinality(aanvaard \cap Metingen)
        BY <1>1, <1>4, <3>2, RijType DEF AantalInv, VerzoekTypeOK
      <4> QED BY <2>1, <2>2, <4>1
    <3> QED BY <3>1, <3>2
  <2>5. \A q \in Verzoeken : kopie'[q].rij.aantal <= Cardinality((aanvaard' \cup {q}) \cap Metingen)
    <3> SUFFICES ASSUME NEW q \in Verzoeken
                 PROVE  kopie'[q].rij.aantal <= Cardinality((aanvaard' \cup {q}) \cap Metingen)
      OBVIOUS
    <3>1. CASE q = r
      <4>1. kopie'[q].rij.aantal = 0
        BY <1>5, <3>1, BeginrijType
      <4> QED BY <2>1, <4>1
    <3>2. CASE q # r
      <4>0. kopie[q].rij \in Rijen
        BY <1>1 DEF VerzoekTypeOK
      <4>1. /\ kopie'[q] = kopie[q] /\ kopie[q].rij.aantal \in Nat
            /\ kopie[q].rij.aantal <= Cardinality((aanvaard \cup {q}) \cap Metingen)
        BY <1>1, <1>5, <3>2, <4>0, RijType DEF AantalInv
      <4>2. /\ Cardinality((aanvaard \cup {q}) \cap Metingen) \in Nat
            /\ Cardinality((aanvaard' \cup {q}) \cap Metingen) \in Nat
            /\ Cardinality((aanvaard \cup {q}) \cap Metingen) <= Cardinality((aanvaard' \cup {q}) \cap Metingen)
        BY <2>1, <2>2
      <4> QED BY <4>1, <4>2
    <3> QED BY <3>1, <3>2
  <2> QED BY <2>4, <2>5 DEF AantalInv
<1>15. IncidentInv'
  <2> SUFFICES ASSUME NEW m \in Metingen
               PROVE  /\ Bestaat(m)' =>
                           /\ pc'[m] \in {"gemeld", "gestempeld", "klaar", "mislukt"}
                           /\ Ernst(Data[m]) # Geen
                           /\ meting'[m] # Geen
                      /\ pc'[m] = "toegevoegd" => Ernst(Data[m]) # Geen
                      /\ meting'[m] # Geen => m \in aanvaard'
                      /\ m \in aanvaard' /\ meting'[m] = Geen => pc'[m] \in {"bewaard", "mislukt"}
    BY DEF IncidentInv
  <2>1. CASE m = r
    BY <1>1, <1>2, <1>8, <1>10, <2>1 DEF IncidentInv
  <2>2. CASE m # r
    <3>1. pc'[m] = pc[m]
      BY <1>7, <2>2, Kinderen
    <3> QED BY <1>1, <1>2, <1>10, <2>2, <3>1 DEF IncidentInv
  <2> QED BY <2>1, <2>2
<1>16. OutboxInv'
  <2>1. \A i \in 1 .. Len(outbox) : outbox[i] \in Verzoeken /\ outbox[i] # r
    BY <1>1 DEF OutboxInv, RelayTypeOK
  <2>2. \A q \in uitgegeven : q \in Verzoeken /\ q # r
    BY <1>1, <2>1 DEF RelayTypeOK
  <2>3. r \in Melders => pc'[r] # "klaar"
    <3>1. r \notin Rapporten /\ r \notin Netwerk
      BY <1>1, EenSoort DEF Wijzigers
    <3> QED BY <1>8, <3>1 DEF Melders
  <2>4. \A q \in Verzoeken : pc'[q] = "gestempeld" => pc[q] = "gestempeld"
    BY <1>7
  <2>5. \A q \in Melders : pc'[q] = "klaar" => q \in uitgegeven
    BY <1>1, <1>7, <2>3, Kinderen DEF OutboxInv
  <2>6. \A i \in 1 .. Len(outbox) : pc'[outbox[i]] \in {"gestempeld", "klaar", "mislukt"}
    BY <1>1, <1>7, <2>1 DEF OutboxInv
  <2>7. \A q \in uitgegeven : pc'[q] = "klaar"
    BY <1>1, <1>7, <2>2 DEF OutboxInv
  <2> QED BY <1>1, <1>2, <2>4, <2>5, <2>6, <2>7 DEF OutboxInv
<1>17. VolgordeInv'
  <2>1. \A m \in Metingen : pc[m] = "mislukt" => pc'[m] = "mislukt"
    BY <1>1, <1>7, Kinderen
  <2>2. \A o \in Oplossingen : kopie'[o].id = kopie[o].id
    BY <1>5, Kinderen
  <2> QED BY <1>1, <1>2, <2>1, <2>2, VolgordeStil
<1>18. RapportInv'
  <2>1. r \notin Rapporten /\ r \notin Netwerk
    BY <1>1, EenSoort DEF Wijzigers
  <2>2. \A q \in Rapporten \cup Netwerk : pc'[q] = pc[q] /\ (q \in aanvaard' <=> q \in aanvaard)
    BY <1>2, <1>7, <2>1, Kinderen
  <2>3. \A q \in Rapporten : Volledig(q)' <=> Volledig(q)
    BY <1>2 DEF Volledig
  <2>4. \A q \in Rapporten : (\A i \in vooraf[q] : Bestaat(i)) => \A i \in vooraf'[q] : Bestaat(i)'
    <3>1. \A q \in Rapporten : vooraf[q] \subseteq Aggregaten
      BY <1>1, Kinderen DEF VerzoekTypeOK
    <3> QED BY <1>2, <1>9, <3>1
  <2> QED BY <1>1, <1>2, <2>2, <2>3, <2>4 DEF RapportInv
<1>19. AlleenInv'
  <2>1. CASE r \in Incidentwijzigingen
    <3>1. r \notin Sessieschrijvers /\ r \notin Metingen
      BY <2>1, EenSoort DEF Sessieschrijvers
    <3>2. Sessieschrijvers \subseteq Verzoeken
      BY Kinderen DEF Sessieschrijvers
    <3>3. \A s \in Sessies : rij'[s] = rij[s]
      BY <1>1, <1>4, <2>1, TerreinType, Kinderen
    <3>4. \A q \in Sessieschrijvers :
            kopie'[q] = kopie[q] /\ gelezen'[q] = gelezen[q] /\ (pc'[q] \in Vlucht => pc'[q] = pc[q])
      BY <1>5, <1>6, <1>7, <3>1, <3>2
    <3>5. aanvaard' \cap Metingen = aanvaard \cap Metingen
      BY <1>2, <3>1
    <3> QED BY <1>2, <3>3, <3>4, <3>5, AlleenStil
  <2>2. CASE r \in Sessieschrijvers
    <3> SUFFICES ASSUME ~samenloop PROVE AlleenInv'
      BY <1>2 DEF AlleenInv
    <3> DEFINE oud == rij[a]
               k == kopie[r].rij
               geteld(s) == {m \in aanvaard \cap Metingen : kopie[m].id = s}
    <3>1. /\ \A q \in InVlucht \cap Sessieschrijvers : q = r
          /\ KopieKlopt(r) /\ a \in Sessies
          /\ \A s, t \in Lopende : s = t
          /\ \A s \in Sessies : SessieInv(s)
      BY <1>1, <2>2, TerreinType DEF AlleenInv
    <3>2. InVlucht' \cap Sessieschrijvers = {}
      BY <1>9, <3>1
    <3>3. nieuw.status = k.status /\ nieuw.einde = k.einde /\ nieuw.aantal = k.aantal
      BY <1>3, <2>2
    <3>4. /\ r \in Starts => /\ k.status = "Actief" /\ k.einde = Geen /\ k.aantal = 0
                             /\ a = r /\ ~Bestaat(a) /\ Lopende = {}
          /\ r \in Metingen =>
               oud.status = "Actief" /\ k.status = "Actief" /\ k.einde = oud.einde /\ k.aantal = oud.aantal + 1
          /\ r \in Sessiewijzigingen =>
               /\ oud.status \in {"Actief", "Gepauzeerd"} /\ k.aantal = oud.aantal
               /\ \/ k.status \in {"Actief", "Gepauzeerd"} /\ k.einde = oud.einde
                  \/ k.status = "Afgerond" /\ k.einde = r
      BY <1>1, <3>1, TerreinType DEF KopieKlopt
    <3>5. \A s, t \in Lopende' : s = t
      <4>1. Lopende' \subseteq Lopende \cup {a}
        BY <1>4, Kinderen DEF Lopende
      <4>2. Lopende = {} \/ a \in Lopende
        BY <2>2, <3>1, <3>4 DEF Lopende, Sessieschrijvers
      <4> QED BY <3>1, <4>1, <4>2
    <3>6. \A s \in Sessies : SessieInv(s)'
      <4> SUFFICES ASSUME NEW s \in Sessies PROVE SessieInv(s)'
        OBVIOUS
      <4>1. \A m \in Metingen : kopie'[m].id = kopie[m].id
        BY <1>5, Kinderen
      <4>2. SessieInv(s)
        BY <3>1
      <4>3. CASE s # a
        <5>1. rij'[s] = rij[s]
          BY <1>4, <4>3, Kinderen
        <5>2. {m \in aanvaard \cap Metingen : kopie[m].id = s}' = geteld(s)
          BY <1>2, <4>1, <4>3
        <5> QED BY <4>2, <5>1, <5>2 DEF SessieInv, Bestaat
      <4>4. CASE s = a
        <5>1. rij'[s] = nieuw
          BY <1>4, <4>4
        <5>2. CASE r \in Metingen
          <6>1. {m \in aanvaard \cap Metingen : kopie[m].id = s}' = geteld(s) \cup {r}
            BY <1>2, <4>1, <4>4, <5>2
          <6>2. IsFiniteSet(geteld(s)) /\ r \notin geteld(s) /\ Cardinality(geteld(s)) \in Nat
            <7>1. geteld(s) \subseteq Metingen /\ r \notin geteld(s)
              BY <1>1
            <7> QED BY <7>1, MonitoringAssumption, FS_Subset, FS_CardinalityType
          <6>3. Cardinality(geteld(s) \cup {r}) = Cardinality(geteld(s)) + 1
            BY <6>2, FS_AddElement
          <6>4. Cardinality({m \in aanvaard \cap Metingen : kopie[m].id = s}') = Cardinality(geteld(s)) + 1
            BY <6>1, <6>3
          <6>5. rij'[s].status = "Actief" /\ rij'[s].einde = oud.einde /\ rij'[s].aantal = oud.aantal + 1
                /\ oud.status = "Actief"
            BY <3>3, <3>4, <5>1, <5>2
          <6>6. oud.aantal = Cardinality(geteld(s)) /\ oud.einde = Geen
            BY <4>2, <4>4, <6>5 DEF SessieInv
          <6> HIDE DEF geteld, oud
          <6> QED BY <6>4, <6>5, <6>6 DEF SessieInv, Bestaat
        <5>3. CASE r \notin Metingen
          <6>1. {m \in aanvaard \cap Metingen : kopie[m].id = s}' = geteld(s)
            BY <1>2, <4>1, <5>3
          <6>2. CASE r \in Starts
            <7>1. rij'[s].status = "Actief" /\ rij'[s].einde = Geen /\ rij'[s].aantal = 0
              BY <3>3, <3>4, <5>1, <6>2
            <7>2. Cardinality(geteld(s)) = 0
              BY <3>4, <4>2, <4>4, <6>2 DEF SessieInv
            <7> HIDE DEF geteld
            <7> QED BY <6>1, <7>1, <7>2 DEF SessieInv, Bestaat
          <6>3. CASE r \in Sessiewijzigingen
            <7>1. r # Geen
              BY <1>1, EenSoort, Kinderen
            <7>2. /\ oud.status \in {"Actief", "Gepauzeerd"} /\ rij'[s].aantal = oud.aantal
                  /\ \/ rij'[s].status \in {"Actief", "Gepauzeerd"} /\ rij'[s].einde = oud.einde
                     \/ rij'[s].status = "Afgerond" /\ rij'[s].einde = r
              BY <3>3, <3>4, <5>1, <6>3
            <7>3. oud.einde = Geen /\ oud.aantal = Cardinality(geteld(s))
              BY <4>2, <4>4, <7>2 DEF SessieInv
            <7> HIDE DEF geteld, oud
            <7> QED BY <6>1, <7>1, <7>2, <7>3 DEF SessieInv, Bestaat
          <6> QED BY <2>2, <5>3, <6>2, <6>3 DEF Sessieschrijvers
        <5> QED BY <5>2, <5>3
      <4> QED BY <4>3, <4>4
    <3> QED BY <3>2, <3>5, <3>6 DEF AlleenInv
  <2> QED BY <1>1, <2>1, <2>2 DEF Wijzigers, Sessieschrijvers
<1> QED
  BY <1>11, <1>12, <1>13, <1>14, <1>15, <1>16, <1>17, <1>18, <1>19 DEF VerzoekInv

-----------------------------------------------------------------------------
(* Steps after saving, and those of rapporten *)

\* A request moves, and the rows and copies stay as they are.
LEMMA BuitenDeRijen ==
  ASSUME VerzoekInv, NEW r \in Verzoeken, NEW plaats \in Bezig \cup Eind, NaarStap(r, plaats),
         rij' = rij, kopie' = kopie, gelezen' = gelezen, samenloop' = samenloop,
         pc[r] \notin Vlucht, plaats \notin Vlucht, r \in Wijzigers => r \in aanvaard /\ plaats # "bewaakt",
         \/ aanvaard' = aanvaard
         \/ aanvaard' = aanvaard \cup {r} /\ r \in Rapporten,
         plaats \in {"bewaard", "toegevoegd"} => r \in Metingen,
         plaats \in {"gelezen", "opgesteld"} => r \in Rapporten \cup Netwerk,
         plaats = "opgesteld" => r \in Rapporten,
         plaats \in {"gemeld", "gestempeld"} => r \in Melders,
         plaats = "bewaakt" => r \in Netwerk
  PROVE  /\ PlaatsInv' /\ AantalInv' /\ AlleenInv'
         /\ pc' \in [Verzoeken -> {"nieuw"} \cup Bezig \cup Eind]
         /\ pc'[r] = plaats /\ \A q \in Verzoeken \ {r} : pc'[q] = pc[q]
         /\ \A a : Bestaat(a)' <=> Bestaat(a)
<1>1. VerzoekTypeOK /\ PlaatsInv /\ AantalInv /\ plaats # "nieuw"
  BY DEF VerzoekInv, Bezig, Eind, Geladen
<1>2. /\ pc' \in [Verzoeken -> {"nieuw"} \cup Bezig \cup Eind]
      /\ pc'[r] = plaats /\ \A q \in Verzoeken \ {r} : pc'[q] = pc[q]
  BY <1>1, Verplaats
<1>3. /\ \A a : Bestaat(a)' <=> Bestaat(a)
      /\ InVlucht' = InVlucht
  BY <1>2, Kinderen DEF Bestaat, InVlucht
<1>4. aanvaard' \cap Metingen = aanvaard \cap Metingen /\ \A q \in Wijzigers : q \in aanvaard' <=> q \in aanvaard
  BY EenSoort DEF Wijzigers
<1>5. PlaatsInv'
  <2>1. \A q \in Verzoeken :
          /\ pc'[q] \in Vlucht => q \in Wijzigers
          /\ pc'[q] \in {"bewaard", "toegevoegd"} => q \in Metingen
          /\ pc'[q] \in {"gelezen", "opgesteld"} => q \in Rapporten \cup Netwerk
          /\ pc'[q] = "opgesteld" => q \in Rapporten
          /\ pc'[q] \in {"gemeld", "gestempeld"} => q \in Melders
          /\ pc'[q] = "bewaakt" => q \in Starts \cup Metingen \cup Netwerk
    BY <1>1, <1>2 DEF PlaatsInv
  <2>2. \A q \in Wijzigers :
          /\ q \in InVlucht' \/ q \in aanvaard' => kopie'[q].id \in Terrein(q)
          /\ pc'[q] \in {"nieuw", "bewaakt"} \cup Vlucht => q \notin aanvaard'
          /\ pc'[q] \in {"nieuw", "bewaakt"} => kopie'[q].id = Geen
          /\ pc'[q] \in {"bewaard", "toegevoegd", "gemeld", "gestempeld"} => q \in aanvaard'
    BY <1>1, <1>2, <1>3, <1>4, Kinderen DEF PlaatsInv
  <2>3. \A q \in InVlucht' :
          /\ kopie'[q].rij.status # "Ontbreekt"
          /\ q \notin Starts => Bestaat(kopie[q].id)'
          /\ pc'[q] = "gevonden" => (gelezen'[q].status = "Ontbreekt" <=> q \in Starts)
    <3>1. \A q \in InVlucht : q # r /\ q \in Verzoeken /\ pc'[q] = pc[q]
      BY <1>2, Kinderen DEF InVlucht
    <3> QED BY <1>1, <1>3, <3>1 DEF PlaatsInv, Bestaat
  <2>4. \A q \in Starts : Bestaat(q)' => q \in aanvaard'
    BY <1>1, <1>3 DEF PlaatsInv
  <2> QED BY <2>1, <2>2, <2>3, <2>4 DEF PlaatsInv
<1>6. AantalInv'
  <2>1. \A q : (aanvaard' \cup {q}) \cap Metingen = (aanvaard \cup {q}) \cap Metingen
    BY <1>4
  <2> QED BY <1>1, <1>4, <2>1 DEF AantalInv
<1>7. AlleenInv'
  <2>1. \A q \in Sessieschrijvers :
          kopie'[q] = kopie[q] /\ gelezen'[q] = gelezen[q] /\ (pc'[q] \in Vlucht => pc'[q] = pc[q])
    BY <1>2, Kinderen DEF Sessieschrijvers
  <2>2. \A s \in Sessies : rij'[s] = rij[s]
    OBVIOUS
  <2> QED BY <1>4, <2>1, <2>2, AlleenStil
<1> QED BY <1>2, <1>3, <1>5, <1>6, <1>7

\* Such a step, of a request whose rows are not in the outbox and do not get there.
LEMMA OutboxStil ==
  ASSUME VerzoekInv, NEW r \in Verzoeken, pc[r] \notin {"gestempeld", "klaar", "mislukt"},
         pc'[r] \notin {"gestempeld", "klaar"}, \A q \in Verzoeken \ {r} : pc'[q] = pc[q],
         outbox' = outbox, uitgegeven' = uitgegeven, relay' = relay,
         gepubliceerd' = gepubliceerd, gemarkeerd' = gemarkeerd
  PROVE  OutboxInv' /\ RelayTypeOK'
<1>1. OutboxInv /\ RelayTypeOK
  BY DEF VerzoekInv
<1>2. \A i \in 1 .. Len(outbox) : outbox[i] \in Verzoeken /\ outbox[i] # r
  BY <1>1 DEF OutboxInv, RelayTypeOK
<1>3. \A q \in uitgegeven : q \in Verzoeken /\ q # r
  BY <1>1, <1>2 DEF RelayTypeOK
<1>4. OutboxInv'
  <2>1. \A q \in Verzoeken : pc'[q] = "gestempeld" => pc[q] = "gestempeld"
    OBVIOUS
  <2>2. \A q \in Melders : pc'[q] = "klaar" => q \in uitgegeven
    BY <1>1, Kinderen DEF OutboxInv
  <2>3. \A i \in 1 .. Len(outbox) : pc'[outbox[i]] \in {"gestempeld", "klaar", "mislukt"}
    BY <1>1, <1>2 DEF OutboxInv
  <2>4. \A q \in uitgegeven : pc'[q] = "klaar"
    BY <1>1, <1>3 DEF OutboxInv
  <2> QED BY <1>1, <2>1, <2>2, <2>3, <2>4 DEF OutboxInv
<1>5. RelayTypeOK'
  BY <1>1 DEF RelayTypeOK
<1> QED BY <1>4, <1>5

\* The row of the meting is there before its incident.
LEMMA VoegToeHoudt ==
  ASSUME VerzoekInv, NEW m \in Metingen, VoegToe(m), UNCHANGED relayVars, verkeer' = verkeer
  PROVE  VerzoekInv'
<1> DEFINE plaats == IF Ernst(Data[m]) = Geen THEN "gemeld" ELSE "toegevoegd"
<1>1. /\ VerzoekTypeOK /\ PlaatsInv /\ IncidentInv /\ VolgordeInv /\ RapportInv
      /\ m \in Verzoeken /\ m \in Wijzigers /\ m \in Melders /\ m \in aanvaard /\ pc[m] = "bewaard"
      /\ kopie[m].id \in Sessies /\ kopie[m].id # Geen
  <2>1. m \in Verzoeken /\ m \in Wijzigers /\ m \in Melders /\ m \in Sessieschrijvers /\ pc[m] = "bewaard"
    BY Kinderen DEF Wijzigers, Melders, Sessieschrijvers, VoegToe
  <2>2. m \in aanvaard /\ kopie[m].id \in Sessies
    BY <2>1, TerreinType DEF VerzoekInv, PlaatsInv
  <2> QED BY <2>1, <2>2, Kinderen DEF VerzoekInv
<1>2. /\ rij' = rij /\ rapport' = rapport /\ kopie' = kopie /\ gelezen' = gelezen /\ aanvaard' = aanvaard
      /\ outbox' = outbox /\ uitgegeven' = uitgegeven /\ vooraf' = vooraf /\ samenloop' = samenloop
      /\ relay' = relay /\ gepubliceerd' = gepubliceerd /\ gemarkeerd' = gemarkeerd
      /\ NaarStap(m, plaats)
  BY DEF VoegToe, relayVars
<1>3. plaats \in {"gemeld", "toegevoegd"} /\ plaats \in Bezig /\ (plaats = "toegevoegd" => Ernst(Data[m]) # Geen)
  BY DEF Bezig, Geladen
<1>4. /\ meting' \in [Metingen -> Sessies \cup {Geen}]
      /\ meting'[m] # Geen /\ \A q \in Metingen \ {m} : meting'[q] = meting[q]
  BY <1>1 DEF VoegToe, VerzoekTypeOK
<1> HIDE DEF plaats
<1>5. /\ PlaatsInv' /\ AantalInv' /\ AlleenInv'
      /\ pc' \in [Verzoeken -> {"nieuw"} \cup Bezig \cup Eind]
      /\ pc'[m] = plaats /\ \A q \in Verzoeken \ {m} : pc'[q] = pc[q]
      /\ \A a : Bestaat(a)' <=> Bestaat(a)
  BY <1>1, <1>2, <1>3, BuitenDeRijen DEF Vlucht
<1>6. VerzoekTypeOK'
  BY <1>1, <1>2, <1>4, <1>5 DEF VerzoekTypeOK
<1>7. OutboxInv' /\ RelayTypeOK'
  BY <1>1, <1>2, <1>3, <1>5, OutboxStil
<1>8. IncidentInv'
  <2>1. ~Bestaat(m)
    BY <1>1 DEF IncidentInv
  <2>2. \A q \in Metingen \ {m} : pc'[q] = pc[q] /\ meting'[q] = meting[q]
    BY <1>4, <1>5, Kinderen
  <2> QED BY <1>1, <1>2, <1>3, <1>4, <1>5, <2>1, <2>2 DEF IncidentInv
<1>9. VolgordeInv'
  BY <1>1, <1>2, <1>5, Kinderen, VolgordeStil
<1>10. RapportInv'
  <2>1. \A q \in Rapporten \cup Netwerk : pc'[q] = pc[q]
    BY <1>5, EenSoort, Kinderen
  <2>2. \A q \in Rapporten : Volledig(q)' <=> Volledig(q)
    BY <1>2 DEF Volledig
  <2> QED BY <1>1, <1>2, <1>5, <2>1, <2>2 DEF RapportInv
<1> QED BY <1>5, <1>6, <1>7, <1>8, <1>9, <1>10 DEF VerzoekInv

\* The incident is there, and its event still to come.
LEMMA MaakIncidentHoudt ==
  ASSUME VerzoekInv, NEW m \in Metingen, MaakIncident(m), UNCHANGED relayVars, verkeer' = verkeer
  PROVE  VerzoekInv'
<1>1. /\ VerzoekTypeOK /\ PlaatsInv /\ AantalInv /\ IncidentInv /\ VolgordeInv /\ RapportInv
      /\ m \in Verzoeken /\ m \in Wijzigers /\ m \in Melders /\ m \in Aggregaten /\ m \notin Sessies
      /\ m \in aanvaard /\ pc[m] = "toegevoegd"
  <2>1. /\ m \in Verzoeken /\ m \in Wijzigers /\ m \in Melders /\ m \in Aggregaten /\ m \notin Sessies
        /\ pc[m] = "toegevoegd"
    BY Kinderen DEF Wijzigers, Melders, MaakIncident
  <2> QED BY <2>1 DEF VerzoekInv, PlaatsInv
<1>2. /\ meting' = meting /\ rapport' = rapport /\ kopie' = kopie /\ gelezen' = gelezen /\ aanvaard' = aanvaard
      /\ outbox' = outbox /\ uitgegeven' = uitgegeven /\ vooraf' = vooraf /\ samenloop' = samenloop
      /\ relay' = relay /\ gepubliceerd' = gepubliceerd /\ gemarkeerd' = gemarkeerd
      /\ NaarStap(m, "gemeld")
  BY DEF MaakIncident, buitenRij, relayVars
<1>3. rij' \in [Aggregaten -> Rijen] /\ rij'[m] = NieuwIncident /\ \A b \in Aggregaten \ {m} : rij'[b] = rij[b]
  BY <1>1, BeginrijType DEF MaakIncident, VerzoekTypeOK
<1>4. /\ pc' \in [Verzoeken -> {"nieuw"} \cup Bezig \cup Eind]
      /\ pc'[m] = "gemeld" /\ \A q \in Verzoeken \ {m} : pc'[q] = pc[q]
  BY <1>1, <1>2, Verplaats DEF Bezig, Geladen
<1>5. /\ \A b \in Aggregaten : Bestaat(b)' <=> (Bestaat(b) \/ b = m)
      /\ InVlucht' = InVlucht
  BY <1>1, <1>3, <1>4, BeginrijType, Kinderen DEF Bestaat, InVlucht, Vlucht
<1>6. VerzoekTypeOK'
  BY <1>1, <1>2, <1>3, <1>4 DEF VerzoekTypeOK
<1>7. OutboxInv' /\ RelayTypeOK'
  BY <1>1, <1>2, <1>4, OutboxStil
<1>8. PlaatsInv'
  <2>1. \A q \in Verzoeken :
          /\ pc'[q] \in Vlucht => q \in Wijzigers
          /\ pc'[q] \in {"bewaard", "toegevoegd"} => q \in Metingen
          /\ pc'[q] \in {"gelezen", "opgesteld"} => q \in Rapporten \cup Netwerk
          /\ pc'[q] = "opgesteld" => q \in Rapporten
          /\ pc'[q] \in {"gemeld", "gestempeld"} => q \in Melders
          /\ pc'[q] = "bewaakt" => q \in Starts \cup Metingen \cup Netwerk
    BY <1>1, <1>4 DEF PlaatsInv, Vlucht
  <2>2. \A q \in Wijzigers :
          /\ q \in InVlucht' \/ q \in aanvaard' => kopie'[q].id \in Terrein(q)
          /\ pc'[q] \in {"nieuw", "bewaakt"} \cup Vlucht => q \notin aanvaard'
          /\ pc'[q] \in {"nieuw", "bewaakt"} => kopie'[q].id = Geen
          /\ pc'[q] \in {"bewaard", "toegevoegd", "gemeld", "gestempeld"} => q \in aanvaard'
    BY <1>1, <1>2, <1>4, <1>5, Kinderen DEF PlaatsInv, Vlucht
  <2>3. \A q \in InVlucht' :
          /\ kopie'[q].rij.status # "Ontbreekt"
          /\ q \notin Starts => Bestaat(kopie[q].id)'
          /\ pc'[q] = "gevonden" => (gelezen'[q].status = "Ontbreekt" <=> q \in Starts)
    <3> SUFFICES ASSUME NEW q \in InVlucht'
                 PROVE  /\ kopie'[q].rij.status # "Ontbreekt"
                        /\ q \notin Starts => Bestaat(kopie[q].id)'
                        /\ pc'[q] = "gevonden" => (gelezen'[q].status = "Ontbreekt" <=> q \in Starts)
      OBVIOUS
    <3>1. q \in Verzoeken /\ q \in Wijzigers /\ q \in InVlucht /\ q # m
      BY <1>1, <1>5, Kinderen DEF InVlucht, Vlucht
    <3>2. kopie[q].id \in Aggregaten
      BY <1>1, <3>1, TerreinType DEF PlaatsInv
    <3>3. q \notin Starts => rij'[kopie[q].id].status # "Ontbreekt"
      BY <1>1, <1>5, <3>1, <3>2 DEF PlaatsInv, Bestaat
    <3> QED BY <1>1, <1>2, <1>4, <3>1, <3>3 DEF PlaatsInv, Bestaat
  <2>4. \A q \in Starts : Bestaat(q)' => q \in aanvaard'
    BY <1>1, <1>2, <1>5, Kinderen DEF PlaatsInv
  <2> QED BY <2>1, <2>2, <2>3, <2>4 DEF PlaatsInv
<1>9. AantalInv'
  <2>1. \A b \in Aggregaten : rij'[b].aantal <= Cardinality(aanvaard \cap Metingen)
    <3> SUFFICES ASSUME NEW b \in Aggregaten PROVE rij'[b].aantal <= Cardinality(aanvaard \cap Metingen)
      OBVIOUS
    <3>1. CASE b = m
      <4>1. rij'[b].aantal = 0
        BY <1>3, <3>1, BeginrijType
      <4>2. Cardinality(aanvaard \cap Metingen) \in Nat
        BY AantalMetingen
      <4> QED BY <4>1, <4>2
    <3>2. CASE b # m
      BY <1>1, <1>3, <3>2 DEF AantalInv
    <3> QED BY <3>1, <3>2
  <2> QED BY <1>1, <1>2, <2>1 DEF AantalInv
<1>10. IncidentInv'
  <2>1. Ernst(Data[m]) # Geen /\ meting[m] # Geen
    BY <1>1 DEF IncidentInv
  <2>2. \A q \in Metingen \ {m} : pc'[q] = pc[q] /\ (Bestaat(q)' <=> Bestaat(q))
    BY <1>4, <1>5, Kinderen
  <2> QED BY <1>1, <1>2, <1>4, <2>1, <2>2 DEF IncidentInv
<1>11. VolgordeInv'
  BY <1>1, <1>2, <1>4, Kinderen, VolgordeStil
<1>12. RapportInv'
  <2>1. \A q \in Rapporten \cup Netwerk : pc'[q] = pc[q]
    BY <1>4, EenSoort, Kinderen
  <2>2. \A q \in Rapporten : Volledig(q)' <=> Volledig(q)
    BY <1>2 DEF Volledig
  <2>3. \A q \in Rapporten : (\A i \in vooraf[q] : Bestaat(i)) => \A i \in vooraf'[q] : Bestaat(i)'
    <3>1. \A q \in Rapporten : vooraf[q] \subseteq Aggregaten
      BY <1>1, Kinderen DEF VerzoekTypeOK
    <3> QED BY <1>2, <1>5, <3>1
  <2> QED BY <1>1, <1>2, <2>1, <2>2, <2>3 DEF RapportInv
<1>13. AlleenInv'
  <2>1. \A s \in Sessies : rij'[s] = rij[s]
    BY <1>1, <1>3, Kinderen
  <2>2. \A q \in Sessieschrijvers :
          kopie'[q] = kopie[q] /\ gelezen'[q] = gelezen[q] /\ (pc'[q] \in Vlucht => pc'[q] = pc[q])
    BY <1>2, <1>4, Kinderen DEF Sessieschrijvers, Vlucht
  <2> QED BY <1>2, <2>1, <2>2, AlleenStil
<1> QED BY <1>6, <1>7, <1>8, <1>9, <1>10, <1>11, <1>12, <1>13 DEF VerzoekInv

\* What the steps of a rapport leave alone.
LEMMA RapportStil ==
  ASSUME VerzoekInv, NEW r \in Rapporten \cup Netwerk,
         \A q \in Verzoeken \ {r} : pc'[q] = pc[q], \A a : Bestaat(a)' <=> Bestaat(a),
         meting' = meting, kopie' = kopie, outbox' = outbox, relay' = relay,
         gepubliceerd' = gepubliceerd, uitgegeven \subseteq uitgegeven', samenloop' = samenloop,
         aanvaard' \cap Metingen = aanvaard \cap Metingen
  PROVE  IncidentInv' /\ VolgordeInv'
<1>1. \A m \in Metingen : pc'[m] = pc[m]
  BY EenSoort, Kinderen
<1>2. IncidentInv'
  BY <1>1 DEF VerzoekInv, IncidentInv
<1>3. VolgordeInv'
  BY <1>1, VolgordeStil DEF VerzoekInv
<1> QED BY <1>2, <1>3

\* The records of rapporten, over any sets of their fields.
Uitslag(B, M, I, Z) == [gebruik : B, metingen : M, incidenten : I, open : I, zwaarste : Z]

LEMMA UitslagMetGebruik ==
  ASSUME NEW B, NEW M, NEW I, NEW Z, NEW u \in Uitslag(B, M, I, Z), NEW b \in B
  PROVE  [u EXCEPT !.gebruik = b] \in Uitslag(B, M, I, Z) /\ [u EXCEPT !.gebruik = b].gebruik = b
BY DEF Uitslag

LEMMA UitslagMetMetingen ==
  ASSUME NEW B, NEW M, NEW I, NEW Z, NEW u \in Uitslag(B, M, I, Z), NEW m \in M,
         NEW v, v = [u EXCEPT !.metingen = m]
  PROVE  v \in Uitslag(B, M, I, Z) /\ v.metingen = m /\ v.gebruik = u.gebruik
BY DEF Uitslag

Uitslagen == Uitslag(BOOLEAN, SUBSET Metingen, SUBSET Incidenten, Incidenten \cup {Geen})

\* The rapport of r gets another record.
LEMMA RapportType ==
  ASSUME VerzoekTypeOK, NEW r \in Rapporten \cup Netwerk, NEW u \in Uitslagen,
         rapport' = [rapport EXCEPT ![r] = u]
  PROVE  /\ rapport' \in [Rapporten \cup Netwerk ->
              [gebruik : BOOLEAN, metingen : SUBSET Metingen, incidenten : SUBSET Incidenten,
               open : SUBSET Incidenten, zwaarste : Incidenten \cup {Geen}]]
         /\ rapport[r] \in Uitslagen /\ rapport'[r] = u
         /\ \A q \in (Rapporten \cup Netwerk) \ {r} : rapport'[q] = rapport[q]
<1>1. rapport \in [Rapporten \cup Netwerk -> Uitslagen]
  BY DEF VerzoekTypeOK, Uitslagen, Uitslag
<1>2. /\ rapport' \in [Rapporten \cup Netwerk -> Uitslagen] /\ rapport[r] \in Uitslagen /\ rapport'[r] = u
      /\ \A q \in (Rapporten \cup Netwerk) \ {r} : rapport'[q] = rapport[q]
  BY <1>1
<1> QED BY <1>2 DEF Uitslagen, Uitslag

LEMMA LeesGebruikHoudt ==
  ASSUME VerzoekInv, NEW n \in Netwerk, LeesGebruik(n), UNCHANGED relayVars, verkeer' = verkeer
  PROVE  VerzoekInv'
<1> DEFINE plaats == IF inGebruik = "ja" THEN "bewaakt" ELSE "gemeld"
<1>1. /\ VerzoekTypeOK /\ RapportInv
      /\ n \in Verzoeken /\ n \in Melders /\ n \notin Wijzigers /\ n \notin Rapporten /\ pc[n] = "nieuw"
  BY EenSoort, Kinderen DEF VerzoekInv, Melders, Wijzigers, LeesGebruik
<1>2. /\ rij' = rij /\ meting' = meting /\ kopie' = kopie /\ gelezen' = gelezen /\ aanvaard' = aanvaard
      /\ outbox' = outbox /\ uitgegeven' = uitgegeven /\ vooraf' = vooraf /\ samenloop' = samenloop
      /\ relay' = relay /\ gepubliceerd' = gepubliceerd /\ gemarkeerd' = gemarkeerd
      /\ NaarStap(n, plaats)
  BY DEF LeesGebruik, buitenRapport, relayVars
<1>3. plaats \in {"gemeld", "bewaakt"} /\ plaats \in Bezig
  BY DEF Bezig, Geladen
<1>4. rapport' = [rapport EXCEPT ![n] = [@ EXCEPT !.gebruik = (inGebruik = "ja")]] /\ rapport[n] = Leegrapport
  BY <1>1 DEF LeesGebruik, RapportInv
<1>5. /\ rapport' \in [Rapporten \cup Netwerk ->
           [gebruik : BOOLEAN, metingen : SUBSET Metingen, incidenten : SUBSET Incidenten,
            open : SUBSET Incidenten, zwaarste : Incidenten \cup {Geen}]]
      /\ \A q \in (Rapporten \cup Netwerk) \ {n} : rapport'[q] = rapport[q]
      /\ rapport'[n] = [Leegrapport EXCEPT !.gebruik = (inGebruik = "ja")]
      /\ rapport'[n].gebruik = (inGebruik = "ja")
  <2> DEFINE u == [rapport[n] EXCEPT !.gebruik = (inGebruik = "ja")]
  <2>1. (inGebruik = "ja") \in BOOLEAN
    OBVIOUS
  <2>2. rapport[n] \in Uitslagen
    BY <1>1 DEF VerzoekTypeOK, Uitslagen, Uitslag
  <2>3. u \in Uitslagen /\ u.gebruik = (inGebruik = "ja")
    <3>1. \A b \in BOOLEAN : [rapport[n] EXCEPT !.gebruik = b] \in Uitslagen /\ [rapport[n] EXCEPT !.gebruik = b].gebruik = b
      <4> TAKE b \in BOOLEAN
      <4> QED BY <2>2, UitslagMetGebruik DEF Uitslagen
    <3> QED BY <2>1, <3>1
  <2>4. rapport' = [rapport EXCEPT ![n] = u] /\ u = [Leegrapport EXCEPT !.gebruik = (inGebruik = "ja")]
    BY <1>4
  <2> HIDE DEF u
  <2>5. n \in Rapporten \cup Netwerk
    OBVIOUS
  <2>6. /\ rapport' \in [Rapporten \cup Netwerk ->
             [gebruik : BOOLEAN, metingen : SUBSET Metingen, incidenten : SUBSET Incidenten,
              open : SUBSET Incidenten, zwaarste : Incidenten \cup {Geen}]]
        /\ rapport'[n] = u /\ \A q \in (Rapporten \cup Netwerk) \ {n} : rapport'[q] = rapport[q]
    BY <1>1, <2>3, <2>4, <2>5, RapportType
  <2> QED BY <2>3, <2>4, <2>6
<1> HIDE DEF plaats
<1>6. /\ PlaatsInv' /\ AantalInv' /\ AlleenInv'
      /\ pc' \in [Verzoeken -> {"nieuw"} \cup Bezig \cup Eind]
      /\ pc'[n] = plaats /\ \A q \in Verzoeken \ {n} : pc'[q] = pc[q]
      /\ \A a : Bestaat(a)' <=> Bestaat(a)
  BY <1>1, <1>2, <1>3, BuitenDeRijen DEF Vlucht
<1>7. VerzoekTypeOK'
  BY <1>1, <1>2, <1>5, <1>6 DEF VerzoekTypeOK
<1>8. OutboxInv' /\ RelayTypeOK'
  BY <1>1, <1>2, <1>3, <1>6, OutboxStil
<1>9. IncidentInv' /\ VolgordeInv'
  BY <1>2, <1>6, RapportStil
<1>10. RapportInv'
  <2>1. \A q \in (Rapporten \cup Netwerk) \ {n} : pc'[q] = pc[q] /\ rapport'[q] = rapport[q]
    BY <1>5, <1>6, Kinderen
  <2>2. \A q \in Rapporten : q # n /\ (Volledig(q)' <=> Volledig(q))
    BY <1>1, <1>2, <2>1 DEF Volledig
  <2>3. /\ pc'[n] # "nieuw"
        /\ pc'[n] \in {"bewaakt", "gelezen"} => inGebruik = "ja"
    BY <1>3, <1>6 DEF plaats
  <2>4. inGebruik = "ja" => rapport'[n].gebruik
    BY <1>5
  <2>5. ~rapport'[n].gebruik => rapport'[n] = [Leegrapport EXCEPT !.gebruik = FALSE]
    <3>1. CASE inGebruik = "ja"
      BY <2>4, <3>1
    <3>2. CASE inGebruik # "ja"
      <4>1. (inGebruik = "ja") = FALSE
        BY <3>2
      <4> QED BY <1>5, <4>1
    <3> QED BY <3>1, <3>2
  <2>6. /\ pc'[n] = "nieuw" => rapport'[n] = Leegrapport
        /\ pc'[n] \in {"bewaakt", "gelezen"} => rapport'[n].gebruik
    BY <2>3, <2>4
  <2> QED BY <1>1, <1>2, <1>6, <2>1, <2>2, <2>5, <2>6 DEF RapportInv
<1> QED BY <1>6, <1>7, <1>8, <1>9, <1>10 DEF VerzoekInv

\* Every incident there is has its meting among those that are read.
LEMMA LeesMetingenHoudt ==
  ASSUME VerzoekInv, NEW r \in Rapporten \cup Netwerk, LeesMetingen(r), UNCHANGED relayVars, verkeer' = verkeer
  PROVE  VerzoekInv'
<1> DEFINE gemeten == {m \in Metingen : meting[m] # Geen}
           er == {i \in Incidenten : Bestaat(i)}
<1>1. /\ VerzoekTypeOK /\ RapportInv /\ IncidentInv
      /\ r \in Verzoeken /\ r \in Melders /\ r \notin Wijzigers
      /\ r \in Rapporten => r \notin Netwerk /\ pc[r] = "nieuw"
      /\ r \in Netwerk => pc[r] = "bewaakt"
  BY EenSoort, Kinderen DEF VerzoekInv, Melders, Wijzigers, LeesMetingen
<1>2. /\ rij' = rij /\ meting' = meting /\ kopie' = kopie /\ gelezen' = gelezen /\ aanvaard' = aanvaard
      /\ outbox' = outbox /\ uitgegeven' = uitgegeven /\ samenloop' = samenloop
      /\ relay' = relay /\ gepubliceerd' = gepubliceerd /\ gemarkeerd' = gemarkeerd
      /\ NaarStap(r, "gelezen")
  BY DEF LeesMetingen, buitenRapport, relayVars
<1>3. rapport[r] \in Uitslagen /\ gemeten \in SUBSET Metingen
  BY <1>1 DEF VerzoekTypeOK, Uitslagen, Uitslag
<1>4. /\ rapport' \in [Rapporten \cup Netwerk ->
           [gebruik : BOOLEAN, metingen : SUBSET Metingen, incidenten : SUBSET Incidenten,
            open : SUBSET Incidenten, zwaarste : Incidenten \cup {Geen}]]
      /\ \A q \in (Rapporten \cup Netwerk) \ {r} : rapport'[q] = rapport[q]
      /\ rapport'[r].metingen = gemeten /\ rapport'[r].gebruik = rapport[r].gebruik
  <2> DEFINE u == [rapport[r] EXCEPT !.metingen = gemeten]
  <2>1. rapport' = [rapport EXCEPT ![r] = u]
    BY DEF LeesMetingen
  <2> HIDE DEF gemeten
  <2>2. u \in Uitslagen /\ u.metingen = gemeten /\ u.gebruik = rapport[r].gebruik
    <3> DEFINE M == SUBSET Metingen
               I == SUBSET Incidenten
               Z == Incidenten \cup {Geen}
    <3>1. rapport[r] \in Uitslag(BOOLEAN, M, I, Z) /\ gemeten \in M
      BY <1>3 DEF Uitslagen
    <3>2. u = [rapport[r] EXCEPT !.metingen = gemeten]
      OBVIOUS
    <3> HIDE DEF u, M, I, Z
    <3>3. u \in Uitslag(BOOLEAN, M, I, Z) /\ u.metingen = gemeten /\ u.gebruik = rapport[r].gebruik
      BY <3>1, <3>2, UitslagMetMetingen
    <3> QED BY <3>3 DEF Uitslagen, M, I, Z
  <2> HIDE DEF u
  <2> QED BY <1>1, <2>1, <2>2, RapportType
<1>5. /\ vooraf' \in [Rapporten -> SUBSET Incidenten]
      /\ \A q \in Rapporten \ {r} : vooraf'[q] = vooraf[q]
      /\ r \in Rapporten => vooraf'[r] = er
  <2>1. vooraf' = IF r \in Rapporten THEN [vooraf EXCEPT ![r] = er] ELSE vooraf
    BY DEF LeesMetingen
  <2>2. er \in SUBSET Incidenten
    OBVIOUS
  <2> HIDE DEF er
  <2> QED BY <1>1, <2>1, <2>2 DEF VerzoekTypeOK
<1>6. /\ PlaatsInv' /\ AantalInv' /\ AlleenInv'
      /\ pc' \in [Verzoeken -> {"nieuw"} \cup Bezig \cup Eind]
      /\ pc'[r] = "gelezen" /\ \A q \in Verzoeken \ {r} : pc'[q] = pc[q]
      /\ \A a : Bestaat(a)' <=> Bestaat(a)
  BY <1>1, <1>2, BuitenDeRijen DEF Vlucht, Bezig
<1>7. VerzoekTypeOK'
  BY <1>1, <1>2, <1>4, <1>5, <1>6 DEF VerzoekTypeOK
<1>8. OutboxInv' /\ RelayTypeOK'
  BY <1>1, <1>2, <1>6, OutboxStil
<1>9. IncidentInv' /\ VolgordeInv'
  BY <1>2, <1>6, RapportStil
<1>10. RapportInv'
  <2>1. \A q \in (Rapporten \cup Netwerk) \ {r} : pc'[q] = pc[q] /\ rapport'[q] = rapport[q]
    BY <1>4, <1>6, Kinderen
  <2>2. \A q \in Rapporten \ {r} : Volledig(q)' <=> Volledig(q)
    BY <1>5, <2>1 DEF Volledig
  <2>3. r \in Rapporten => r \notin aanvaard
    BY <1>1 DEF RapportInv
  <2>4. r \in Rapporten => /\ \A i \in vooraf'[r] : Bestaat(i)'
                           /\ vooraf'[r] \cap Metingen \subseteq rapport'[r].metingen
    <3>1. \A m \in Metingen : Bestaat(m) => meting[m] # Geen
      BY <1>1 DEF IncidentInv
    <3> QED BY <1>4, <1>5, <1>6, <3>1
  <2>5. r \in Netwerk => rapport[r].gebruik
    BY <1>1 DEF RapportInv
  <2>6. r \in Netwerk => rapport'[r].gebruik
    BY <1>4, <2>5
  <2>7. \A q \in Rapporten \ {r} : (\A i \in vooraf[q] : Bestaat(i)) => \A i \in vooraf'[q] : Bestaat(i)'
    BY <1>5, <1>6
  <2>8. \A q \in Rapporten :
          /\ pc'[q] = "gelezen" =>
               (\A i \in vooraf'[q] : Bestaat(i)') /\ vooraf'[q] \cap Metingen \subseteq rapport'[q].metingen
          /\ pc'[q] = "opgesteld" \/ q \in aanvaard' => Volledig(q)'
          /\ pc'[q] \in {"gemeld", "gestempeld", "klaar"} => q \in aanvaard'
          /\ q \in aanvaard' => pc'[q] \in {"gemeld", "gestempeld", "klaar", "mislukt"}
    <3> SUFFICES ASSUME NEW q \in Rapporten
                 PROVE  /\ pc'[q] = "gelezen" =>
                             (\A i \in vooraf'[q] : Bestaat(i)') /\ vooraf'[q] \cap Metingen \subseteq rapport'[q].metingen
                        /\ pc'[q] = "opgesteld" \/ q \in aanvaard' => Volledig(q)'
                        /\ pc'[q] \in {"gemeld", "gestempeld", "klaar"} => q \in aanvaard'
                        /\ q \in aanvaard' => pc'[q] \in {"gemeld", "gestempeld", "klaar", "mislukt"}
      OBVIOUS
    <3>1. CASE q = r
      BY <1>2, <1>6, <2>3, <2>4, <3>1
    <3>2. CASE q # r
      BY <1>1, <1>2, <1>5, <2>1, <2>2, <2>7, <3>2 DEF RapportInv
    <3> QED BY <3>1, <3>2
  <2>9. \A n \in Netwerk :
          /\ pc'[n] = "nieuw" => rapport'[n] = Leegrapport
          /\ pc'[n] \in {"bewaakt", "gelezen"} => rapport'[n].gebruik
          /\ ~rapport'[n].gebruik => rapport'[n] = [Leegrapport EXCEPT !.gebruik = FALSE]
    <3> SUFFICES ASSUME NEW n \in Netwerk
                 PROVE  /\ pc'[n] = "nieuw" => rapport'[n] = Leegrapport
                        /\ pc'[n] \in {"bewaakt", "gelezen"} => rapport'[n].gebruik
                        /\ ~rapport'[n].gebruik => rapport'[n] = [Leegrapport EXCEPT !.gebruik = FALSE]
      OBVIOUS
    <3>1. CASE n = r
      BY <1>6, <2>6, <3>1
    <3>2. CASE n # r
      <4>1. rapport'[n] = rapport[n] /\ pc'[n] = pc[n]
        BY <2>1, <3>2
      <4> QED BY <1>1, <4>1 DEF RapportInv
    <3> QED BY <3>1, <3>2
  <2> QED BY <2>8, <2>9 DEF RapportInv
<1> QED BY <1>6, <1>7, <1>8, <1>9, <1>10 DEF VerzoekInv

\* The analysis always has an answer, and every ernst its place.
LEMMA ErnstType == \A d : Ernst(d) \in {Geen, "Laag", "Middel", "Hoog", "Kritiek"}
<1> TAKE d
<1> DEFINE factor(n, m) == d.waarde * m >= Drempel[d.sensor] * n
           A == factor(1, 1)
           B == factor(5, 4)
           C == factor(3, 2)
           D == factor(2, 1)
<1>1. Ernst(d) = CASE ~A -> Geen
                   [] A /\ ~B -> "Laag"
                   [] B /\ ~C -> "Middel"
                   [] C /\ ~D -> "Hoog"
                   [] D -> "Kritiek"
  BY DEF Ernst
<1> HIDE DEF A, B, C, D
<1> QED BY <1>1

LEMMA OrdeType ==
  ASSUME NEW e \in {"Laag", "Middel", "Hoog", "Kritiek"}
  PROVE  Orde[e] \in 1 .. 4
BY DEF Orde

\* Of some incidenten one is the heaviest.
LEMMA ZwaarsteIs ==
  ASSUME NEW alle, NEW open, \A i \in open : ErnstVan(i) \in {"Laag", "Middel", "Hoog", "Kritiek"}
  PROVE  LET z == Zwaarste(alle, open)
         IN  /\ open = {} => z = Geen
             /\ open # {} => z \in open /\ \A i \in open : Orde[ErnstVan(i)] <= Orde[ErnstVan(z)]
<1> DEFINE gewicht(i) == Orde[ErnstVan(i)]
           Is(z) == z \in open /\ \A i \in open : gewicht(i) <= gewicht(z)
<1>1. \A i \in open : gewicht(i) \in 1 .. 4
  BY OrdeType
<1>2. open # {} => \E z : Is(z)
  <2> HIDE DEF gewicht
  <2>1. CASE \E z \in open : gewicht(z) = 4
    BY <1>1, <2>1
  <2>2. CASE (\A i \in open : gewicht(i) # 4) /\ \E z \in open : gewicht(z) = 3
    BY <1>1, <2>2
  <2>3. CASE (\A i \in open : gewicht(i) \notin {3, 4}) /\ \E z \in open : gewicht(z) = 2
    BY <1>1, <2>3
  <2>4. CASE \A i \in open : gewicht(i) \notin {2, 3, 4}
    BY <1>1, <2>4
  <2> QED BY <1>1, <2>1, <2>2, <2>3, <2>4
<1>3. open # {} => Zwaarste(alle, open) = CHOOSE i \in open : \A j \in open : gewicht(j) <= gewicht(i)
  BY DEF Zwaarste
<1>4. open # {} => Is(Zwaarste(alle, open))
  <2> HIDE DEF gewicht
  <2> QED BY <1>2, <1>3
<1> QED BY <1>4 DEF Zwaarste

\* Every incident has an ernst.
LEMMA ErnstVanIncident ==
  ASSUME VerzoekInv, NEW i \in Incidenten, Bestaat(i)
  PROVE  ErnstVan(i) \in {"Laag", "Middel", "Hoog", "Kritiek"}
<1>1. CASE i \in Metingen
  <2>1. Ernst(Data[i]) # Geen
    BY <1>1 DEF VerzoekInv, IncidentInv
  <2> QED BY <1>1, <2>1, ErnstType DEF ErnstVan
<1>2. CASE i \notin Metingen
  BY <1>2 DEF ErnstVan
<1> QED BY <1>1, <1>2

LEMMA LeesIncidentenHoudt ==
  ASSUME VerzoekInv, NEW r \in Rapporten \cup Netwerk, LeesIncidenten(r), UNCHANGED relayVars, verkeer' = verkeer
  PROVE  VerzoekInv'
<1> DEFINE alle == {i \in Incidenten : Bestaat(i)}
           open == {i \in alle : rij[i].status # "Opgelost"}
           lijst == IF r \in Rapporten THEN open ELSE {}
           keuze == IF r \in Rapporten THEN open ELSE alle
           plaats == IF r \in Rapporten THEN "opgesteld" ELSE "gemeld"
<1>1. /\ VerzoekTypeOK /\ RapportInv
      /\ r \in Verzoeken /\ r \in Melders /\ r \notin Wijzigers /\ pc[r] = "gelezen"
      /\ r \in Rapporten => r \notin Netwerk
  <2>1. pc[r] = "gelezen"
    BY DEF LeesIncidenten
  <2> QED BY <2>1, EenSoort, Kinderen DEF VerzoekInv, Melders, Wijzigers
<1>2. /\ rij' = rij /\ meting' = meting /\ kopie' = kopie /\ gelezen' = gelezen /\ aanvaard' = aanvaard
      /\ outbox' = outbox /\ uitgegeven' = uitgegeven /\ vooraf' = vooraf /\ samenloop' = samenloop
      /\ relay' = relay /\ gepubliceerd' = gepubliceerd /\ gemarkeerd' = gemarkeerd
      /\ NaarStap(r, plaats)
  <2>1. NaarStap(r, plaats) /\ UNCHANGED <<aanvaard, vooraf, buitenRapport>>
    BY DEF LeesIncidenten
  <2> HIDE DEF plaats
  <2> QED BY <2>1 DEF buitenRapport, relayVars
<1>3. \A i \in alle : ErnstVan(i) \in {"Laag", "Middel", "Hoog", "Kritiek"}
  BY ErnstVanIncident
<1>4. Geen \notin Incidenten
  BY Kinderen
<1>5. LET z == Zwaarste(alle, keuze)
      IN  /\ z \in Incidenten \cup {Geen}
          /\ keuze = {} => z = Geen
          /\ keuze # {} => z # Geen /\ z \in keuze /\ \A i \in keuze : Orde[ErnstVan(i)] <= Orde[ErnstVan(z)]
  <2>1. keuze \subseteq alle /\ keuze \subseteq Incidenten
    OBVIOUS
  <2>2. \A i \in keuze : ErnstVan(i) \in {"Laag", "Middel", "Hoog", "Kritiek"}
    BY <1>3, <2>1
  <2> HIDE DEF keuze, alle
  <2>3. LET z == Zwaarste(alle, keuze)
        IN  /\ keuze = {} => z = Geen
            /\ keuze # {} => z \in keuze /\ \A i \in keuze : Orde[ErnstVan(i)] <= Orde[ErnstVan(z)]
    BY <2>2, ZwaarsteIs
  <2> QED BY <1>4, <2>1, <2>3
<1>6. /\ rapport' \in [Rapporten \cup Netwerk ->
           [gebruik : BOOLEAN, metingen : SUBSET Metingen, incidenten : SUBSET Incidenten,
            open : SUBSET Incidenten, zwaarste : Incidenten \cup {Geen}]]
      /\ \A q \in (Rapporten \cup Netwerk) \ {r} : rapport'[q] = rapport[q]
      /\ rapport'[r].incidenten = alle /\ rapport'[r].open = lijst /\ rapport'[r].zwaarste = Zwaarste(alle, keuze)
      /\ rapport'[r].metingen = rapport[r].metingen /\ rapport'[r].gebruik = rapport[r].gebruik
  <2> DEFINE M == SUBSET Metingen
             I == SUBSET Incidenten
             Z == Incidenten \cup {Geen}
             z == Zwaarste(alle, keuze)
             u == [rapport[r] EXCEPT !.incidenten = alle, !.open = lijst, !.zwaarste = z]
  <2>1. rapport' = [rapport EXCEPT ![r] = u]
    BY DEF LeesIncidenten
  <2>2. rapport[r] \in Uitslag(BOOLEAN, M, I, Z) /\ alle \in I /\ lijst \in I /\ z \in Z
    <3>1. rapport[r] \in [gebruik : BOOLEAN, metingen : SUBSET Metingen, incidenten : SUBSET Incidenten,
                          open : SUBSET Incidenten, zwaarste : Incidenten \cup {Geen}]
      BY <1>1 DEF VerzoekTypeOK
    <3>2. alle \in I /\ lijst \in I /\ z \in Z
      BY <1>5
    <3> QED BY <3>1, <3>2 DEF Uitslag
  <2>3. u = [rapport[r] EXCEPT !.incidenten = alle, !.open = lijst, !.zwaarste = z]
    OBVIOUS
  <2> HIDE DEF u, M, I, Z, z, alle, lijst
  <2>4. /\ u \in Uitslag(BOOLEAN, M, I, Z)
        /\ u.incidenten = alle /\ u.open = lijst /\ u.zwaarste = z
        /\ u.metingen = rapport[r].metingen /\ u.gebruik = rapport[r].gebruik
    BY <2>2, <2>3 DEF Uitslag
  <2>5. u \in Uitslagen
    BY <2>4 DEF Uitslagen, M, I, Z
  <2>6. /\ rapport' \in [Rapporten \cup Netwerk ->
             [gebruik : BOOLEAN, metingen : SUBSET Metingen, incidenten : SUBSET Incidenten,
              open : SUBSET Incidenten, zwaarste : Incidenten \cup {Geen}]]
        /\ rapport'[r] = u /\ \A q \in (Rapporten \cup Netwerk) \ {r} : rapport'[q] = rapport[q]
    BY <1>1, <2>1, <2>5, RapportType
  <2> QED BY <2>4, <2>6 DEF z
<1>7. plaats \in {"opgesteld", "gemeld"} /\ plaats \in Bezig /\ (plaats = "opgesteld" <=> r \in Rapporten)
  BY DEF Bezig, Geladen
<1> HIDE DEF plaats
<1>8. /\ PlaatsInv' /\ AantalInv' /\ AlleenInv'
      /\ pc' \in [Verzoeken -> {"nieuw"} \cup Bezig \cup Eind]
      /\ pc'[r] = plaats /\ \A q \in Verzoeken \ {r} : pc'[q] = pc[q]
      /\ \A a : Bestaat(a)' <=> Bestaat(a)
  BY <1>1, <1>2, <1>7, BuitenDeRijen DEF Vlucht
<1>9. VerzoekTypeOK'
  BY <1>1, <1>2, <1>6, <1>8 DEF VerzoekTypeOK
<1>10. OutboxInv' /\ RelayTypeOK'
  BY <1>1, <1>2, <1>7, <1>8, OutboxStil
<1>11. IncidentInv' /\ VolgordeInv'
  BY <1>2, <1>8, RapportStil
<1>12. RapportInv'
  <2>1. \A q \in (Rapporten \cup Netwerk) \ {r} : pc'[q] = pc[q] /\ rapport'[q] = rapport[q]
    BY <1>6, <1>8, Kinderen
  <2>2. \A q \in Rapporten \ {r} : Volledig(q)' <=> Volledig(q)
    BY <1>2, <2>1 DEF Volledig
  <2>3. r \in Rapporten => r \notin aanvaard
    BY <1>1 DEF RapportInv
  <2>4. r \in Rapporten => Volledig(r)'
    <3> SUFFICES ASSUME r \in Rapporten PROVE Volledig(r)'
      OBVIOUS
    <3>1. vooraf[r] \subseteq alle /\ vooraf[r] \cap Metingen \subseteq rapport[r].metingen
      BY <1>1 DEF RapportInv, VerzoekTypeOK
    <3>2. lijst = open /\ keuze = open
      OBVIOUS
    <3> HIDE DEF alle, open, lijst, keuze
    <3>3. /\ vooraf'[r] \subseteq rapport'[r].incidenten
          /\ vooraf'[r] \cap Metingen \subseteq rapport'[r].metingen
      BY <1>2, <1>6, <3>1
    <3>4. /\ rapport'[r].zwaarste = Geen <=> rapport'[r].open = {}
          /\ rapport'[r].zwaarste # Geen =>
               /\ rapport'[r].zwaarste \in rapport'[r].open
               /\ \A i \in rapport'[r].open : Orde[ErnstVan(i)] <= Orde[ErnstVan(rapport'[r].zwaarste)]
      BY <1>5, <1>6, <3>2
    <3> QED BY <3>3, <3>4 DEF Volledig
  <2>5. r \in Netwerk => rapport'[r].gebruik
    BY <1>1, <1>6 DEF RapportInv
  <2>6. \A q \in Rapporten \ {r} : (\A i \in vooraf[q] : Bestaat(i)) => \A i \in vooraf'[q] : Bestaat(i)'
    BY <1>2, <1>8
  <2>7. \A q \in Rapporten :
          /\ pc'[q] = "gelezen" =>
               (\A i \in vooraf'[q] : Bestaat(i)') /\ vooraf'[q] \cap Metingen \subseteq rapport'[q].metingen
          /\ pc'[q] = "opgesteld" \/ q \in aanvaard' => Volledig(q)'
          /\ pc'[q] \in {"gemeld", "gestempeld", "klaar"} => q \in aanvaard'
          /\ q \in aanvaard' => pc'[q] \in {"gemeld", "gestempeld", "klaar", "mislukt"}
    <3> SUFFICES ASSUME NEW q \in Rapporten
                 PROVE  /\ pc'[q] = "gelezen" =>
                             (\A i \in vooraf'[q] : Bestaat(i)') /\ vooraf'[q] \cap Metingen \subseteq rapport'[q].metingen
                        /\ pc'[q] = "opgesteld" \/ q \in aanvaard' => Volledig(q)'
                        /\ pc'[q] \in {"gemeld", "gestempeld", "klaar"} => q \in aanvaard'
                        /\ q \in aanvaard' => pc'[q] \in {"gemeld", "gestempeld", "klaar", "mislukt"}
      OBVIOUS
    <3>1. CASE q = r
      BY <1>2, <1>7, <1>8, <2>3, <2>4, <3>1
    <3>2. CASE q # r
      BY <1>1, <1>2, <2>1, <2>2, <2>6, <3>2 DEF RapportInv
    <3> QED BY <3>1, <3>2
  <2>8. \A n \in Netwerk :
          /\ pc'[n] = "nieuw" => rapport'[n] = Leegrapport
          /\ pc'[n] \in {"bewaakt", "gelezen"} => rapport'[n].gebruik
          /\ ~rapport'[n].gebruik => rapport'[n] = [Leegrapport EXCEPT !.gebruik = FALSE]
    <3> SUFFICES ASSUME NEW n \in Netwerk
                 PROVE  /\ pc'[n] = "nieuw" => rapport'[n] = Leegrapport
                        /\ pc'[n] \in {"bewaakt", "gelezen"} => rapport'[n].gebruik
                        /\ ~rapport'[n].gebruik => rapport'[n] = [Leegrapport EXCEPT !.gebruik = FALSE]
      OBVIOUS
    <3>1. CASE n = r
      BY <1>7, <1>8, <2>5, <3>1
    <3>2. CASE n # r
      <4>1. rapport'[n] = rapport[n] /\ pc'[n] = pc[n]
        BY <2>1, <3>2
      <4> QED BY <1>1, <4>1 DEF RapportInv
    <3> QED BY <3>1, <3>2
  <2> QED BY <2>7, <2>8 DEF RapportInv
<1> QED BY <1>8, <1>9, <1>10, <1>11, <1>12 DEF VerzoekInv

LEMMA BewaarRapportHoudt ==
  ASSUME VerzoekInv, NEW r \in Rapporten, BewaarRapport(r), UNCHANGED relayVars, verkeer' = verkeer
  PROVE  VerzoekInv'
<1>1. /\ VerzoekTypeOK /\ RapportInv
      /\ r \in Verzoeken /\ r \in Melders /\ r \notin Wijzigers /\ r \notin Metingen /\ pc[r] = "opgesteld"
  BY EenSoort, Kinderen DEF VerzoekInv, Melders, Wijzigers, BewaarRapport
<1>2. /\ rij' = rij /\ meting' = meting /\ kopie' = kopie /\ gelezen' = gelezen /\ aanvaard' = aanvaard \cup {r}
      /\ outbox' = outbox /\ uitgegeven' = uitgegeven /\ vooraf' = vooraf /\ samenloop' = samenloop
      /\ relay' = relay /\ gepubliceerd' = gepubliceerd /\ gemarkeerd' = gemarkeerd /\ rapport' = rapport
      /\ NaarStap(r, "gemeld")
  BY DEF BewaarRapport, buitenRapport, relayVars
<1>3. /\ PlaatsInv' /\ AantalInv' /\ AlleenInv'
      /\ pc' \in [Verzoeken -> {"nieuw"} \cup Bezig \cup Eind]
      /\ pc'[r] = "gemeld" /\ \A q \in Verzoeken \ {r} : pc'[q] = pc[q]
      /\ \A a : Bestaat(a)' <=> Bestaat(a)
  BY <1>1, <1>2, BuitenDeRijen DEF Vlucht, Bezig, Geladen
<1>4. VerzoekTypeOK'
  BY <1>1, <1>2, <1>3 DEF VerzoekTypeOK
<1>5. OutboxInv' /\ RelayTypeOK'
  BY <1>1, <1>2, <1>3, OutboxStil
<1>6. IncidentInv' /\ VolgordeInv'
  BY <1>1, <1>2, <1>3, RapportStil
<1>7. RapportInv'
  <2>1. \A q \in (Rapporten \cup Netwerk) \ {r} : pc'[q] = pc[q]
    BY <1>3, Kinderen
  <2>2. \A q \in Rapporten : Volledig(q)' <=> Volledig(q)
    BY <1>2 DEF Volledig
  <2>3. r \notin Netwerk
    BY EenSoort
  <2> QED BY <1>1, <1>2, <1>3, <2>1, <2>2, <2>3 DEF RapportInv
<1> QED BY <1>3, <1>4, <1>5, <1>6, <1>7 DEF VerzoekInv

-----------------------------------------------------------------------------
(* The outbox and the relay *)

\* The moves of a request that is already saved, from "gemeld" to "klaar".
LEMMA PublicatieStil ==
  ASSUME VerzoekInv, NEW r \in Melders,
         \/ pc[r] = "gemeld" /\ NaarStap(r, "gestempeld")
         \/ pc[r] = "gestempeld" /\ NaarStap(r, "klaar"),
         rij' = rij, meting' = meting, rapport' = rapport, kopie' = kopie, gelezen' = gelezen,
         aanvaard' = aanvaard, vooraf' = vooraf, samenloop' = samenloop, verkeer' = verkeer
  PROVE  /\ VerzoekTypeOK' /\ PlaatsInv' /\ AantalInv' /\ IncidentInv' /\ RapportInv' /\ AlleenInv'
         /\ \A q \in Verzoeken \ {r} : pc'[q] = pc[q]
         /\ pc'[r] = IF pc[r] = "gemeld" THEN "gestempeld" ELSE "klaar"
<1>1. PICK plaats \in {"gestempeld", "klaar"} :
        /\ NaarStap(r, plaats) /\ pc[r] \in {"gemeld", "gestempeld"}
        /\ plaats = IF pc[r] = "gemeld" THEN "gestempeld" ELSE "klaar"
  OBVIOUS
<1>2. /\ VerzoekTypeOK /\ IncidentInv /\ RapportInv /\ r \in Verzoeken
      /\ r \in Wijzigers => r \in aanvaard
      /\ plaats \in Bezig \cup Eind
  BY <1>1, Kinderen DEF VerzoekInv, PlaatsInv, Bezig, Geladen, Eind
<1>3. /\ PlaatsInv' /\ AantalInv' /\ AlleenInv'
      /\ pc' \in [Verzoeken -> {"nieuw"} \cup Bezig \cup Eind]
      /\ pc'[r] = plaats /\ \A q \in Verzoeken \ {r} : pc'[q] = pc[q]
      /\ \A a : Bestaat(a)' <=> Bestaat(a)
  BY <1>1, <1>2, BuitenDeRijen DEF Vlucht
<1>4. VerzoekTypeOK'
  BY <1>2, <1>3 DEF VerzoekTypeOK
<1>5. IncidentInv'
  <2> SUFFICES ASSUME NEW m \in Metingen
               PROVE  /\ Bestaat(m)' =>
                           /\ pc'[m] \in {"gemeld", "gestempeld", "klaar", "mislukt"}
                           /\ Ernst(Data[m]) # Geen
                           /\ meting'[m] # Geen
                      /\ pc'[m] = "toegevoegd" => Ernst(Data[m]) # Geen
                      /\ meting'[m] # Geen => m \in aanvaard'
                      /\ m \in aanvaard' /\ meting'[m] = Geen => pc'[m] \in {"bewaard", "mislukt"}
    BY DEF IncidentInv
  <2>1. CASE m = r
    BY <1>1, <1>2, <1>3, <2>1 DEF IncidentInv
  <2>2. CASE m # r
    <3>1. pc'[m] = pc[m]
      BY <1>3, <2>2, Kinderen
    <3> QED BY <1>2, <1>3, <3>1 DEF IncidentInv
  <2> QED BY <2>1, <2>2
<1>6. RapportInv'
  <2>1. \A q \in Rapporten : Volledig(q)' <=> Volledig(q)
    BY DEF Volledig
  <2>2. /\ \A q \in Rapporten \cup Netwerk : q # r => pc'[q] = pc[q]
        /\ r \in Rapporten => r \in aanvaard
    BY <1>1, <1>2, <1>3, Kinderen DEF RapportInv
  <2>3. /\ \A q \in Rapporten :
             /\ pc'[q] = "gelezen" => pc[q] = "gelezen"
             /\ pc'[q] = "opgesteld" => pc[q] = "opgesteld"
             /\ pc'[q] \in {"gemeld", "gestempeld", "klaar"} => q \in aanvaard
             /\ q \in aanvaard => pc'[q] \in {"gemeld", "gestempeld", "klaar", "mislukt"}
        /\ \A n \in Netwerk : pc'[n] = pc[n] \/ pc'[n] \notin {"nieuw", "bewaakt", "gelezen"}
    BY <1>1, <1>2, <1>3, <2>2 DEF RapportInv
  <2> QED BY <1>2, <1>3, <2>1, <2>3 DEF RapportInv
<1> QED BY <1>1, <1>3, <1>4, <1>5, <1>6

LEMMA StempelHoudt ==
  ASSUME VerzoekInv, NEW r \in Melders, Stempel(r), UNCHANGED relayVars, verkeer' = verkeer
  PROVE  VerzoekInv'
<1>1. /\ RelayTypeOK /\ OutboxInv /\ VolgordeInv /\ r \in Verzoeken /\ pc[r] = "gemeld"
  BY Kinderen DEF VerzoekInv, Stempel
<1>2. /\ rij' = rij /\ meting' = meting /\ rapport' = rapport /\ kopie' = kopie /\ gelezen' = gelezen
      /\ aanvaard' = aanvaard /\ vooraf' = vooraf /\ samenloop' = samenloop /\ uitgegeven' = uitgegeven
      /\ relay' = relay /\ gepubliceerd' = gepubliceerd /\ gemarkeerd' = gemarkeerd
      /\ NaarStap(r, "gestempeld") /\ outbox' = Append(outbox, r)
  BY DEF Stempel, buitenOutbox, relayVars
<1>3. /\ VerzoekTypeOK' /\ PlaatsInv' /\ AantalInv' /\ IncidentInv' /\ RapportInv' /\ AlleenInv'
      /\ pc'[r] = "gestempeld" /\ \A q \in Verzoeken \ {r} : pc'[q] = pc[q]
  BY <1>1, <1>2, PublicatieStil
<1>4. /\ outbox' \in Seq(Verzoeken) /\ Len(outbox') = Len(outbox) + 1 /\ Len(outbox) \in Nat
      /\ outbox'[Len(outbox) + 1] = r /\ \A i \in 1 .. Len(outbox) : outbox'[i] = outbox[i] /\ outbox[i] \in Verzoeken
  BY <1>1, <1>2 DEF RelayTypeOK
<1>5. \A i \in 1 .. Len(outbox') : i \in 1 .. Len(outbox) \/ i = Len(outbox) + 1
  BY <1>4
<1>6. \A i \in 1 .. Len(outbox) : i \in 1 .. Len(outbox') /\ outbox[i] # r
  <2>1. \A i \in 1 .. Len(outbox) : outbox[i] # r
    BY <1>1 DEF OutboxInv
  <2> QED BY <1>4, <2>1
<1>7. {outbox[i] : i \in 1 .. Len(outbox)} \subseteq {outbox'[i] : i \in 1 .. Len(outbox')}
  BY <1>4, <1>6
<1>8. RelayTypeOK'
  <2>1. uitgegeven \subseteq {outbox'[i] : i \in 1 .. Len(outbox')}
    BY <1>1, <1>7 DEF RelayTypeOK
  <2>2. {outbox[i] : i \in 1 .. Len(outbox)}' = {outbox'[i] : i \in 1 .. Len(outbox')}
    OBVIOUS
  <2> QED BY <1>1, <1>2, <1>4, <2>1, <2>2 DEF RelayTypeOK
<1>9. OutboxInv'
  <2>1. \A i, j \in 1 .. Len(outbox') : outbox'[i] = outbox'[j] => i = j
    <3> SUFFICES ASSUME NEW i \in 1 .. Len(outbox'), NEW j \in 1 .. Len(outbox'), outbox'[i] = outbox'[j] PROVE i = j
      OBVIOUS
    <3>1. CASE i \in 1 .. Len(outbox) /\ j \in 1 .. Len(outbox)
      BY <1>1, <1>4, <3>1 DEF OutboxInv
    <3> QED BY <1>4, <1>5, <1>6, <3>1
  <2>2. \A i \in 1 .. Len(outbox') : pc'[outbox'[i]] \in {"gestempeld", "klaar", "mislukt"}
    <3> SUFFICES ASSUME NEW i \in 1 .. Len(outbox') PROVE pc'[outbox'[i]] \in {"gestempeld", "klaar", "mislukt"}
      OBVIOUS
    <3>1. CASE i = Len(outbox) + 1
      BY <1>3, <1>4, <3>1
    <3>2. CASE i \in 1 .. Len(outbox)
      <4>1. outbox'[i] = outbox[i] /\ pc'[outbox[i]] = pc[outbox[i]]
        BY <1>3, <1>4, <1>6, <3>2
      <4> QED BY <1>1, <3>2, <4>1 DEF OutboxInv
    <3> QED BY <1>5, <3>1, <3>2
  <2>3. \A q \in Verzoeken : pc'[q] = "gestempeld" => \E i \in 1 .. Len(outbox') : outbox'[i] = q
    <3> SUFFICES ASSUME NEW q \in Verzoeken, pc'[q] = "gestempeld"
                 PROVE  \E i \in 1 .. Len(outbox') : outbox'[i] = q
      OBVIOUS
    <3>1. CASE q = r
      <4>1. Len(outbox) + 1 \in 1 .. Len(outbox')
        BY <1>4
      <4> QED BY <1>4, <3>1, <4>1
    <3>2. CASE q # r
      <4>1. PICK i \in 1 .. Len(outbox) : outbox[i] = q
        BY <1>1, <1>3, <3>2 DEF OutboxInv
      <4> QED BY <1>4, <1>6, <4>1
    <3> QED BY <3>1, <3>2
  <2>4. \A q \in uitgegeven' : pc'[q] = "klaar"
    <3>1. uitgegeven \subseteq Verzoeken /\ r \notin uitgegeven
      BY <1>1, <1>4 DEF RelayTypeOK, OutboxInv
    <3> QED BY <1>1, <1>2, <1>3, <3>1 DEF OutboxInv
  <2>5. \A q \in Melders : pc'[q] = "klaar" => q \in uitgegeven'
    BY <1>1, <1>2, <1>3, Kinderen DEF OutboxInv
  <2> QED BY <2>1, <2>2, <2>3, <2>4, <2>5 DEF OutboxInv
<1>10. VolgordeInv'
  <2> SUFFICES ASSUME NEW o \in Oplossingen, kopie[o].id \in Metingen, ~samenloop, pc'[kopie[o].id] # "mislukt"
               PROVE  /\ kopie[o].id \in uitgegeven
                      /\ (\E i \in 1 .. Len(outbox') : outbox'[i] = o) => Ouder(kopie[o].id, o)'
                      /\ o \in relay.rest => kopie[o].id \in gepubliceerd \cup relay.rest
                      /\ o \in gepubliceerd => kopie[o].id \in gepubliceerd
    BY <1>2 DEF VolgordeInv, Ouder
  <2> DEFINE m == kopie[o].id
  <2>1. pc[m] # "mislukt"
    BY <1>1, <1>3, Kinderen
  <2>2. /\ m \in uitgegeven
        /\ (\E i \in 1 .. Len(outbox) : outbox[i] = o) => Ouder(m, o)
        /\ o \in relay.rest => m \in gepubliceerd \cup relay.rest
        /\ o \in gepubliceerd => m \in gepubliceerd
    BY <1>1, <2>1 DEF VolgordeInv
  <2>3. ASSUME NEW i \in 1 .. Len(outbox'), outbox'[i] = o PROVE Ouder(m, o)'
    <3> HIDE DEF m
    <3>1. CASE i \in 1 .. Len(outbox)
      <4>1. outbox[i] = o
        BY <1>4, <2>3, <3>1
      <4>2. PICK j, l \in 1 .. Len(outbox) : j < l /\ outbox[j] = m /\ outbox[l] = o
        BY <2>2, <3>1, <4>1 DEF Ouder
      <4>3. j \in 1 .. Len(outbox') /\ l \in 1 .. Len(outbox') /\ outbox'[j] = m /\ outbox'[l] = o
        BY <1>4, <1>6, <4>2
      <4>4. \E x, y \in 1 .. Len(outbox') : x < y /\ outbox'[x] = m /\ outbox'[y] = o
        BY <4>2, <4>3
      <4>5. Ouder(m, o)' <=> \E x, y \in 1 .. Len(outbox') : x < y /\ outbox'[x] = m' /\ outbox'[y] = o
        BY DEF Ouder
      <4>6. m' = m
        BY <1>2 DEF m
      <4> QED BY <4>4, <4>5, <4>6
    <3>2. CASE i = Len(outbox) + 1
      <4>1. PICK j \in 1 .. Len(outbox) : outbox[j] = m
        BY <1>1, <2>2 DEF RelayTypeOK
      <4>2. j \in 1 .. Len(outbox') /\ outbox'[j] = m /\ j < i
        BY <1>4, <1>6, <3>2, <4>1
      <4>4. \E x, y \in 1 .. Len(outbox') : x < y /\ outbox'[x] = m /\ outbox'[y] = o
        BY <2>3, <4>2
      <4>5. Ouder(m, o)' <=> \E x, y \in 1 .. Len(outbox') : x < y /\ outbox'[x] = m' /\ outbox'[y] = o
        BY DEF Ouder
      <4>6. m' = m
        BY <1>2 DEF m
      <4> QED BY <4>4, <4>5, <4>6
    <3> QED BY <1>5, <3>1, <3>2
  <2> QED BY <2>2, <2>3
<1> QED BY <1>3, <1>8, <1>9, <1>10 DEF VerzoekInv

LEMMA CommitHoudt ==
  ASSUME VerzoekInv, NEW r \in Melders, Commit(r), UNCHANGED relayVars, verkeer' = verkeer
  PROVE  VerzoekInv'
<1>1. /\ RelayTypeOK /\ OutboxInv /\ VolgordeInv /\ r \in Verzoeken /\ pc[r] = "gestempeld"
  BY Kinderen DEF VerzoekInv, Commit
<1>2. /\ rij' = rij /\ meting' = meting /\ rapport' = rapport /\ kopie' = kopie /\ gelezen' = gelezen
      /\ aanvaard' = aanvaard /\ vooraf' = vooraf /\ samenloop' = samenloop /\ outbox' = outbox
      /\ relay' = relay /\ gepubliceerd' = gepubliceerd /\ gemarkeerd' = gemarkeerd
      /\ NaarStap(r, "klaar") /\ uitgegeven' = uitgegeven \cup {r}
  BY DEF Commit, buitenOutbox, relayVars
<1>3. /\ VerzoekTypeOK' /\ PlaatsInv' /\ AantalInv' /\ IncidentInv' /\ RapportInv' /\ AlleenInv'
      /\ pc'[r] = "klaar" /\ \A q \in Verzoeken \ {r} : pc'[q] = pc[q]
  BY <1>1, <1>2, PublicatieStil
<1>4. r \in {outbox[i] : i \in 1 .. Len(outbox)} /\ \A i \in 1 .. Len(outbox) : outbox[i] \in Verzoeken
  BY <1>1 DEF OutboxInv, RelayTypeOK
<1>5. RelayTypeOK'
  <2>1. relay.rest \subseteq uitgegeven' /\ uitgegeven' \subseteq {outbox[i] : i \in 1 .. Len(outbox)}
    BY <1>1, <1>2, <1>4 DEF RelayTypeOK
  <2>2. relay \in [rest : SUBSET uitgegeven', gedaan : SUBSET gepubliceerd, bezig : BOOLEAN]
    <3>1. \A x : x \in SUBSET uitgegeven => x \in SUBSET uitgegeven'
      BY <1>2
    <3> QED BY <1>1, <3>1 DEF RelayTypeOK
  <2> QED BY <1>1, <1>2, <2>1, <2>2 DEF RelayTypeOK
<1>6. OutboxInv'
  <2>1. \A i \in 1 .. Len(outbox) : pc'[outbox[i]] \in {"gestempeld", "klaar", "mislukt"}
    BY <1>1, <1>3, <1>4 DEF OutboxInv
  <2>2. \A q \in Verzoeken : pc'[q] = "gestempeld" => pc[q] = "gestempeld"
    BY <1>3
  <2>3. \A q \in uitgegeven' : pc'[q] = "klaar"
    <3>1. uitgegeven \subseteq Verzoeken
      BY <1>1, <1>4 DEF RelayTypeOK
    <3> QED BY <1>1, <1>2, <1>3, <3>1 DEF OutboxInv
  <2>4. \A q \in Melders : pc'[q] = "klaar" => q \in uitgegeven'
    BY <1>1, <1>2, <1>3, Kinderen DEF OutboxInv
  <2> QED BY <1>1, <1>2, <2>1, <2>2, <2>3, <2>4 DEF OutboxInv
<1>7. VolgordeInv'
  <2>1. \A m \in Metingen : pc[m] = "mislukt" => pc'[m] = "mislukt"
    BY <1>1, <1>3, Kinderen
  <2> QED BY <1>1, <1>2, <2>1, VolgordeStil
<1> QED BY <1>3, <1>5, <1>6, <1>7 DEF VerzoekInv

\* The steps of the relay and of the consumer leave the requests alone.
LEMMA VerzoekenStil ==
  ASSUME VerzoekInv, UNCHANGED verzoekVars, verkeer' = verkeer
  PROVE  /\ VerzoekTypeOK' /\ PlaatsInv' /\ AantalInv' /\ IncidentInv' /\ OutboxInv' /\ RapportInv' /\ AlleenInv'
         /\ outbox' = outbox /\ uitgegeven' = uitgegeven /\ kopie' = kopie /\ samenloop' = samenloop /\ pc' = pc
<1>1. /\ rij' = rij /\ meting' = meting /\ rapport' = rapport /\ pc' = pc /\ kopie' = kopie /\ gelezen' = gelezen
      /\ aanvaard' = aanvaard /\ outbox' = outbox /\ uitgegeven' = uitgegeven /\ vooraf' = vooraf
      /\ samenloop' = samenloop
  BY DEF verzoekVars
<1>2. \A a : Bestaat(a)' <=> Bestaat(a)
  BY <1>1 DEF Bestaat
<1>3. InVlucht' = InVlucht
  BY <1>1 DEF InVlucht
<1>4. VerzoekTypeOK'
  BY <1>1 DEF VerzoekInv, VerzoekTypeOK
<1>5. PlaatsInv'
  BY <1>1, <1>2, <1>3 DEF VerzoekInv, PlaatsInv, Bestaat
<1>6. AantalInv' /\ OutboxInv'
  BY <1>1 DEF VerzoekInv, AantalInv, OutboxInv
<1>7. IncidentInv'
  BY <1>1, <1>2 DEF VerzoekInv, IncidentInv
<1>8. RapportInv'
  BY <1>1, <1>2 DEF VerzoekInv, RapportInv, Volledig
<1>9. AlleenInv'
  BY <1>1, AlleenStil
<1> QED BY <1>1, <1>4, <1>5, <1>6, <1>7, <1>8, <1>9

\* The rows of one request are not both before and after those of another.
LEMMA OuderAsymmetrisch ==
  ASSUME VerzoekInv, NEW q, NEW r, Ouder(q, r)
  PROVE  ~Ouder(r, q)
<1> SUFFICES ASSUME Ouder(r, q) PROVE FALSE
  OBVIOUS
<1>1. PICK i, j \in 1 .. Len(outbox) : i < j /\ outbox[i] = q /\ outbox[j] = r
  BY DEF Ouder
<1>2. PICK k, l \in 1 .. Len(outbox) : k < l /\ outbox[k] = r /\ outbox[l] = q
  BY DEF Ouder
<1>3. i = l /\ j = k
  BY <1>1, <1>2 DEF VerzoekInv, OutboxInv
<1> QED BY <1>1, <1>2, <1>3

\* The batches, over any sets of rows.
Partij(A, B) == [rest : A, gedaan : B, bezig : BOOLEAN]

LEMMA VerwerkBatchHoudt ==
  ASSUME VerzoekInv, VerwerkBatch, UNCHANGED verzoekVars, verkeer' = verkeer
  PROVE  VerzoekInv'
<1>1. /\ VerzoekTypeOK' /\ PlaatsInv' /\ AantalInv' /\ IncidentInv' /\ OutboxInv' /\ RapportInv' /\ AlleenInv'
      /\ outbox' = outbox /\ uitgegeven' = uitgegeven /\ kopie' = kopie /\ samenloop' = samenloop /\ pc' = pc
  BY VerzoekenStil
<1>2. /\ outbox \in Seq(Verzoeken) /\ uitgegeven \subseteq {outbox[i] : i \in 1 .. Len(outbox)}
      /\ gepubliceerd \subseteq uitgegeven /\ gemarkeerd \subseteq gepubliceerd
      /\ relay.rest \subseteq uitgegeven /\ relay.gedaan \subseteq gepubliceerd /\ relay.bezig \in BOOLEAN
      /\ relay \in [rest : SUBSET uitgegeven, gedaan : SUBSET gepubliceerd, bezig : BOOLEAN]
  BY DEF VerzoekInv, RelayTypeOK
<1>3. \A o \in Oplossingen : LET m == kopie[o].id IN
        m \in Metingen /\ ~samenloop /\ pc[m] # "mislukt" =>
          /\ m \in uitgegeven
          /\ (\E i \in 1 .. Len(outbox) : outbox[i] = o) => Ouder(m, o)
          /\ o \in relay.rest => m \in gepubliceerd \cup relay.rest
          /\ o \in gepubliceerd => m \in gepubliceerd
  BY DEF VerzoekInv, VolgordeInv
<1>4. CASE PakOnverzonden
  <2>1. /\ relay' = [Rust EXCEPT !.rest = Onverzonden, !.bezig = TRUE]
        /\ gepubliceerd' = gepubliceerd /\ gemarkeerd' = gemarkeerd
    BY <1>4 DEF PakOnverzonden
  <2>2. relay' = [rest |-> Onverzonden, gedaan |-> {}, bezig |-> TRUE] /\ Onverzonden \subseteq uitgegeven
    BY <2>1 DEF Rust, Onverzonden
  <2>3. relay'.rest = Onverzonden
    BY <2>2
  <2>4. relay' \in [rest : SUBSET uitgegeven, gedaan : SUBSET gepubliceerd, bezig : BOOLEAN]
    BY <2>2
  <2>5. RelayTypeOK'
    BY <1>1, <1>2, <2>1, <2>4 DEF RelayTypeOK
  <2>6. VolgordeInv'
    BY <1>1, <1>2, <1>3, <2>1, <2>3 DEF VolgordeInv, Ouder, Onverzonden
  <2> QED BY <1>1, <2>5, <2>6 DEF VerzoekInv
<1>5. CASE PubliceerRegel
  <2>1. PICK r \in relay.rest : (\A q \in relay.rest \ {r} : Ouder(r, q)) /\ Publiceer(r)
    BY <1>5 DEF PubliceerRegel
  <2>2. /\ gepubliceerd' = gepubliceerd \cup {r} /\ gemarkeerd' = gemarkeerd
        /\ relay' = [relay EXCEPT !.rest = @ \ {r}, !.gedaan = @ \cup {r}]
    BY <2>1 DEF Publiceer
  <2>3. relay'.rest = relay.rest \ {r}
    BY <1>2, <2>2
  <2>4. relay' \in [rest : SUBSET uitgegeven', gedaan : SUBSET gepubliceerd', bezig : BOOLEAN]
    <3> DEFINE A == SUBSET uitgegeven
               B == SUBSET gepubliceerd'
    <3>1. relay.rest \ {r} \in A /\ relay.gedaan \cup {r} \in B
      BY <1>2, <2>2
    <3>2. relay \in Partij(A, B)
      BY <1>2, <2>2 DEF Partij
    <3> HIDE DEF A, B
    <3>3. relay' \in Partij(A, B)
      BY <2>2, <3>1, <3>2 DEF Partij
    <3> QED BY <1>1, <3>3 DEF Partij, A, B
  <2>5. RelayTypeOK'
    BY <1>1, <1>2, <2>1, <2>2, <2>4 DEF RelayTypeOK
  <2>6. VolgordeInv'
    <3> SUFFICES ASSUME NEW o \in Oplossingen, kopie[o].id \in Metingen, ~samenloop, pc[kopie[o].id] # "mislukt"
                 PROVE  /\ kopie[o].id \in uitgegeven
                        /\ (\E i \in 1 .. Len(outbox) : outbox[i] = o) => Ouder(kopie[o].id, o)
                        /\ o \in relay'.rest => kopie[o].id \in gepubliceerd' \cup relay'.rest
                        /\ o \in gepubliceerd' => kopie[o].id \in gepubliceerd'
      BY <1>1 DEF VolgordeInv, Ouder
    <3> DEFINE m == kopie[o].id
    <3>1. /\ m \in uitgegeven
          /\ (\E i \in 1 .. Len(outbox) : outbox[i] = o) => Ouder(m, o)
          /\ o \in relay.rest => m \in gepubliceerd \cup relay.rest
          /\ o \in gepubliceerd => m \in gepubliceerd
      BY <1>3
    <3>2. o # m
      BY EenSoort, Kinderen
    <3>3. o = r => m \in gepubliceerd
      <4> SUFFICES ASSUME o = r, m \notin gepubliceerd PROVE FALSE
        OBVIOUS
      <4>1. m \in relay.rest /\ o \in uitgegeven
        BY <1>2, <2>1, <3>1
      <4>2. Ouder(o, m) /\ Ouder(m, o)
        BY <1>2, <2>1, <3>1, <3>2, <4>1
      <4> QED BY <4>2, OuderAsymmetrisch
    <3> QED BY <2>2, <2>3, <3>1, <3>3
  <2> QED BY <1>1, <2>5, <2>6 DEF VerzoekInv
<1>6. CASE MarkeerVerzonden
  <2>1. /\ relay' = Rust /\ gepubliceerd' = gepubliceerd /\ gemarkeerd' = gemarkeerd \cup relay.gedaan
    BY <1>6 DEF MarkeerVerzonden
  <2>2. /\ Rust \in [rest : SUBSET uitgegeven, gedaan : SUBSET gepubliceerd, bezig : BOOLEAN]
        /\ Rust.rest = {}
    BY DEF Rust
  <2>3. RelayTypeOK'
    BY <1>1, <1>2, <2>1, <2>2 DEF RelayTypeOK
  <2>4. VolgordeInv'
    BY <1>1, <1>3, <2>1, <2>2 DEF VolgordeInv, Ouder
  <2> QED BY <1>1, <2>3, <2>4 DEF VerzoekInv
<1> QED BY <1>4, <1>5, <1>6 DEF VerwerkBatch

-----------------------------------------------------------------------------
(* All steps *)

LEMMA VerzoekHoudt ==
  ASSUME VerzoekInv, NEW r \in Verzoeken, Verzoek(r), UNCHANGED relayVars, verkeer' = verkeer
  PROVE  VerzoekInv'
<1>1. ASSUME r \in Starts \cup Metingen, Bewaak(r) PROVE VerzoekInv'
  <2>1. UNCHANGED <<kopie, samenloop>> /\ UNCHANGED buitenKopie /\ pc[r] = "nieuw"
    BY <1>1 DEF Bewaak
  <2>2. NaarStap(r, "bewaakt") \/ NaarStap(r, "afgewezen")
    BY <1>1 DEF Bewaak
  <2> QED BY <1>1, <2>1, <2>2, ToegangHoudt
<1>2. ASSUME r \in Melders, PubliceerAsync(r) PROVE VerzoekInv'
  BY <1>2, StempelHoudt, CommitHoudt DEF PubliceerAsync
<1>3. CASE StartMonitoringSessie(r)
  BY <1>1, <1>3, StartSessieHoudt, VindHoudt, SchrijfHoudt DEF StartMonitoringSessie
<1>4. CASE WijzigSessie(r)
  BY <1>4, WijzigHoudt, VindHoudt, SchrijfHoudt DEF WijzigSessie
<1>5. CASE RegistreerMeting(r)
  BY <1>1, <1>2, <1>5, MeetHoudt, VindHoudt, SchrijfHoudt, VoegToeHoudt, MaakIncidentHoudt DEF RegistreerMeting, Melders
<1>6. CASE NeemIncidentInBehandeling(r)
  BY <1>6, WijzigHoudt, VindHoudt, SchrijfHoudt, Kinderen DEF NeemIncidentInBehandeling
<1>7. CASE LosIncidentOp(r)
  BY <1>2, <1>7, WijzigHoudt, VindHoudt, SchrijfHoudt, Kinderen DEF LosIncidentOp, Melders
<1>8. CASE StelRapportOp(r)
  BY <1>2, <1>8, LeesMetingenHoudt, LeesIncidentenHoudt, BewaarRapportHoudt DEF StelRapportOp, Melders
<1>9. CASE StelNetwerkrapportageOp(r)
  BY <1>2, <1>9, LeesGebruikHoudt, LeesMetingenHoudt, LeesIncidentenHoudt DEF StelNetwerkrapportageOp, Melders
<1> QED BY <1>3, <1>4, <1>5, <1>6, <1>7, <1>8, <1>9 DEF Verzoek

\* The requests, when the consumer or nobody moves.
LEMMA VerzoekStil ==
  ASSUME VerzoekInv, UNCHANGED verzoekVars, UNCHANGED relayVars, verkeer' = verkeer
  PROVE  VerzoekInv'
<1>1. /\ VerzoekTypeOK' /\ PlaatsInv' /\ AantalInv' /\ IncidentInv' /\ OutboxInv' /\ RapportInv' /\ AlleenInv'
      /\ outbox' = outbox /\ uitgegeven' = uitgegeven /\ kopie' = kopie /\ samenloop' = samenloop /\ pc' = pc
  BY VerzoekenStil
<1>2. relay' = relay /\ gepubliceerd' = gepubliceerd /\ gemarkeerd' = gemarkeerd
  BY DEF relayVars
<1>3. RelayTypeOK'
  BY <1>1, <1>2 DEF VerzoekInv, RelayTypeOK
<1>4. VolgordeInv'
  BY <1>1, <1>2, VolgordeStil DEF VerzoekInv
<1> QED BY <1>1, <1>3, <1>4 DEF VerzoekInv

\* What the consumer keeps.
BerichtInv == LeveringInv /\ inGebruik \in {"onbekend", "ja", "nee"}

LEMMA BehandelHoudt ==
  ASSUME BerichtInv, NEW d \in Leveringen, Behandel(d)
  PROVE  BerichtInv'
<1>1. LeveringInv /\ inGebruik \in {"onbekend", "ja", "nee"}
  BY DEF BerichtInv
<1>2. CASE (Verwerk(d) \/ MarkeerVerwerkt(d) \/ Ack(d)) /\ UNCHANGED inGebruik
  BY <1>1, <1>2, VerwerkHoudt, MarkeerHoudt, AckHoudt DEF BerichtInv
<1>3. CASE UpsertKunstwerk(d)
  <2>1. PastToe(d, "geregistreerd", "toegepast") /\ inGebruik' = "ja"
    BY <1>3 DEF UpsertKunstwerk
  <2> QED BY <1>1, <2>1, PastToeHoudt DEF BerichtInv
<1>4. CASE MarkeerBuitenGebruik(d)
  <2>1. PastToe(d, "buitengebruik", "toegepast") /\ inGebruik' \in {"onbekend", "nee"}
    BY <1>4 DEF MarkeerBuitenGebruik
  <2> QED BY <1>1, <2>1, PastToeHoudt DEF BerichtInv
<1> QED BY <1>2, <1>3, <1>4 DEF Behandel

Inv == BerichtInv /\ VerzoekInv /\ fouten \in 0 .. MaxFouten

LEMMA BeginVerzoek == Init => VerzoekInv
<1> SUFFICES ASSUME Init PROVE VerzoekInv
  OBVIOUS
<1>1. /\ verkeer \subseteq Verzoeken \cup Leveringen
      /\ meting = [m \in Metingen |-> Geen]
      /\ rapport = [r \in Rapporten \cup Netwerk |-> Leegrapport]
      /\ pc = [r \in Verzoeken |-> "nieuw"]
      /\ kopie = [r \in Verzoeken |-> GeenKopie]
      /\ gelezen = [r \in Verzoeken |-> Afwezig]
      /\ aanvaard = {} /\ outbox = <<>> /\ uitgegeven = {} /\ relay = Rust
      /\ gepubliceerd = {} /\ gemarkeerd = {} /\ vooraf = [r \in Rapporten |-> {}] /\ samenloop = FALSE
  BY DEF Init
<1>2. PICK sessie \in {Afwezig, NieuweSessie, [NieuweSessie EXCEPT !.status = "Gepauzeerd"]},
           incident \in {Afwezig, NieuwIncident} :
        rij = [a \in Aggregaten |->
                IF a = "sessie" THEN sessie ELSE IF a = "incident" THEN incident ELSE Afwezig]
  BY DEF Init
<1>3. /\ sessie \in Rijen /\ sessie.status \in {"Ontbreekt", "Actief", "Gepauzeerd"}
      /\ sessie.einde = Geen /\ sessie.aantal = 0
  <2> DEFINE pauze == [NieuweSessie EXCEPT !.status = "Gepauzeerd"]
  <2>1. pauze \in Rijen /\ pauze.status = "Gepauzeerd" /\ pauze.einde = Geen /\ pauze.aantal = 0
    <3>1. NieuweSessie \in Rijen /\ NieuweSessie.einde = Geen /\ NieuweSessie.aantal = 0
      BY BeginrijType
    <3> QED BY <3>1 DEF Rijen
  <2> HIDE DEF pauze
  <2> QED BY <2>1, BeginrijType DEF pauze
<1>4. incident \in Rijen /\ incident.aantal = 0 /\ incident.einde = Geen
  BY BeginrijType
<1>5. /\ rij \in [Aggregaten -> Rijen]
      /\ \A a \in Aggregaten : rij[a].aantal = 0 /\ rij[a].einde = Geen
  BY <1>2, <1>3, <1>4, BeginrijType
<1>6. /\ \A r \in Verzoeken : r \in Aggregaten => ~Bestaat(r)
      /\ \A s \in Sessies : rij[s].status \in {"Ontbreekt", "Actief", "Gepauzeerd"}
      /\ Lopende \subseteq {"sessie"}
  <2>1. \A r \in Verzoeken : r # "sessie" /\ r # "incident"
    BY EenSoort
  <2>2. "incident" \notin Sessies
    BY <2>1, Kinderen, MonitoringAssumption DEF Sessies
  <2>3. \A s \in Sessies : s \in Aggregaten /\ s # "incident"
    BY <2>2, Kinderen
  <2> QED BY <1>2, <1>3, <2>1, <2>3, BeginrijType DEF Bestaat, Lopende
<1>7. \A q \in Verzoeken : pc[q] = "nieuw" /\ kopie[q].id = Geen /\ kopie[q].rij = Afwezig /\ kopie[q] = GeenKopie
  BY <1>1 DEF GeenKopie
<1>8. InVlucht = {}
  BY <1>7, Kinderen DEF InVlucht, Vlucht
<1>9. VerzoekTypeOK
  <2>1. kopie \in [Verzoeken -> [id : Aggregaten \cup {Geen}, rij : Rijen]] /\ gelezen \in [Verzoeken -> Rijen]
    BY <1>1, BeginrijType DEF GeenKopie
  <2>2. rapport \in [Rapporten \cup Netwerk ->
          [gebruik : BOOLEAN, metingen : SUBSET Metingen, incidenten : SUBSET Incidenten,
           open : SUBSET Incidenten, zwaarste : Incidenten \cup {Geen}]]
    <3>1. Leegrapport \in [gebruik : BOOLEAN, metingen : SUBSET Metingen, incidenten : SUBSET Incidenten,
                           open : SUBSET Incidenten, zwaarste : Incidenten \cup {Geen}]
      BY DEF Leegrapport
    <3> QED BY <1>1, <3>1
  <2> QED BY <1>1, <1>5, <2>1, <2>2 DEF VerzoekTypeOK
<1>10. RelayTypeOK
  BY <1>1 DEF RelayTypeOK, Rust
<1>11. PlaatsInv
  BY <1>1, <1>6, <1>7, <1>8, Kinderen DEF PlaatsInv, Vlucht
<1>12. AantalInv
  <2>1. /\ Cardinality(aanvaard \cap Metingen) >= 0
        /\ \A q : Cardinality((aanvaard \cup {q}) \cap Metingen) >= 0
    <3>1. \A C : Cardinality(C \cap Metingen) >= 0
      <4>1. \A C : Cardinality(C \cap Metingen) \in Nat
        BY AantalMetingen
      <4> QED BY <4>1
    <3> QED BY <3>1
  <2>2. \A q \in Verzoeken : kopie[q].rij.aantal = 0
    BY <1>7, BeginrijType
  <2>3. \A q \in Verzoeken : kopie[q].rij.aantal <= Cardinality((aanvaard \cup {q}) \cap Metingen)
    BY <2>1, <2>2
  <2>4. \A a \in Aggregaten : rij[a].aantal <= Cardinality(aanvaard \cap Metingen)
    BY <1>5, <2>1
  <2> QED BY <2>3, <2>4 DEF AantalInv
<1>13. IncidentInv
  BY <1>1, <1>6, <1>7, Kinderen DEF IncidentInv
<1>14. OutboxInv
  BY <1>1, <1>7, Kinderen DEF OutboxInv
<1>15. VolgordeInv
  BY <1>7, Kinderen DEF VolgordeInv
<1>16. RapportInv
  <2>1. \A n \in Netwerk : rapport[n] = Leegrapport
    BY <1>1
  <2>2. Leegrapport.gebruik
    BY DEF Leegrapport
  <2>3. \A n \in Netwerk : pc[n] = "nieuw" /\ rapport[n].gebruik
    BY <1>7, <2>1, <2>2, Kinderen
  <2> QED BY <1>1, <1>7, <2>1, <2>3, Kinderen DEF RapportInv
<1>17. AlleenInv
  <2>1. \A s \in Sessies : SessieInv(s)
    <3> SUFFICES ASSUME NEW s \in Sessies PROVE SessieInv(s)
      OBVIOUS
    <3>1. {m \in aanvaard \cap Metingen : kopie[m].id = s} = {}
      BY <1>1
    <3>2. Cardinality({m \in aanvaard \cap Metingen : kopie[m].id = s}) = 0
      BY <3>1, FS_EmptySet
    <3> QED BY <1>5, <1>6, <3>2, Kinderen DEF SessieInv
  <2> QED BY <1>6, <1>8, <2>1 DEF AlleenInv
<1> QED BY <1>9, <1>10, <1>11, <1>12, <1>13, <1>14, <1>15, <1>16, <1>17 DEF VerzoekInv

LEMMA Begin == Init => Inv
<1> SUFFICES ASSUME Init PROVE Inv
  OBVIOUS
<1>1. LeveringInit(verkeer) /\ inGebruik \in {"onbekend", "ja"} /\ fouten = 0
  BY DEF Init
<1>2. LeveringInv
  <2>1. \A d \in verkeer \cap Leveringen : <<Bericht(d), 1>> \in verkeer
    <3> SUFFICES ASSUME NEW d \in verkeer \cap Leveringen PROVE <<Bericht(d), 1>> \in verkeer
      OBVIOUS
    <3>1. Bericht(d) \in Berichten /\ d = <<Bericht(d), d[2]>> /\ d[2] \in 1 .. Kopieen[Bericht(d)]
      BY LeveringIsKopie
    <3>2. d[2] = 1
      BY <3>1, MonitoringAssumption
    <3> QED BY <3>1, <3>2
  <2> QED BY <1>1, <2>1, LeveringBegin
<1>3. fouten \in 0 .. MaxFouten
  BY <1>1, MonitoringAssumption
<1> QED BY <1>1, <1>2, <1>3, BeginVerzoek DEF Inv, BerichtInv

LEMMA Stappen == Inv /\ [Next]_vars => Inv'
<1> SUFFICES ASSUME Inv, [Next]_vars PROVE Inv'
  OBVIOUS
<1>1. BerichtInv /\ VerzoekInv /\ fouten \in 0 .. MaxFouten /\ LeveringInv /\ VerzoekTypeOK
  BY DEF Inv, BerichtInv, VerzoekInv
<1>2. CASE Stap
  <2>1. verkeer' = verkeer /\ fouten' = fouten
    BY <1>2 DEF Stap
  <2>2. ASSUME NEW r \in Verzoeken, Verzoek(r), UNCHANGED leveringVars, inGebruik' = inGebruik, UNCHANGED relayVars
        PROVE  Inv'
    <3>1. BerichtInv'
      BY <1>1, <2>2, LeveringStil DEF BerichtInv
    <3>2. VerzoekInv'
      BY <1>1, <2>1, <2>2, VerzoekHoudt
    <3> QED BY <1>1, <2>1, <3>1, <3>2 DEF Inv
  <2>3. ASSUME NEW d \in Leveringen, Behandel(d), UNCHANGED verzoekVars, UNCHANGED relayVars
        PROVE  Inv'
    <3>1. BerichtInv'
      BY <1>1, <2>3, BehandelHoudt
    <3>2. VerzoekInv'
      BY <1>1, <2>1, <2>3, VerzoekStil
    <3> QED BY <1>1, <2>1, <3>1, <3>2 DEF Inv
  <2>4. CASE VerwerkBatch /\ UNCHANGED <<leveringVars, inGebruik, verzoekVars>>
    <3>1. BerichtInv'
      BY <1>1, <2>4, LeveringStil DEF BerichtInv
    <3>2. VerzoekInv'
      BY <1>1, <2>1, <2>4, VerwerkBatchHoudt
    <3> QED BY <1>1, <2>1, <3>1, <3>2 DEF Inv
  <2> QED BY <1>2, <2>2, <2>3, <2>4 DEF Stap
<1>3. ASSUME Fout PROVE fouten' \in 0 .. MaxFouten /\ verkeer' = verkeer /\ inGebruik' = inGebruik
  BY <1>1, <1>3, MonitoringAssumption DEF Fout
<1>4. CASE BreekVerzoek
  <2>1. PICK r \in verkeer \cap Verzoeken : pc[r] \in Bezig /\ NaarStap(r, "mislukt")
    BY <1>4 DEF BreekVerzoek
  <2>2. /\ Fout /\ UNCHANGED leveringVars /\ UNCHANGED relayVars /\ UNCHANGED buitenPc
    BY <1>4 DEF BreekVerzoek
  <2>3. BerichtInv'
    BY <1>1, <1>3, <2>2, LeveringStil DEF BerichtInv
  <2>4. /\ pc' \in [Verzoeken -> {"nieuw"} \cup Bezig \cup Eind]
        /\ \A q \in Verzoeken : pc'[q] = pc[q] \/ (pc[q] \in Bezig /\ pc'[q] = "mislukt")
    <3>1. "mislukt" \in {"nieuw"} \cup Bezig \cup Eind
      BY DEF Eind
    <3> QED BY <1>1, <2>1, <3>1, Verplaats
  <2>5. VerzoekInv'
    BY <1>1, <1>3, <2>2, <2>4, VerzetHoudt DEF buitenPc, relayVars
  <2> QED BY <1>3, <2>2, <2>3, <2>5 DEF Inv
<1>5. CASE WeigerBericht
  <2>1. PICK d \in Leveringen : Fout /\ Nack(d) /\ UNCHANGED verzoekVars /\ UNCHANGED relayVars
    BY <1>5 DEF WeigerBericht
  <2>2. BerichtInv'
    BY <1>1, <1>3, <2>1, NackHoudt DEF BerichtInv
  <2>3. VerzoekInv'
    BY <1>1, <1>3, <2>1, VerzoekStil
  <2> QED BY <1>3, <2>1, <2>2, <2>3 DEF Inv
<1>6. CASE BreekRelay
  <2>1. /\ Fout /\ relay' = Rust /\ UNCHANGED leveringVars /\ UNCHANGED verzoekVars
        /\ gepubliceerd' = gepubliceerd /\ gemarkeerd' = gemarkeerd
    BY <1>6 DEF BreekRelay
  <2>2. BerichtInv'
    BY <1>1, <1>3, <2>1, LeveringStil DEF BerichtInv
  <2>3. pc' = pc /\ UNCHANGED buitenPc
    BY <2>1 DEF verzoekVars, buitenPc
  <2>4. pc' \in [Verzoeken -> {"nieuw"} \cup Bezig \cup Eind] /\ \A q \in Verzoeken : pc'[q] = pc[q]
    BY <1>1, <2>3 DEF VerzoekTypeOK
  <2>5. VerzoekInv'
    BY <1>1, <1>3, <2>1, <2>3, <2>4, VerzetHoudt DEF buitenPc
  <2> QED BY <1>3, <2>1, <2>2, <2>5 DEF Inv
<1>7. CASE Herstart
  <2>1. /\ Fout /\ LeverOpnieuw /\ relay' = Rust /\ UNCHANGED buitenPc
        /\ gepubliceerd' = gepubliceerd /\ gemarkeerd' = gemarkeerd
        /\ pc' = [r \in Verzoeken |-> IF pc[r] \in Bezig THEN "mislukt" ELSE pc[r]]
    BY <1>7 DEF Herstart
  <2>2. BerichtInv'
    BY <1>1, <1>3, <2>1, LeverOpnieuwHoudt DEF BerichtInv
  <2>3. /\ pc' \in [Verzoeken -> {"nieuw"} \cup Bezig \cup Eind]
        /\ \A q \in Verzoeken : pc'[q] = pc[q] \/ (pc[q] \in Bezig /\ pc'[q] = "mislukt")
    BY <1>1, <2>1 DEF VerzoekTypeOK, Eind
  <2>4. VerzoekInv'
    BY <1>1, <1>3, <2>1, <2>3, VerzetHoudt DEF buitenPc
  <2> QED BY <1>3, <2>1, <2>2, <2>4 DEF Inv
<1>8. CASE UNCHANGED vars
  <2>1. /\ UNCHANGED leveringVars /\ inGebruik' = inGebruik /\ UNCHANGED verzoekVars /\ UNCHANGED relayVars
        /\ verkeer' = verkeer /\ fouten' = fouten
    BY <1>8 DEF vars
  <2>2. BerichtInv'
    BY <1>1, <2>1, LeveringStil DEF BerichtInv
  <2>3. VerzoekInv'
    BY <1>1, <2>1, VerzoekStil
  <2> QED BY <1>1, <2>1, <2>2, <2>3 DEF Inv
<1> QED BY <1>2, <1>4, <1>5, <1>6, <1>7, <1>8 DEF Next

LEMMA Altijd == Spec => []Inv
BY Begin, Stappen, PTL DEF Spec

-----------------------------------------------------------------------------

\* The tables, the outbox, the relay and the requests have values of their types; a row
\* never counts more metingen than there are.
THEOREM TypeCorrect == Spec => []TypeOK
<1>1. Inv => TypeOK
  BY DEF Inv, BerichtInv, LeveringInv, VerzoekInv, VerzoekTypeOK, RelayTypeOK, TypeOK
<1> QED BY Altijd, <1>1, PTL

\* As long as no two requests were at work on the same thing, at most one sessie runs, it
\* counts the metingen it accepted, and each of those has its row or broke off on the way.
THEOREM SessieBlijftKloppen == Spec => []SessieKlopt
<1>1. Inv => SessieKlopt
  <2> SUFFICES ASSUME Inv, ~samenloop PROVE SessieKlopt
    BY DEF SessieKlopt
  <2>1. /\ \A s, t \in Lopende : s = t
        /\ \A s \in Sessies : SessieInv(s)
        /\ IncidentInv
    BY DEF Inv, VerzoekInv, AlleenInv
  <2>2. Cardinality(Lopende) <= 1
    <3>1. CASE Lopende = {}
      BY <3>1, FS_EmptySet
    <3>2. CASE Lopende # {}
      <4>1. PICK s \in Lopende : TRUE
        BY <3>2
      <4>2. Lopende = {s}
        BY <2>1, <4>1
      <4> QED BY <4>2, FS_Singleton
    <3> QED BY <3>1, <3>2
  <2>3. \A s \in Sessies :
          /\ rij[s].einde # Geen <=> rij[s].status = "Afgerond"
          /\ rij[s].aantal = Cardinality({m \in aanvaard \cap Metingen : kopie[m].id = s})
    BY <2>1 DEF SessieInv
  <2>4. \A m \in Metingen :
          /\ meting[m] # Geen => m \in aanvaard
          /\ m \in aanvaard /\ meting[m] = Geen => pc[m] \in {"bewaard", "mislukt"}
    BY <2>1 DEF IncidentInv
  <2> QED BY <2>2, <2>3, <2>4 DEF SessieKlopt
<1> QED BY Altijd, <1>1, PTL

\* The resolution of an incident does not reach the exchange ahead of its creation, unless
\* the two requests overlapped or the first broke off; and an incident nobody was told of
\* has its request or the relay still to come, or its request broke off.
THEOREM IncidentWordtVerteld == Spec => []IncidentVerteld
<1>1. Inv => IncidentVerteld
  <2> SUFFICES ASSUME Inv PROVE IncidentVerteld
    OBVIOUS
  <2>1. VolgordeInv /\ IncidentInv /\ OutboxInv /\ RelayTypeOK
    BY DEF Inv, VerzoekInv
  <2>2. ASSUME NEW o \in gepubliceerd \cap Oplossingen, kopie[o].id \in Metingen \ gepubliceerd
        PROVE  samenloop \/ pc[kopie[o].id] = "mislukt"
    BY <2>1, <2>2 DEF VolgordeInv
  <2>3. ASSUME NEW m \in Metingen, Bestaat(m), m \notin gepubliceerd
        PROVE  pc[m] \in {"gemeld", "gestempeld", "mislukt"} \/ m \in Onverzonden
    <3>1. pc[m] \in {"gemeld", "gestempeld", "klaar", "mislukt"}
      BY <2>1, <2>3 DEF IncidentInv
    <3>2. pc[m] = "klaar" => m \in uitgegeven
      BY <2>1 DEF OutboxInv, Melders
    <3>3. m \notin gemarkeerd
      BY <2>1, <2>3 DEF RelayTypeOK
    <3> QED BY <3>1, <3>2, <3>3 DEF Onverzonden
  <2> QED BY <2>2, <2>3 DEF IncidentVerteld
<1> QED BY Altijd, <1>1, PTL

\* A saved rapport lists every incident that was there when it was begun, with its meting,
\* and the heaviest of the open ones; it is published only when it was saved.
THEOREM RapportBlijftKloppen == Spec => []RapportKlopt
<1>1. Inv => RapportKlopt
  <2> SUFFICES ASSUME Inv PROVE RapportKlopt
    OBVIOUS
  <2>1. RapportInv /\ OutboxInv /\ RelayTypeOK
    BY DEF Inv, VerzoekInv
  <2>2. \A r \in aanvaard \cap Rapporten : Volledig(r)
    BY <2>1 DEF RapportInv
  <2>3. gepubliceerd \cap Rapporten \subseteq aanvaard
    <3>1. \A r \in gepubliceerd \cap Rapporten : pc[r] = "klaar"
      BY <2>1 DEF OutboxInv, RelayTypeOK
    <3> QED BY <2>1, <3>1 DEF RapportInv
  <2>4. \A n \in Netwerk : ~rapport[n].gebruik => rapport[n] = [Leegrapport EXCEPT !.gebruik = FALSE]
    BY <2>1 DEF RapportInv
  <2> QED BY <2>2, <2>3, <2>4 DEF RapportKlopt, Volledig
<1> QED BY Altijd, <1>1, PTL

\* A step changes a row by a save, or by making an incident.
LEMMA WieSchrijft ==
  ASSUME [Next]_vars
  PROVE  \/ rij' = rij
         \/ \E r \in Verzoeken : Schrijf(r)
         \/ \E m \in Metingen : MaakIncident(m)
<1>1. CASE Stap
  <2>1. ASSUME NEW r \in Verzoeken, Verzoek(r) PROVE rij' = rij \/ Schrijf(r) \/ (r \in Metingen /\ MaakIncident(r))
    <3>1. Bewaak(r) \/ StartSessie(r) \/ Meet(r) \/ Wijzig(r) => rij' = rij
      <4>1. UNCHANGED buitenKopie => rij' = rij
        BY DEF buitenKopie
      <4> QED BY <4>1 DEF Bewaak, StartSessie, Meet, Wijzig
    <3>2. Vind(r) \/ VoegToe(r) \/ PubliceerAsync(r) => rij' = rij
      <4>1. UNCHANGED buitenOutbox => rij' = rij
        BY DEF buitenOutbox
      <4>2. Vind(r) \/ VoegToe(r) => rij' = rij
        BY DEF Vind, VoegToe
      <4>3. PubliceerAsync(r) => UNCHANGED buitenOutbox
        BY DEF PubliceerAsync, Stempel, Commit
      <4> QED BY <4>1, <4>2, <4>3
    <3>3. LeesGebruik(r) \/ LeesMetingen(r) \/ LeesIncidenten(r) \/ BewaarRapport(r) => rij' = rij
      <4>1. UNCHANGED buitenRapport => rij' = rij
        BY DEF buitenRapport
      <4>2. LeesGebruik(r) => UNCHANGED buitenRapport
        BY Zenon DEF LeesGebruik
      <4>3. LeesMetingen(r) \/ LeesIncidenten(r) \/ BewaarRapport(r) => UNCHANGED buitenRapport
        BY DEF LeesMetingen, LeesIncidenten, BewaarRapport
      <4> QED BY <4>1, <4>2, <4>3
    <3>4. \/ Bewaak(r) \/ StartSessie(r) \/ Meet(r) \/ Wijzig(r)
          \/ Vind(r) \/ VoegToe(r) \/ PubliceerAsync(r)
          \/ LeesGebruik(r) \/ LeesMetingen(r) \/ LeesIncidenten(r) \/ BewaarRapport(r)
          \/ Schrijf(r) \/ (r \in Metingen /\ MaakIncident(r))
      BY <2>1 DEF Verzoek, StartMonitoringSessie, WijzigSessie, RegistreerMeting,
         NeemIncidentInBehandeling, LosIncidentOp, StelRapportOp, StelNetwerkrapportageOp
    <3> QED BY <3>1, <3>2, <3>3, <3>4
  <2>2. UNCHANGED verzoekVars => rij' = rij
    BY DEF verzoekVars
  <2> QED BY <1>1, <2>1, <2>2 DEF Stap
<1>2. CASE BreekVerzoek \/ Herstart
  BY <1>2 DEF BreekVerzoek, Herstart, buitenPc
<1>3. CASE WeigerBericht \/ BreekRelay \/ UNCHANGED vars
  BY <1>3 DEF WeigerBericht, BreekRelay, vars, verzoekVars
<1> QED BY <1>1, <1>2, <1>3 DEF Next

\* A sessie that is Afgerond stays as it is: without overlap a save concerns a sessie that
\* still runs, or a new one.
THEOREM AfgerondIsAfgerond == Spec => AfgerondeSessieBlijft
<1>1. ASSUME Inv, [Next]_vars, ~samenloop', NEW s \in Sessies, rij[s].status = "Afgerond"
      PROVE  rij'[s] = rij[s]
  <2>1. rij \in [Aggregaten -> Rijen] /\ s \in Aggregaten
    BY <1>1, Kinderen DEF Inv, VerzoekInv, VerzoekTypeOK
  <2>2. ASSUME NEW r \in Verzoeken, Schrijf(r) PROVE rij'[s] = rij[s]
    <3>1. /\ ~samenloop /\ pc[r] = "gevonden" /\ r \in InVlucht /\ r \in Wijzigers
          /\ kopie[r].id \in Terrein(r)
      BY <1>1, <2>2 DEF Schrijf, buitenRij, Inv, VerzoekInv, PlaatsInv, InVlucht, Vlucht
    <3>2. kopie[r].id # s
      <4>1. CASE r \in Sessieschrijvers
        <5>1. KopieKlopt(r)
          BY <1>1, <3>1, <4>1 DEF Inv, VerzoekInv, AlleenInv
        <5>2. r \in Starts => kopie[r].id = r /\ rij[r].status = "Ontbreekt"
          BY <3>1, <5>1, TerreinType DEF KopieKlopt, Bestaat
        <5>3. r \notin Starts => rij[kopie[r].id].status \in {"Actief", "Gepauzeerd"}
          BY <4>1, <5>1 DEF KopieKlopt, Sessieschrijvers
        <5> QED BY <1>1, <5>2, <5>3
      <4>2. CASE r \notin Sessieschrijvers
        <5>1. r \in Incidentwijzigingen
          BY <3>1, <4>2 DEF Wijzigers, Sessieschrijvers
        <5> QED BY <3>1, <5>1, TerreinType, Kinderen
      <4> QED BY <4>1, <4>2
    <3>3. \E nieuw : rij' = [rij EXCEPT ![kopie[r].id] = nieuw]
      BY <2>2 DEF Schrijf
    <3> QED BY <2>1, <3>2, <3>3
  <2>3. ASSUME NEW m \in Metingen, MaakIncident(m) PROVE rij'[s] = rij[s]
    <3>1. m # s
      BY Kinderen
    <3> QED BY <2>1, <2>3, <3>1 DEF MaakIncident
  <2> QED BY <1>1, <2>2, <2>3, WieSchrijft
<1>2. Inv /\ [Next]_vars => [~samenloop' => \A s \in Sessies : rij[s].status = "Afgerond" => rij'[s] = rij[s]]_vars
  BY <1>1
<1> QED BY Altijd, <1>2, PTL DEF Spec, AfgerondeSessieBlijft
=============================================================================
