------------------------------ MODULE Onderhoud ------------------------------
(***************************************************************************)
(* The Onderhoud service for one kunstwerk: one onderhoudstraject with the  *)
(* storing it answers, the requests on them (onderhoud.controller.ts,       *)
(* storing.controller.ts, schema.controller.ts), and the three consumers    *)
(* with their read models.                                                 *)
(*                                                                         *)
(* findOne reads the row and its eager relations in one query.  save (of    *)
(* TypeORM) first reads the stored entity again, and then writes, in one    *)
(* transaction, the columns in which the copy in memory differs from what   *)
(* it has just read and the rows that are new.  A child row that it has     *)
(* read and the copy lacks is detached: its foreign key is set to NULL,     *)
(* which the NOT NULL column refuses, so that the save fails.               *)
(*                                                                         *)
(* Events are published after the saves, straight to the channel.           *)
(***************************************************************************)
EXTENDS Consument

CONSTANTS
  Meldingen,      \* MeldStoring: the request that reports the storing
  Diagnoses,      \* StelDiagnose over HTTP
  Starts,         \* StartOnderhoud
  Inspecties,     \* RegistreerInspectie
  Goedgekeurd,    \* the inspecties with oordeel Goedgekeurd
  Afrondingen,    \* RondOnderhoudAf
  Facturen,       \* OntvangFactuur, also through the aannemer's ACL
  Keuringen,      \* KeurFactuurGoed
  Schemas,        \* MaakSchema
  Eerder,         \* stands for a request that ended before the behaviour begins
  Zwaar,          \* the incidents of ernst Hoog or Kritiek
  Validatie,      \* "soepel" or "streng"
  MaxVerkeer,     \* bound: requests and deliveries in one behaviour
  MaxFouten       \* bound: database errors and deaths of the process

Trajectverzoeken == Starts \cup Inspecties \cup Afrondingen \cup Facturen \cup Keuringen
Verzoeken == Trajectverzoeken \cup Meldingen \cup Diagnoses \cup Schemas

QueueVan(soort) ==
  CASE soort \in {"geregistreerd", "buitengebruik", "onderhoudseisen"} -> "onderhoud.beheer"
    [] soort \in {"gegund", "afgerond"} -> "onderhoud.contract"
    [] soort = "incident" -> "onderhoud.monitoring-incident"

\* A request is of one kind.
ASSUME OnderhoudAssumption ==
  /\ Starts \cap (Inspecties \cup Afrondingen \cup Facturen \cup Keuringen) = {}
  /\ Inspecties \cap (Afrondingen \cup Facturen \cup Keuringen) = {}
  /\ Afrondingen \cap (Facturen \cup Keuringen) = {} /\ Facturen \cap Keuringen = {}
  /\ Trajectverzoeken \cap (Meldingen \cup Diagnoses \cup Schemas) = {}
  /\ Meldingen \cap (Diagnoses \cup Schemas) = {} /\ Diagnoses \cap Schemas = {}
  /\ \A b \in Berichten : Queue[b] = QueueVan(Soort[b])
  /\ \A b \in Berichten : QueueVan(Soort[b]) = "onderhoud.beheer" => Kopieen[b] = 1
  /\ Verzoeken \cap Leveringen = {} /\ Eerder \notin Verzoeken
  /\ Goedgekeurd \subseteq Inspecties /\ Zwaar \subseteq {b \in Berichten : Soort[b] = "incident"}
  /\ Validatie \in {"soepel", "streng"}
  /\ MaxVerkeer \in Nat /\ MaxFouten \in Nat

VARIABLES
  verkeer,       \* the requests and deliveries that this behaviour sees
  traject,       \* the rows of the traject in onderhoud, inspectie and factuur
  storing,       \* the status of the storing, or "Ontbreekt"
  schemas,       \* onderhouds_schema
  diagnoses,     \* how many trajecten the consumer planned for an incident
  inGebruik,     \* bekend_kunstwerk: "onbekend", "ja" or "nee"
  eisen,         \* onderhoudseis: the message whose eisen it holds, or Geen
  contract,      \* geldend_contract: "onbekend", "actief" or "afgerond"
  pc,            \* where request r is
  kopie,         \* the traject in the memory of r
  gelezen,       \* what the save of r read back
  aanvaard,      \* history: the requests whose change was saved
  uitgegeven,    \* the requests whose event was published
  fouten,        \* faults so far
  samenloop      \* history: did a request read the traject while another was at work on it?

leesmodel   == <<inGebruik, eisen, contract, diagnoses>>
verzoekVars == <<traject, storing, schemas, pc, kopie, gelezen, aanvaard, uitgegeven, samenloop>>
vars == <<leveringVars, leesmodel, verzoekVars, verkeer, fouten>>

Trajecten ==
  [status : {"Ontbreekt", "Gepland", "Gestart", "Afgerond"},
   start : Starts \cup {Eerder, Geen},            \* gestartOp
   contract : BOOLEAN,                            \* contractId
   resultaat : Afrondingen \cup {Eerder, Geen},   \* afgerondOp, resultaat
   inspecties : SUBSET (Inspecties \cup {Eerder}),
   facturen : [Facturen \cup {Eerder} -> {"geen", "Ontvangen", "Goedgekeurd"}]]

Gepland ==
  [status |-> "Gepland", start |-> Geen, contract |-> FALSE, resultaat |-> Geen,
   inspecties |-> {}, facturen |-> [f \in Facturen \cup {Eerder} |-> "geen"]]

\* What earlier requests can have left.
Beginstanden ==
  LET gestart == [Gepland EXCEPT !.status = "Gestart", !.start = Eerder, !.contract = TRUE]
      gekeurd == [gestart EXCEPT !.inspecties = {Eerder}]
  IN  {[Gepland EXCEPT !.status = "Ontbreekt"], Gepland, gestart, gekeurd,
       [gekeurd EXCEPT !.status = "Afgerond", !.resultaat = Eerder, !.facturen[Eerder] = "Ontvangen"]}

Gelezen == {"gelezen", "gecontroleerd", "vergeleken"}
Bezig   == Gelezen \cup {"gepland", "bewaard", "storing", "afgewikkeld"}
Eind    == {"klaar", "afgewezen", "mislukt"}

TypeOK ==
  /\ LeveringTypeOK
  /\ verkeer \subseteq Verzoeken \cup Leveringen
  /\ traject \in Trajecten
  /\ storing \in {"Ontbreekt", "Gemeld", "InBehandeling", "Afgehandeld"}
  /\ schemas \subseteq Schemas
  /\ diagnoses \in [Berichten -> 0 .. 2 * (MaxFouten + 1)]
  /\ inGebruik \in {"onbekend", "ja", "nee"}
  /\ eisen \in Berichten \cup {Geen}
  /\ contract \in {"onbekend", "actief", "afgerond"}
  /\ pc \in [Verzoeken -> {"nieuw"} \cup Bezig \cup Eind]
  /\ kopie \in [Trajectverzoeken -> Trajecten]
  /\ gelezen \in [Trajectverzoeken -> Trajecten]
  /\ aanvaard \subseteq Verzoeken
  /\ uitgegeven \subseteq aanvaard
  /\ fouten \in 0 .. MaxFouten
  /\ samenloop \in BOOLEAN

\* The requests that read what the consumers write; the steps of the others and those of
\* the consumers commute, and are not combined.
Lezers == Meldingen \cup Starts \cup Schemas

\* What no request or delivery of a behaviour looks at starts in one state.
Init ==
  /\ verkeer \in {V \in SUBSET (Verzoeken \cup Leveringen) :
       /\ Cardinality(V) <= MaxVerkeer
       /\ \A m, n \in V \cap (Meldingen \cup Diagnoses) : m = n
       /\ V \cap Leveringen # {} => V \cap Verzoeken \subseteq Lezers
       /\ \A d \in V \cap Leveringen : <<Bericht(d), 1>> \in V}
  /\ LeveringInit(verkeer)
  /\ traject \in Beginstanden
  /\ verkeer \cap Trajectverzoeken = {} => traject.status = "Ontbreekt"
  /\ storing \in CASE traject.status = "Ontbreekt" -> {"Ontbreekt"}
                   [] traject.status = "Afgerond"  -> {"Ontbreekt", "Afgehandeld"}
                   [] OTHER -> {"Ontbreekt", "InBehandeling"}
  /\ traject.status # "Ontbreekt" => verkeer \cap (Meldingen \cup Diagnoses) = {}
  /\ schemas = {}
  /\ diagnoses = [b \in Berichten |-> 0]
  /\ inGebruik \in {"onbekend", "ja"}
  /\ eisen = Geen
  /\ contract \in {"onbekend", "actief"}
  /\ verkeer \cap (Meldingen \cup Leveringen) = {} => inGebruik = "ja"
  /\ verkeer \cap (Starts \cup Schemas \cup Leveringen) = {} => contract = "actief"
  /\ pc = [r \in Verzoeken |-> "nieuw"]
  /\ kopie = [r \in Trajectverzoeken |-> Gepland]
  /\ gelezen = [r \in Trajectverzoeken |-> Gepland]
  /\ aanvaard = {}
  /\ uitgegeven = {}
  /\ fouten = 0
  /\ samenloop = FALSE

-----------------------------------------------------------------------------
(* The beginning of a traject *)

NaarStap(r, plaats) == pc' = [pc EXCEPT ![r] = plaats]
Aanvaard(r) == aanvaard' = aanvaard \cup {r}

ongelezen == <<kopie, gelezen, samenloop>>

\* MeldStoring: isBekendEnInGebruik; only "streng" refuses.  A failure of ernst Hoog or
\* Kritiek plans a traject.
Meld(m) ==
  /\ m \in verkeer \cap Meldingen
  /\ pc[m] = "nieuw"
  /\ IF inGebruik = "ja" \/ Validatie = "soepel"
     THEN \E plaats \in {"gecontroleerd", "gepland"} : NaarStap(m, plaats)
     ELSE NaarStap(m, "afgewezen")
  /\ UNCHANGED <<traject, storing, schemas, ongelezen, aanvaard, uitgegeven>>

\* MeldStoring: bewaar(traject), when one is planned.
BewaarTraject(m) ==
  /\ m \in Meldingen
  /\ pc[m] = "gepland"
  /\ traject' = Gepland
  /\ NaarStap(m, "bewaard")
  /\ UNCHANGED <<storing, schemas, ongelezen, aanvaard, uitgegeven>>

\* MeldStoring: bewaar(storing), linked to its traject if there is one.
BewaarStoring(m) ==
  /\ m \in Meldingen
  /\ pc[m] \in {"gecontroleerd", "bewaard"}
  /\ storing' = IF pc[m] = "bewaard" THEN "InBehandeling" ELSE "Gemeld"
  /\ Aanvaard(m)
  /\ NaarStap(m, "afgewikkeld")
  /\ UNCHANGED <<traject, schemas, ongelezen, uitgegeven>>

\* StelDiagnose: a traject of its own, without an event.
StelDiagnose(g) ==
  /\ g \in verkeer \cap Diagnoses
  /\ pc[g] = "nieuw"
  /\ traject' = Gepland
  /\ Aanvaard(g)
  /\ NaarStap(g, "klaar")
  /\ UNCHANGED <<storing, schemas, ongelezen, uitgegeven>>

-----------------------------------------------------------------------------
(* The requests on a traject *)

\* zoek, or "onderhoudstraject niet gevonden".
Zoek(r) ==
  /\ r \in verkeer \cap Trajectverzoeken
  /\ pc[r] = "nieuw"
  /\ IF traject.status = "Ontbreekt"
     THEN NaarStap(r, "afgewezen") /\ UNCHANGED <<kopie, samenloop>>
     ELSE /\ NaarStap(r, IF r \in Starts THEN "gepland" ELSE "gelezen")
          /\ kopie' = [kopie EXCEPT ![r] = traject]
          /\ samenloop' = (samenloop \/ \E q \in Trajectverzoeken : pc[q] \in Gelezen \cup {"gepland"})
  /\ UNCHANGED <<traject, storing, schemas, gelezen, aanvaard, uitgegeven>>

\* StartOnderhoud and MaakSchema: geldendContractVoor; only "streng" refuses.
ControleerContract(r) ==
  /\ \/ r \in Starts /\ pc[r] = "gepland"
     \/ r \in verkeer \cap Schemas /\ pc[r] = "nieuw"
  /\ IF contract = "actief" \/ Validatie = "soepel"
     THEN NaarStap(r, IF r \in Starts THEN "gelezen" ELSE "gecontroleerd")
     ELSE NaarStap(r, "afgewezen")
  /\ kopie' = IF r \in Starts /\ contract = "actief" THEN [kopie EXCEPT ![r].contract = TRUE] ELSE kopie
  /\ UNCHANGED <<traject, storing, schemas, gelezen, samenloop, aanvaard, uitgegeven>>

\* Defective variant: rondAf does not ask for an inspectie.
ToelaatbaarZonderInspectie(r) ==
  LET status == kopie[r].status
  IN  CASE r \in Starts -> status = "Gepland"
        [] r \in Facturen -> status # "Gepland"
        [] r \in Keuringen -> status = "Afgerond"
        [] OTHER -> status = "Gestart"

\* The checks of the methods of the aggregate.
Toelaatbaar(r) ==
  LET status == kopie[r].status
  IN  CASE r \in Starts -> status = "Gepland"
        [] r \in Inspecties -> status = "Gestart"
        [] r \in Afrondingen -> status = "Gestart" /\ kopie[r].inspecties \cap (Goedgekeurd \cup {Eerder}) # {}
        [] r \in Facturen -> status # "Gepland"
        [] r \in Keuringen -> status = "Afgerond"

\* What they can leave in the copy.  A keuring names a factuur that the copy has.
Gewijzigd(r) ==
  CASE r \in Starts      -> {[kopie[r] EXCEPT !.status = "Gestart", !.start = r]}
    [] r \in Inspecties  -> {[kopie[r] EXCEPT !.inspecties = @ \cup {r}]}
    [] r \in Afrondingen -> {[kopie[r] EXCEPT !.status = "Afgerond", !.resultaat = r]}
    [] r \in Facturen    -> {[kopie[r] EXCEPT !.facturen[r] = "Ontvangen"]}
    [] r \in Keuringen   -> {[kopie[r] EXCEPT !.facturen[f] = "Goedgekeurd"] :
                                f \in {g \in Facturen \cup {Eerder} : kopie[r].facturen[g] # "geen"}}

\* The method of the aggregate, and the SELECT that save begins with.
Vergelijk(r) ==
  /\ r \in Trajectverzoeken
  /\ pc[r] = "gelezen"
  /\ Toelaatbaar(r)
  /\ \E k \in Gewijzigd(r) : kopie' = [kopie EXCEPT ![r] = k]
  /\ gelezen' = [gelezen EXCEPT ![r] = traject]
  /\ NaarStap(r, "vergeleken")
  /\ UNCHANGED <<traject, storing, schemas, samenloop, aanvaard, uitgegeven>>

\* A child row that save has read is not in the copy.
KindOntbreekt(r) ==
  \/ ~(gelezen[r].inspecties \subseteq kopie[r].inspecties)
  \/ \E f \in Facturen \cup {Eerder} : gelezen[r].facturen[f] # "geen" /\ kopie[r].facturen[f] = "geen"

\* What save makes of the rows: the columns in which the copy differs from what was read
\* back, and the child rows that are new or changed.
Samengevoegd(r) ==
  LET k == kopie[r]
      g == gelezen[r]
  IN  [status     |-> IF k.status # g.status THEN k.status ELSE traject.status,
       start      |-> IF k.start # g.start THEN k.start ELSE traject.start,
       contract   |-> IF k.contract # g.contract THEN k.contract ELSE traject.contract,
       resultaat  |-> IF k.resultaat # g.resultaat THEN k.resultaat ELSE traject.resultaat,
       inspecties |-> traject.inspecties \cup (k.inspecties \ g.inspecties),
       facturen   |-> [f \in DOMAIN k.facturen |->
                         IF k.facturen[f] # g.facturen[f] THEN k.facturen[f] ELSE traject.facturen[f]]]

\* Where a request goes when its traject is saved.
NaBewaren(r) == IF r \in Starts \cup Afrondingen THEN "bewaard" ELSE "klaar"

\* Defective variant: save replaces the rows by the copy in memory.
SchrijfKopie(r) ==
  /\ r \in Trajectverzoeken
  /\ pc[r] = "vergeleken"
  /\ traject' = kopie[r]
  /\ Aanvaard(r)
  /\ NaarStap(r, NaBewaren(r))
  /\ kopie' = [kopie EXCEPT ![r] = Gepland] /\ gelezen' = [gelezen EXCEPT ![r] = Gepland]
  /\ UNCHANGED <<storing, schemas, samenloop, uitgegeven>>

\* The transaction of save, after which the copies are not used.
Schrijf(r) ==
  /\ r \in Trajectverzoeken
  /\ pc[r] = "vergeleken"
  /\ IF KindOntbreekt(r)
     THEN NaarStap(r, "mislukt") /\ UNCHANGED <<traject, aanvaard>>
     ELSE traject' = Samengevoegd(r) /\ Aanvaard(r) /\ NaarStap(r, NaBewaren(r))
  /\ kopie' = [kopie EXCEPT ![r] = Gepland] /\ gelezen' = [gelezen EXCEPT ![r] = Gepland]
  /\ UNCHANGED <<storing, schemas, samenloop, uitgegeven>>

\* Defective variant: only a storing that is still Gemeld is handled.
ZoekStoringAlleenGemeld(r) ==
  /\ r \in Afrondingen
  /\ pc[r] = "bewaard"
  /\ NaarStap(r, IF storing = "Gemeld" THEN "storing" ELSE "afgewikkeld")
  /\ UNCHANGED <<traject, storing, schemas, ongelezen, aanvaard, uitgegeven>>

\* RondOnderhoudAf: the storing that was the aanleiding, unless it is Afgehandeld.
ZoekStoring(r) ==
  /\ r \in Afrondingen
  /\ pc[r] = "bewaard"
  /\ NaarStap(r, IF storing \in {"Ontbreekt", "Afgehandeld"} THEN "afgewikkeld" ELSE "storing")
  /\ UNCHANGED <<traject, storing, schemas, ongelezen, aanvaard, uitgegeven>>

\* RondOnderhoudAf: bewaar(storing).
HandelAf(r) ==
  /\ pc[r] = "storing"
  /\ storing' = "Afgehandeld"
  /\ NaarStap(r, "afgewikkeld")
  /\ UNCHANGED <<traject, schemas, ongelezen, aanvaard, uitgegeven>>

\* MaakSchema: an aggregate of its own, without an event.
BewaarSchema(r) ==
  /\ r \in Schemas
  /\ pc[r] = "gecontroleerd"
  /\ schemas' = schemas \cup {r}
  /\ Aanvaard(r)
  /\ NaarStap(r, "klaar")
  /\ UNCHANGED <<traject, storing, ongelezen, uitgegeven>>

\* Defective variant: the events go out while the storing has not been looked at.
PubliceerEerder(r) ==
  /\ \/ pc[r] = "afgewikkeld"
     \/ r \in Starts \cup Afrondingen /\ pc[r] \in {"vergeleken", "bewaard"}
  /\ uitgegeven' = uitgegeven \cup {r}
  /\ NaarStap(r, "klaar")
  /\ UNCHANGED <<traject, storing, schemas, ongelezen, aanvaard>>

\* publiceer: straight to the channel, after everything is saved.
Publiceer(r) ==
  /\ pc[r] = "afgewikkeld" \/ (r \in Starts /\ pc[r] = "bewaard")
  /\ uitgegeven' = uitgegeven \cup {r}
  /\ NaarStap(r, "klaar")
  /\ UNCHANGED <<traject, storing, schemas, ongelezen, aanvaard>>

\* A DomeinFout: the aggregate refuses, the bedrag is negative, or a moment lies outside
\* the period of the schema.
WijsAf(r) ==
  /\ \/ r \in Trajectverzoeken /\ pc[r] = "gelezen"
          /\ (~Toelaatbaar(r) \/ Gewijzigd(r) = {} \/ r \in Facturen)
     \/ r \in Schemas /\ pc[r] = "gecontroleerd"
  /\ NaarStap(r, "afgewezen")
  /\ UNCHANGED <<traject, storing, schemas, ongelezen, aanvaard, uitgegeven>>

\* The use cases, each with all its steps.
MeldStoring(r) == r \in Meldingen /\ (Meld(r) \/ BewaarTraject(r) \/ BewaarStoring(r) \/ Publiceer(r))

WijzigTraject(r) == Zoek(r) \/ Vergelijk(r) \/ Schrijf(r) \/ WijsAf(r)

StartOnderhoud(r) == r \in Starts /\ (WijzigTraject(r) \/ ControleerContract(r) \/ Publiceer(r))

RegistreerInspectie(r) == r \in Inspecties /\ WijzigTraject(r)

RondOnderhoudAf(r) ==
  r \in Afrondingen /\ (WijzigTraject(r) \/ ZoekStoring(r) \/ HandelAf(r) \/ Publiceer(r))

OntvangFactuur(r) == r \in Facturen /\ WijzigTraject(r)

KeurFactuurGoed(r) == r \in Keuringen /\ WijzigTraject(r)

MaakSchema(r) == r \in Schemas /\ (ControleerContract(r) \/ BewaarSchema(r) \/ WijsAf(r))

Verzoek(r) ==
  \/ MeldStoring(r) \/ StelDiagnose(r) \/ MaakSchema(r)
  \/ StartOnderhoud(r) \/ RegistreerInspectie(r) \/ RondOnderhoudAf(r)
  \/ OntvangFactuur(r) \/ KeurFactuurGoed(r)

-----------------------------------------------------------------------------
(* The consumers *)

\* beheer.kunstwerk.geregistreerd: in use, whatever the row said.
UpsertKunstwerk(d) ==
  /\ PastToe(d, "geregistreerd", "toegepast")
  /\ inGebruik' = "ja"
  /\ UNCHANGED <<eisen, contract, diagnoses>>

\* Defective variant: only a row that exists is updated.
MarkeerBekendBuitenGebruik(d) ==
  /\ PastToe(d, "buitengebruik", "toegepast")
  /\ inGebruik' = IF inGebruik = "onbekend" THEN "onbekend" ELSE "nee"
  /\ UNCHANGED <<eisen, contract, diagnoses>>

\* beheer.kunstwerk.buitengebruikgesteld: also for a kunstwerk without a row.
MarkeerBuitenGebruik(d) ==
  /\ PastToe(d, "buitengebruik", "toegepast")
  /\ inGebruik' = "nee"
  /\ UNCHANGED <<eisen, contract, diagnoses>>

BewaarEisen(d) ==
  /\ PastToe(d, "onderhoudseisen", "toegepast")
  /\ eisen' = Bericht(d)
  /\ UNCHANGED <<inGebruik, contract, diagnoses>>

\* contract.onderhoudscontract.gegund: a save of the whole row, actief.
UpsertGegund(d) ==
  /\ PastToe(d, "gegund", "toegepast")
  /\ contract' = "actief"
  /\ UNCHANGED <<inGebruik, eisen, diagnoses>>

\* contract.onderhoudscontract.afgerond: an UPDATE, which may find no row.
MarkeerAfgerond(d) ==
  /\ PastToe(d, "afgerond", "toegepast")
  /\ contract' = IF contract = "onbekend" THEN "onbekend" ELSE "afgerond"
  /\ UNCHANGED <<inGebruik, eisen, diagnoses>>

\* monitoring.incident.aangemaakt: StelDiagnose, which plans a traject under a new id.
PlanTraject(d) ==
  LET b == Bericht(d)
  IN  /\ PastToe(d, "incident", "toegepast")
      /\ diagnoses' = IF b \in Zwaar THEN [diagnoses EXCEPT ![b] = @ + 1] ELSE diagnoses
      /\ UNCHANGED <<inGebruik, eisen, contract>>

\* What the handler of every message does besides.
Bezorg(d) ==
  /\ Verwerk(d) \/ BewaarVerwerkt(d) \/ Ack(d)
  /\ UNCHANGED leesmodel

Behandel(d) ==
  \/ Bezorg(d) \/ UpsertKunstwerk(d) \/ MarkeerBuitenGebruik(d) \/ BewaarEisen(d)
  \/ UpsertGegund(d) \/ MarkeerAfgerond(d) \/ PlanTraject(d)

-----------------------------------------------------------------------------
(* Faults *)

Fout ==
  /\ fouten < MaxFouten
  /\ fouten' = fouten + 1
  /\ UNCHANGED verkeer

\* Any await of a request can throw, and so can publish on a closed channel.
BreekVerzoek ==
  /\ Fout
  /\ \E r \in verkeer \cap Verzoeken : pc[r] \in Bezig /\ NaarStap(r, "mislukt")
  /\ UNCHANGED <<leveringVars, leesmodel, traject, storing, schemas, ongelezen, aanvaard, uitgegeven>>

WeigerBericht == Fout /\ \E d \in verkeer \cap Leveringen : Nack(d) /\ UNCHANGED <<leesmodel, verzoekVars>>

\* The process dies and is started again.
Herstart ==
  /\ Fout
  /\ LeverOpnieuw
  /\ pc' = [r \in Verzoeken |-> IF pc[r] \in Bezig THEN "mislukt" ELSE pc[r]]
  /\ UNCHANGED <<leesmodel, traject, storing, schemas, ongelezen, aanvaard, uitgegeven>>

Stap(x) ==
  /\ \/ x \in Verzoeken /\ Verzoek(x) /\ UNCHANGED <<leveringVars, leesmodel>>
     \/ x \in Leveringen /\ Behandel(x) /\ UNCHANGED verzoekVars
  /\ UNCHANGED <<verkeer, fouten>>

Next == (\E x \in verkeer : Stap(x)) \/ BreekVerzoek \/ WeigerBericht \/ Herstart

Spec == Init /\ [][Next]_vars

-----------------------------------------------------------------------------
(* Properties *)

\* Whatever requests overlap, crash or fail, the rows fit together: a storing in
\* behandeling has its traject; an afgerond traject has a goedgekeurde inspectie; an
\* inspectie or a factuur was accepted for a traject that had started; and none that was
\* accepted is lost.
DossierKlopt ==
  /\ storing = "InBehandeling" => traject.status # "Ontbreekt"
  /\ traject.status = "Afgerond" => traject.inspecties \cap (Goedgekeurd \cup {Eerder}) # {}
  /\ traject.inspecties # {} \/ (\E f \in DOMAIN traject.facturen : traject.facturen[f] # "geen")
       => traject.status \in {"Gestart", "Afgerond"}
  /\ aanvaard \cap Inspecties \subseteq traject.inspecties
  /\ \A f \in aanvaard \cap Facturen : traject.facturen[f] # "geen"

\* A storing stays open beside its afgerond traject only while an afronding is under way
\* or because one broke off halfway, or because it was being reported while the traject
\* was already worked on; without overlap a storing that is Afgehandeld has an afgerond
\* traject.
AfrondingVerklaard ==
  /\ traject.status = "Afgerond" /\ storing = "InBehandeling" =>
       \/ \E r \in aanvaard \cap Afrondingen : pc[r] \in {"bewaard", "storing", "mislukt"}
       \/ aanvaard \cap Meldingen # {}
  /\ uitgegeven \cap Afrondingen # {} /\ aanvaard \cap Meldingen = {}
       => storing # "InBehandeling"
  /\ storing = "Afgehandeld" /\ ~samenloop => traject.status = "Afgerond"

\* docs/events.md:35, "gebruik `eventId` om dubbele verwerking te voorkomen": a zwaar
\* incident, however often it is published, plans one traject as long as handlers did not
\* overlap and nothing failed; a handled one has planned at least one.
EenTrajectPerIncident ==
  \A b \in Zwaar :
    /\ fouten = 0 /\ ~overlap => diagnoses[b] <= 1
    /\ (\E d \in Leveringen : Bericht(d) = b /\ levering[d] = "bevestigd") => diagnoses[b] >= 1

\* As long as no two handlers of a queue overlapped, the read models show the last message
\* in the order of the exchange, through crashes and repetitions: in use or not, the eisen,
\* and whether the contract runs.  (A gegund that was refused can be applied late, from
\* the second copy that the relay of Contract sent.)
VolgtDeVolgorde ==
  ~overlap =>
    /\ \A b \in Laatste({c \in toegepast : Soort[c] \in {"geregistreerd", "buitengebruik"}}) :
         inGebruik = IF Soort[b] = "geregistreerd" THEN "ja" ELSE "nee"
    /\ \A b \in Laatste({c \in toegepast : Soort[c] = "onderhoudseisen"}) : eisen = b
    /\ GeenVerworpen =>
       \A b \in Laatste({c \in toegepast : Soort[c] \in {"gegund", "afgerond"}}) :
         (contract = "actief") <=> Soort[b] = "gegund"

\* Whatever requests overlap, no save takes a traject that has started back to Gepland,
\* and none deletes an inspectie or a factuur; without overlap none reopens a traject that
\* is Afgerond.
TrajectLooptNietTerug ==
  [][/\ traject.status \in {"Gestart", "Afgerond"} => traject'.status \in {"Gestart", "Afgerond"}
     /\ traject.inspecties \subseteq traject'.inspecties
     /\ \A f \in DOMAIN traject.facturen : traject.facturen[f] # "geen" => traject'.facturen[f] # "geen"
     /\ traject.status = "Afgerond" /\ ~samenloop' => traject'.status = "Afgerond"]_vars
=============================================================================
