------------------------- MODULE Onderhoudscontract -------------------------
(***************************************************************************)
(* One contract of the Contract service: the requests of contract-routes.ts *)
(* that change it, the gunning that creates it, and the consumers of        *)
(* ContractLeesmodellen, which decide what gunning and KeurPrestatie see    *)
(* and which signal the contract when its kunstwerk goes out of use.        *)
(*                                                                         *)
(* A request runs alone between two awaits.  zoek is one SELECT per table,  *)
(* bewaar one transaction that writes back the value, the status and both   *)
(* lists of the copy in memory.                                             *)
(***************************************************************************)
EXTENDS ContractLeesmodellen, FiniteSetsExt

CONSTANTS
  Gunningen,     \* requests that award the contract
  Wijzigingen,   \* KeurWijzigingGoed
  Verklaringen,  \* StelPrestatieverklaringOp
  Afrondingen,   \* RondOnderhoudscontractAf
  Beginwaarde,   \* the price of the winning inschrijving
  Mutatie,       \* Mutatie[w]: positive for a Verhoging, negative for a Verlaging
  Score,         \* Score[v]: the score in the request, or Geen
  Validatie,     \* KUNSTWERK_VALIDATIE: "soepel" or "streng"
  MaxVerkeer,    \* bound: requests and deliveries in one behaviour
  MaxFouten      \* bound: database errors and deaths of the process

Verzoeken == Gunningen \cup Wijzigingen \cup Verklaringen \cup Afrondingen

\* A request is of one kind, and one gunning makes the contract: another gives its own a
\* fresh id.
ASSUME VerzoekenAssumption ==
  /\ Gunningen \cap (Wijzigingen \cup Verklaringen \cup Afrondingen) = {}
  /\ Wijzigingen \cap (Verklaringen \cup Afrondingen) = {}
  /\ Verklaringen \cap Afrondingen = {}
  /\ \A g, h \in Gunningen : g = h
  /\ IsFiniteSet(Wijzigingen)
  /\ Verzoeken \cap Leveringen = {}
  /\ Beginwaarde \in Nat
  /\ Mutatie \in [Wijzigingen -> Int]
  /\ Score \in [Verklaringen -> Int \cup {Geen}]
  /\ Validatie \in {"soepel", "streng"}
  /\ MaxVerkeer \in Nat /\ MaxFouten \in Nat

VARIABLES
  verkeer,       \* the requests and deliveries that this behaviour sees
  contract,      \* the rows of the contract: status, waarde, wijzigingen, prestaties
  pc,            \* where request r is
  kopie,         \* the aggregate that request r has in memory
  score,         \* the score that verklaring v will carry
  aanvaard,      \* history: the requests whose change was saved
  uitgegeven,    \* the requests whose event is in the outbox
  gevonden,      \* the deliveries whose zoekPerKunstwerk found the contract
  gesignaleerd,  \* was the contract named in the log?
  fouten,        \* faults so far
  samenloop,     \* history: did a request read the contract while another was at work?
  ingehaald      \* history: was the kunstwerk put out of use between check and save of a gunning?

verzoekVars == <<contract, pc, kopie, score, aanvaard, uitgegeven, samenloop>>
signaalVars == <<gevonden, gesignaleerd>>
berichtVars == <<leveringVars, leesmodel>>
vars == <<berichtVars, verzoekVars, signaalVars, verkeer, fouten, ingehaald>>

Leeg    == [status |-> "Ontbreekt", waarde |-> 0, wijzigingen |-> {}, prestaties |-> {}]
Gegund  == [Leeg EXCEPT !.status = "Actief", !.waarde = Beginwaarde]

Contracten ==
  [status : {"Ontbreekt", "Actief", "Afgerond"}, waarde : Nat,
   wijzigingen : SUBSET Wijzigingen, prestaties : SUBSET Verklaringen]

Lezend == {"rij", "wijzigingen", "geladen", "gescoord"}
Bezig  == Lezend \cup {"gecontroleerd", "bewaard"}
Eind   == {"klaar", "afgewezen", "mislukt"}

TypeOK ==
  /\ LeveringTypeOK
  /\ LeesmodelTypeOK
  /\ verkeer \subseteq Verzoeken \cup Leveringen
  /\ contract \in Contracten
  /\ pc \in [Verzoeken -> {"nieuw"} \cup Bezig \cup Eind]
  /\ kopie \in [Verzoeken -> Contracten]
  /\ score \in [Verklaringen -> 0 .. 100 \cup Range(Score) \cup {Geen}]
  /\ aanvaard \subseteq Verzoeken
  /\ uitgegeven \subseteq aanvaard
  /\ gevonden \subseteq Leveringen
  /\ fouten \in 0 .. MaxFouten
  /\ {gesignaleerd, samenloop, ingehaald} \subseteq BOOLEAN

Init ==
  /\ verkeer \in {V \in SUBSET (Verzoeken \cup Leveringen) :
       /\ Cardinality(V) <= MaxVerkeer
       /\ \A d \in V \cap Leveringen : <<Bericht(d), 1>> \in V}
  /\ LeveringInit(verkeer)
  /\ LeesmodelInit
  /\ contract \in {Leeg, Gegund}
  /\ pc = [r \in Verzoeken |-> "nieuw"]
  /\ kopie = [r \in Verzoeken |-> Leeg]
  /\ score = Score
  /\ aanvaard = {}
  /\ uitgegeven = {}
  /\ gevonden = {}
  /\ gesignaleerd = FALSE
  /\ fouten = 0
  /\ samenloop = FALSE
  /\ ingehaald = FALSE

-----------------------------------------------------------------------------
(* Reading the contract *)

NaarStap(r, plaats) == pc' = [pc EXCEPT ![r] = plaats]

\* zoek, first SELECT: the row of the contract, or "contract niet gevonden".
LeesRij(r) ==
  /\ r \in verkeer \ Gunningen
  /\ pc[r] = "nieuw"
  /\ IF contract.status = "Ontbreekt"
     THEN NaarStap(r, "afgewezen") /\ UNCHANGED <<kopie, samenloop>>
     ELSE /\ NaarStap(r, "rij")
          /\ kopie' = [kopie EXCEPT ![r].status = contract.status, ![r].waarde = contract.waarde]
          /\ samenloop' = (samenloop \/ \E q \in Verzoeken : pc[q] \in Lezend)
  /\ UNCHANGED <<contract, score, aanvaard, uitgegeven>>

\* zoek, second SELECT.
LeesWijzigingen(r) ==
  /\ pc[r] = "rij"
  /\ kopie' = [kopie EXCEPT ![r].wijzigingen = contract.wijzigingen]
  /\ NaarStap(r, "wijzigingen")
  /\ UNCHANGED <<contract, score, aanvaard, uitgegeven, samenloop>>

\* zoek, third SELECT.
LeesPrestaties(r) ==
  /\ pc[r] = "wijzigingen"
  /\ kopie' = [kopie EXCEPT ![r].prestaties = contract.prestaties]
  /\ NaarStap(r, IF r \in Verklaringen THEN "geladen" ELSE "gescoord")
  /\ UNCHANGED <<contract, score, aanvaard, uitgegeven, samenloop>>

\* StelPrestatieverklaringOp: without a score in the request the last KPI is taken.
BepaalScore(v) ==
  /\ v \in Verklaringen
  /\ pc[v] = "geladen"
  /\ score' = [score EXCEPT ![v] = IF Score[v] = Geen THEN LaatsteKpiScore ELSE Score[v]]
  /\ NaarStap(v, "gescoord")
  /\ UNCHANGED <<contract, kopie, aanvaard, uitgegeven, samenloop>>

-----------------------------------------------------------------------------
(* Changing it *)

NieuweWaarde(w) == kopie[w].waarde + Mutatie[w]

\* eisActief, Bedrag.vanCenten (not negative), and a score from 0 to 100.
Toelaatbaar(r) ==
  /\ kopie[r].status = "Actief"
  /\ r \in Wijzigingen => NieuweWaarde(r) >= 0
  /\ r \in Verklaringen => score[r] # Geen /\ score[r] \in 0 .. 100

Gewijzigd(r) ==
  CASE r \in Wijzigingen  -> [kopie[r] EXCEPT !.waarde = NieuweWaarde(r), !.wijzigingen = @ \cup {r}]
    [] r \in Verklaringen -> [kopie[r] EXCEPT !.prestaties = @ \cup {r}]
    [] r \in Afrondingen  -> [kopie[r] EXCEPT !.status = "Afgerond"]

\* Defective variant: bewaar writes the lists, and the value only when it creates the row.
BewaarZonderWaarde(r) ==
  /\ pc[r] = "gescoord"
  /\ Toelaatbaar(r)
  /\ contract' = [Gewijzigd(r) EXCEPT !.waarde = contract.waarde]
  /\ aanvaard' = aanvaard \cup {r}
  /\ NaarStap(r, "bewaard")
  /\ UNCHANGED <<kopie, score, uitgegeven, samenloop>>

\* The domain method and bewaar: the copy in memory replaces what the tables hold.
Bewaar(r) ==
  /\ pc[r] = "gescoord"
  /\ Toelaatbaar(r)
  /\ contract' = Gewijzigd(r)
  /\ aanvaard' = aanvaard \cup {r}
  /\ NaarStap(r, "bewaard")
  /\ UNCHANGED <<kopie, score, uitgegeven, samenloop>>

\* Defective variant: KUNSTWERK_VALIDATIE is not consulted.
ControleerKunstwerkSoepel(g) ==
  /\ g \in verkeer \cap Gunningen
  /\ pc[g] = "nieuw"
  /\ contract.status = "Ontbreekt"
  /\ NaarStap(g, "gecontroleerd")
  /\ UNCHANGED <<contract, kopie, score, aanvaard, uitgegeven, samenloop>>

\* GunAanbesteding: isBekendEnInGebruik.  The tender itself is in Aanbesteding.
ControleerKunstwerk(g) ==
  /\ g \in verkeer \cap Gunningen
  /\ pc[g] = "nieuw"
  /\ contract.status = "Ontbreekt"
  /\ NaarStap(g, IF inGebruik = "ja" \/ Validatie = "soepel" THEN "gecontroleerd" ELSE "afgewezen")
  /\ UNCHANGED <<contract, kopie, score, aanvaard, uitgegeven, samenloop>>

\* GunAanbesteding: the contract, under an id nobody else has yet.
BewaarContract(g) ==
  /\ g \in Gunningen
  /\ pc[g] = "gecontroleerd"
  /\ contract' = Gegund
  /\ aanvaard' = aanvaard \cup {g}
  /\ NaarStap(g, "bewaard")
  /\ UNCHANGED <<kopie, score, uitgegeven, samenloop>>

\* publiceer: the events of the aggregate into the outbox.
Publiceer(r) ==
  /\ pc[r] = "bewaard"
  /\ uitgegeven' = uitgegeven \cup {r}
  /\ NaarStap(r, "klaar")
  /\ UNCHANGED <<contract, kopie, score, aanvaard, samenloop>>

\* A DomeinFout.  The period of a prestatieverklaring may lie outside the looptijd.
WijsAf(r) ==
  /\ pc[r] = "gescoord"
  /\ ~Toelaatbaar(r) \/ r \in Verklaringen
  /\ NaarStap(r, "afgewezen")
  /\ UNCHANGED <<contract, kopie, score, aanvaard, uitgegeven, samenloop>>

\* Any await of a request can throw.
Breek(r) ==
  /\ pc[r] \in Bezig
  /\ NaarStap(r, "mislukt")
  /\ UNCHANGED <<contract, kopie, score, aanvaard, uitgegeven, samenloop>>

\* The use cases, each with all its steps.
WijzigContract(r) ==
  LeesRij(r) \/ LeesWijzigingen(r) \/ LeesPrestaties(r) \/ Bewaar(r) \/ Publiceer(r) \/ WijsAf(r)

GunContract(r) == r \in Gunningen /\ (ControleerKunstwerk(r) \/ BewaarContract(r) \/ Publiceer(r))

KeurWijzigingGoed(r) == r \in Wijzigingen /\ WijzigContract(r)

StelPrestatieverklaringOp(r) == r \in Verklaringen /\ (WijzigContract(r) \/ BepaalScore(r))

RondOnderhoudscontractAf(r) == r \in Afrondingen /\ WijzigContract(r)

Verzoek(r) ==
  \/ GunContract(r) \/ KeurWijzigingGoed(r) \/ StelPrestatieverklaringOp(r)
  \/ RondOnderhoudscontractAf(r)

-----------------------------------------------------------------------------
(* The consumers, with what they do to the contract *)

\* onBuitengebruik: findMany, after which the contracts it found are read again.
Zoek(d) ==
  /\ ZoekPerKunstwerk(d)
  /\ gevonden' = IF contract.status = "Ontbreekt" THEN gevonden \ {d} ELSE gevonden \cup {d}
  /\ UNCHANGED gesignaleerd

\* SignaleerBuitengebruikstelling: the contracts that are Actief go to the log.
SignaleerContract(d) ==
  /\ Signaleer(d)
  /\ gesignaleerd' = (gesignaleerd \/ (d \in gevonden /\ contract.status = "Actief"))
  /\ UNCHANGED gevonden

Behandel(d) ==
  \/ /\ Bezorg(d) \/ UpsertKunstwerk(d) \/ BewaarEisen(d) \/ BewaarKpi(d)
     /\ UNCHANGED <<signaalVars, ingehaald>>
  \/ /\ MarkeerBuitenGebruik(d)
     /\ ingehaald' = (ingehaald \/ \E g \in Gunningen : pc[g] = "gecontroleerd")
     /\ UNCHANGED signaalVars
  \/ Zoek(d) /\ UNCHANGED ingehaald
  \/ SignaleerContract(d) /\ UNCHANGED ingehaald

-----------------------------------------------------------------------------
(* Faults *)

Fout ==
  /\ fouten < MaxFouten
  /\ fouten' = fouten + 1
  /\ UNCHANGED <<verkeer, signaalVars, ingehaald>>

BreekVerzoek == Fout /\ \E r \in verkeer \cap Verzoeken : Breek(r) /\ UNCHANGED berichtVars

WeigerBericht == Fout /\ \E d \in verkeer \cap Leveringen : Nack(d) /\ UNCHANGED <<leesmodel, verzoekVars>>

\* The process dies and is started again.
Herstart ==
  /\ Fout
  /\ LeverOpnieuw
  /\ pc' = [r \in Verzoeken |-> IF pc[r] \in Bezig THEN "mislukt" ELSE pc[r]]
  /\ UNCHANGED <<leesmodel, contract, kopie, score, aanvaard, uitgegeven, samenloop>>

Stap(x) ==
  /\ \/ x \in Verzoeken /\ Verzoek(x) /\ UNCHANGED <<berichtVars, signaalVars, ingehaald>>
     \/ x \in Leveringen /\ Behandel(x) /\ UNCHANGED verzoekVars
  /\ UNCHANGED <<verkeer, fouten>>

Next == (\E x \in verkeer : Stap(x)) \/ BreekVerzoek \/ WeigerBericht \/ Herstart

\* Awaits return and the broker delivers; nothing makes a request arrive or a fault
\* happen.  It is enough that of all that can go on something does.
Voortgang ==
  \/ \E r \in verkeer \cap Verzoeken : pc[r] # "nieuw" /\ Stap(r)
  \/ \E d \in verkeer \cap Leveringen : Stap(d)

Spec == Init /\ [][Next]_vars /\ WF_vars(Voortgang)

-----------------------------------------------------------------------------
(* Properties *)

Som(W) == MapThenSumSet(LAMBDA w : Mutatie[w], W)

\* As long as no two requests overlapped, nothing that was accepted is lost: both lists
\* hold what was saved, and the value is the initial value plus the mutations in the list
\* (what a reader of contract.wijziging.goedgekeurd would compute).
WaardeKlopt ==
  ~samenloop /\ contract.status # "Ontbreekt" =>
    /\ contract.wijzigingen = aanvaard \cap Wijzigingen
    /\ contract.prestaties = aanvaard \cap Verklaringen
    /\ contract.waarde = Beginwaarde + Som(contract.wijzigingen)

\* A delivery that is acknowledged was handled and marked, whatever crashed in between;
\* without a fault none is refused for good before it was (the nacks are without requeue).
NietsVergeten == Afgewikkeld(fouten = 0)

\* As long as no two handlers of a queue overlapped, the read models show the last
\* message in the order of the exchange, through crashes, redeliveries and repetitions:
\* in use or not, the eisen, and the score of every row.  (A rapport that was refused can
\* be applied late, from the second copy that the relay of Monitoring sent.)
VolgtDeVolgorde ==
  ~overlap =>
    /\ \A b \in Laatste({c \in toegepast : Soort[c] \in {"geregistreerd", "buitengebruik"}}) :
         inGebruik = IF Soort[b] = "geregistreerd" THEN "ja" ELSE "nee"
    /\ \A b \in Laatste({c \in toegepast : Soort[c] = "ontwerpeisen"}) : ontwerpeis = b
    /\ GeenVerworpen =>
       \A k \in Rijen :
         \A b \in Laatste({c \in toegepast : Soort[c] = "rapport" /\ Rij[c] = k
                                               /\ KpiScore(Resultaten[c]) # Geen}) :
           kpi[k] = KpiScore(Resultaten[b])

\* The kunstwerk goes out of use with b, and is not registered again afterwards.
Uitgebruik(b) ==
  Soort[b] = "buitengebruik" /\ \A c \in Berichten : Soort[c] = "geregistreerd" => Rang[c] < Rang[b]

\* Under strict validation, a contract that is Actief after its kunstwerk went out of use
\* was named in the log, unless the message overtook a gunning that had already checked
\* the kunstwerk.
GesignaleerdOfIngehaald ==
  Validatie = "streng" /\ ~samenloop /\ ~overlap /\ contract.status = "Actief"
    /\ (\E b \in verwerkt : Uitgebruik(b)) =>
      gesignaleerd \/ ingehaald

\* In the end every delivery is settled and every request that began has ended: no order
\* of arrival, crash or repetition leaves one waiting.
AllesEindigt ==
  <>[](/\ \A d \in verkeer \cap Leveringen : levering[d] \in Afgehandeld
       /\ \A r \in verkeer \cap Verzoeken : pc[r] \in {"nieuw"} \cup Eind)

\* Unless requests overlapped, a contract that is Afgerond stays as it is, and one that is
\* there loses no wijziging and no prestatieverklaring and is not gegund anew.
ContractLooptNietTerug ==
  [][~samenloop' /\ contract.status # "Ontbreekt" =>
       /\ contract.status = "Afgerond" => contract' = contract
       /\ contract'.status # "Ontbreekt"
       /\ contract.wijzigingen \subseteq contract'.wijzigingen
       /\ contract.prestaties \subseteq contract'.prestaties]_vars
=============================================================================
