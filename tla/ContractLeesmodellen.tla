------------------------ MODULE ContractLeesmodellen ------------------------
(***************************************************************************)
(* The consumers of the Contract service and the read models they keep for  *)
(* one kunstwerk: beheer-kunstwerk-consumer.ts, beheer-ontwerpeisen-        *)
(* consumer.ts and monitoring-rapport-consumer.ts (contract/src/            *)
(* infrastructure/messaging) with their Prisma stores.                      *)
(***************************************************************************)
EXTENDS Consument

CONSTANTS
  Rijen,        \* keys of KpiRapport: the kunstwerk with an incident or "algemeen"
  Rij,          \* Rij[b]: the key a rapport is stored under
  Resultaten    \* Resultaten[b]: what a rapport says, as far as vertaalNaarKpiScore reads it

\* Where the exchange routes a message.
QueueVan(soort) ==
  CASE soort = "rapport" -> "contract.monitoring-rapport"
    [] soort = "ontwerpeisen" -> "contract.beheer-ontwerpeisen"
    [] soort \in {"geregistreerd", "buitengebruik"} -> "contract.beheer-kunstwerk"

ASSUME LeesmodelAssumption ==
  /\ \A b \in Berichten : Queue[b] = QueueVan(Soort[b])
  /\ \A b \in Berichten : Soort[b] # "rapport" => Kopieen[b] = 1
  /\ Rij \in [Berichten -> Rijen]
  /\ Resultaten \in [Berichten -> [getal : Int \cup {Geen}, totaal : Int \cup {Geen}, open : Int \cup {Geen}]]

VARIABLES
  inGebruik,    \* BekendKunstwerk: "onbekend", "ja" or "nee"
  ontwerpeis,   \* Ontwerpeis: the message whose eisen it holds, or Geen
  kpi,          \* KpiRapport: kpi[k] = the kpiScore column of row k, or Geen
  kpiRijen      \* the rows of KpiRapport in the order of ontvangenOp

leesmodel == <<inGebruik, ontwerpeis, kpi, kpiRijen>>

LeesmodelTypeOK ==
  /\ inGebruik \in {"onbekend", "ja", "nee"}
  /\ ontwerpeis \in Berichten \cup {Geen}
  /\ kpi \in [Rijen -> 0 .. 100 \cup {Geen}]
  /\ kpiRijen \in Seq(Rijen)

LeesmodelInit ==
  /\ inGebruik \in {"onbekend", "ja"}
  /\ ontwerpeis = Geen
  /\ kpi = [k \in Rijen |-> Geen]
  /\ kpiRijen = <<>>

-----------------------------------------------------------------------------
(* vertaalNaarKpiScore: a rapport of Monitoring as one number *)

TussenNulEnHonderd(n) == IF n < 0 THEN 0 ELSE IF n > 100 THEN 100 ELSE n

\* Defective variant: the number is taken as it is.
KpiScoreOnbegrensd(r) ==
  IF r.getal # Geen THEN r.getal
  ELSE IF r.totaal = 0 THEN 100
  ELSE (200 * (r.totaal - r.open) + r.totaal) \div (2 * r.totaal)

\* getal: the first of kpiScore, score and beschikbaarheid that is a number.  Math.round
\* rounds halves up; no score when the counts are missing or negative.
KpiScore(r) ==
  IF r.getal # Geen THEN TussenNulEnHonderd(r.getal)
  ELSE IF r.totaal = Geen \/ r.open = Geen THEN Geen
  ELSE IF r.totaal < 0 \/ r.open < 0 THEN Geen
  ELSE IF r.totaal = 0 THEN 100
  ELSE TussenNulEnHonderd((200 * (r.totaal - r.open) + r.totaal) \div (2 * r.totaal))

\* laatsteKpiScore: the first row by ontvangenOp descending that has a score.
LaatsteKpiScore ==
  LET metScore == {i \in 1 .. Len(kpiRijen) : kpi[kpiRijen[i]] # Geen}
  IN  IF metScore = {} THEN Geen
      ELSE kpi[kpiRijen[CHOOSE i \in metScore : \A j \in metScore : j <= i]]

-----------------------------------------------------------------------------
(* The handlers *)

\* kunstwerk.geregistreerd: upsert, in use whatever the row said.
UpsertKunstwerk(d) ==
  /\ PastToe(d, "geregistreerd", "toegepast")
  /\ inGebruik' = "ja"
  /\ UNCHANGED <<ontwerpeis, kpi, kpiRijen>>

\* kunstwerk.buitengebruikgesteld: upsert, then onBuitengebruik is called.
MarkeerBuitenGebruik(d) ==
  /\ PastToe(d, "buitengebruik", "opgeslagen")
  /\ inGebruik' = "nee"
  /\ UNCHANGED <<ontwerpeis, kpi, kpiRijen>>

\* onBuitengebruik: the SELECT of zoekPerKunstwerk, and then the contracts one by one.
ZoekPerKunstwerk(d) == GaVerder(d, "opgeslagen", "gezocht") /\ UNCHANGED leesmodel

Signaleer(d) == GaVerder(d, "gezocht", "toegepast") /\ UNCHANGED leesmodel

BewaarEisen(d) ==
  /\ PastToe(d, "ontwerpeisen", "toegepast")
  /\ ontwerpeis' = Bericht(d)
  /\ UNCHANGED <<inGebruik, kpi, kpiRijen>>

\* bewaarKpi: the upsert gives a new row its ontvangenOp and leaves that of an old row;
\* an undefined score leaves the score it has.
BewaarKpi(d) ==
  LET k == Rij[Bericht(d)]
      score == KpiScore(Resultaten[Bericht(d)])
  IN  /\ PastToe(d, "rapport", "toegepast")
      /\ kpi' = IF score = Geen THEN kpi ELSE [kpi EXCEPT ![k] = score]
      /\ kpiRijen' = IF \E i \in 1 .. Len(kpiRijen) : kpiRijen[i] = k
                     THEN kpiRijen
                     ELSE Append(kpiRijen, k)
      /\ UNCHANGED <<inGebruik, ontwerpeis>>

\* What the handler of every message does besides its store.
Bezorg(d) ==
  /\ Verwerk(d) \/ MarkeerVerwerkt(d) \/ Ack(d)
  /\ UNCHANGED leesmodel
=============================================================================
