----------------------- MODULE Onderhoudscontract_proofs -----------------------
(***************************************************************************)
(* Proofs about a contract and its consumers, for any set of requests,     *)
(* messages, faults and restarts: the type, the five invariants of the     *)
(* run.  That everything ends stays with TLC.                              *)
(***************************************************************************)
EXTENDS Onderhoudscontract, Consument_proofs, FiniteSetTheorems, WellFoundedInduction

-----------------------------------------------------------------------------
(* The invariant.  Of the deliveries it says what Consument_proofs does.   *)
(* Of the requests: what their place says of what they saved               *)
(* (PlaatsKlopt), that nothing happens to a contract that is not there     *)
(* (GunningKlopt), and, without overlap, that one at most has a copy,      *)
(* which agrees with the tables as far as it was read (LezingKlopt).       *)
(* SignaalKlopt follows a message about the end of the kunstwerk from its  *)
(* store to its mark.                                                      *)

VerzoekTypeOK ==
  /\ contract \in Contracten
  /\ pc \in [Verzoeken -> {"nieuw"} \cup Bezig \cup Eind]
  /\ kopie \in [Verzoeken -> Contracten]
  /\ score \in [Verklaringen -> 0 .. 100 \cup Range(Score) \cup {Geen}]
  /\ aanvaard \subseteq Verzoeken
  /\ uitgegeven \subseteq aanvaard
  /\ samenloop \in BOOLEAN

OverigTypeOK ==
  /\ verkeer \subseteq Verzoeken \cup Leveringen
  /\ gevonden \subseteq Leveringen
  /\ fouten \in 0 .. MaxFouten
  /\ gesignaleerd \in BOOLEAN
  /\ ingehaald \in BOOLEAN

PlaatsKlopt ==
  \A r \in Verzoeken :
    /\ pc[r] = "bewaard" => r \in aanvaard
    /\ pc[r] \in {"nieuw", "gecontroleerd"} \cup Lezend => r \notin aanvaard

GunningKlopt ==
  /\ contract.status = "Ontbreekt" => aanvaard = {} /\ \A r \in Verzoeken : pc[r] \notin Lezend
  /\ \A r \in Verzoeken : pc[r] = "gecontroleerd" => r \in Gunningen /\ contract.status = "Ontbreekt"

LezingKlopt ==
  ~samenloop =>
    /\ \A q, r \in Verzoeken : pc[q] \in Lezend /\ pc[r] \in Lezend => q = r
    /\ \A r \in Verzoeken : pc[r] \in Lezend =>
         /\ kopie[r].status = contract.status /\ kopie[r].waarde = contract.waarde
         /\ pc[r] # "rij" => kopie[r].wijzigingen = contract.wijzigingen
         /\ pc[r] \in {"geladen", "gescoord"} => kopie[r].prestaties = contract.prestaties

VerzoekInv == VerzoekTypeOK /\ PlaatsKlopt /\ GunningKlopt /\ LezingKlopt /\ WaardeKlopt

BerichtInv ==
  LeveringInv /\ LeesmodelTypeOK /\ VolgtDeVolgorde /\ (fouten = 0 => WeigeringKlopt)

SignaalKlopt ==
  Validatie = "streng" /\ ~overlap /\ ~ingehaald =>
    /\ \A b \in toegepast : Uitgebruik(b) =>
         inGebruik = "nee" /\ \A g \in Gunningen : pc[g] # "gecontroleerd"
    /\ ~samenloop /\ contract.status = "Actief" =>
         /\ \A d \in Leveringen : levering[d] = "gezocht" /\ Uitgebruik(Bericht(d)) => d \in gevonden
         /\ \/ \E d \in Leveringen : levering[d] = "toegepast" /\ Uitgebruik(Bericht(d))
            \/ \E b \in verwerkt : Uitgebruik(b)
            => gesignaleerd

Inv == BerichtInv /\ VerzoekInv /\ OverigTypeOK /\ SignaalKlopt

-----------------------------------------------------------------------------
(* The sum of the mutations.  Som is a fold: a recursive function over the *)
(* subsets of W, of which it has to be shown that it exists and is unique  *)
(* before it can be unfolded.                                              *)

Eerste(s) == CHOOSE x \in s : TRUE

\* What the recursion says of a sum g over the subsets of W.
Telt(g, W) ==
  g = [s \in SUBSET W |-> IF s = {} THEN 0 ELSE Mutatie[Eerste(s)] + g[s \ {Eerste(s)}]]

Telling(W) == CHOOSE g : Telt(g, W)

\* Som is the value of that recursion.
LEMMA SomIsTelling == \A W : Som(W) = Telling(W)[W]
BY DEF Som, MapThenSumSet, MapThenFoldSet, Telling, Telt, Eerste

\* Among the sets of wijzigingen with some property there is a smallest one.
LEMMA Kleinste ==
  ASSUME NEW T, T \subseteq SUBSET Wijzigingen, T # {}
  PROVE  \E W \in T : \A V \in T : V \subseteq W => V = W
<1>1. FiniteSubsetsOf(Wijzigingen) = SUBSET Wijzigingen
  BY VerzoekenAssumption, FS_FiniteSubsetsOfFinite
<1>2. IsWellFoundedOn(StrictSubsetOrdering(Wijzigingen), SUBSET Wijzigingen)
  BY <1>1, FS_StrictSubsetOrderingWellFounded
<1>3. PICK W \in T : \A V \in T : ~ (<<V, W>> \in StrictSubsetOrdering(Wijzigingen))
  BY <1>2, WFMin
<1> QED BY <1>3 DEF StrictSubsetOrdering

\* A sum over the subsets of W is one over those of V.
LEMMA TellingBeperkt ==
  ASSUME NEW W, NEW V \in SUBSET W, NEW g, Telt(g, W)
  PROVE  Telt([s \in SUBSET V |-> g[s]], V)
<1> DEFINE h == [s \in SUBSET V |-> g[s]]
<1>1. ASSUME NEW s \in SUBSET V
      PROVE  h[s] = IF s = {} THEN 0 ELSE Mutatie[Eerste(s)] + h[s \ {Eerste(s)}]
  <2>1. s \in SUBSET W /\ s \ {Eerste(s)} \in SUBSET V
    OBVIOUS
  <2>2. g[s] = IF s = {} THEN 0 ELSE Mutatie[Eerste(s)] + g[s \ {Eerste(s)}]
    BY <2>1 DEF Telt
  <2> QED BY <2>1, <2>2
<1> QED BY <1>1 DEF Telt

\* There is at most one.
LEMMA TellingUniek ==
  ASSUME NEW W \in SUBSET Wijzigingen, NEW g, NEW h, Telt(g, W), Telt(h, W)
  PROVE  g = h
<1> DEFINE T == {s \in SUBSET W : g[s] # h[s]}
<1>1. /\ g = [s \in SUBSET W |-> g[s]] /\ h = [s \in SUBSET W |-> h[s]]
      /\ \A s \in SUBSET W : s # {} => g[s] = Mutatie[Eerste(s)] + g[s \ {Eerste(s)}]
      /\ \A s \in SUBSET W : s # {} => h[s] = Mutatie[Eerste(s)] + h[s \ {Eerste(s)}]
      /\ g[{}] = 0 /\ h[{}] = 0
  BY DEF Telt
<1>2. SUFFICES ASSUME T # {} PROVE FALSE
  BY <1>1
<1>3. PICK s \in T : \A t \in T : t \subseteq s => t = s
  <2>1. T \subseteq SUBSET Wijzigingen
    OBVIOUS
  <2> HIDE DEF T
  <2> QED BY <1>2, <2>1, Kleinste
<1>4. s # {}
  BY <1>1, <1>3
<1>5. Eerste(s) \in s
  BY <1>4 DEF Eerste
<1>6. s \ {Eerste(s)} \in SUBSET W /\ s \ {Eerste(s)} \notin T
  BY <1>3, <1>5
<1> QED BY <1>1, <1>3, <1>4, <1>6

\* And there is one.
LEMMA TellingBestaat ==
  ASSUME NEW W \in SUBSET Wijzigingen
  PROVE  Telt(Telling(W), W)
<1> DEFINE T == {V \in SUBSET Wijzigingen : ~ \E g : Telt(g, V)}
<1>1. SUFFICES ASSUME T # {} PROVE FALSE
  BY DEF Telling
<1>2. PICK V \in T : \A U \in T : U \subseteq V => U = V
  <2>1. T \subseteq SUBSET Wijzigingen
    OBVIOUS
  <2> HIDE DEF T
  <2> QED BY <1>1, <2>1, Kleinste
<1>3. \A U \in SUBSET V : U # V => Telt(Telling(U), U)
  BY <1>2 DEF Telling
<1> DEFINE waarde(U) == Telling(U)[U]
           g == [s \in SUBSET V |->
                   IF s = {} THEN 0 ELSE Mutatie[Eerste(s)] + waarde(s \ {Eerste(s)})]
<1>4. ASSUME NEW s \in SUBSET V, s # {}
      PROVE  g[s \ {Eerste(s)}] = waarde(s \ {Eerste(s)})
  <2> DEFINE u == s \ {Eerste(s)}
  <2>1. Eerste(s) \in s
    BY <1>4 DEF Eerste
  <2>2. u \in SUBSET V /\ u # V
    BY <2>1
  <2>3. Telt(Telling(u), u)
    BY <1>3, <2>2
  <2> HIDE DEF u
  <2>4. CASE u = {}
    <3>1. Telling(u)[u] = 0
      BY <2>3, <2>4 DEF Telt
    <3> QED BY <2>2, <2>4, <3>1 DEF u
  <2>5. CASE u # {}
    <3> DEFINE v == u \ {Eerste(u)}
    <3>1. Telling(u)[u] = Mutatie[Eerste(u)] + Telling(u)[v]
      BY <2>3, <2>5 DEF Telt
    <3>2. v \in SUBSET u /\ v \in SUBSET V /\ v # V /\ v \in SUBSET Wijzigingen
      <4>1. Eerste(u) \in u
        BY <2>5 DEF Eerste
      <4> QED BY <2>2, <4>1, <1>2
    <3>3. Telt(Telling(v), v) /\ Telt([t \in SUBSET v |-> Telling(u)[t]], v)
      BY <1>3, <2>3, <3>2, TellingBeperkt
    <3>4. Telling(v) = [t \in SUBSET v |-> Telling(u)[t]]
      BY <3>2, <3>3, TellingUniek
    <3>5. Telling(v)[v] = Telling(u)[v]
      BY <3>4
    <3>6. g[u] = Mutatie[Eerste(u)] + waarde(v)
      BY <2>2, <2>5
    <3> QED BY <3>1, <3>5, <3>6 DEF u
  <2> QED BY <2>4, <2>5
<1>5. \A s \in SUBSET V : g[s] = IF s = {} THEN 0 ELSE Mutatie[Eerste(s)] + g[s \ {Eerste(s)}]
  BY <1>4
<1>6. Telt(g, V)
  <2>1. g = [s \in SUBSET V |-> g[s]]
    OBVIOUS
  <2> HIDE DEF g
  <2> QED BY <1>5, <2>1 DEF Telt
<1> QED BY <1>2, <1>6

\* The sum unfolds, at the element that CHOOSE takes.
LEMMA SomOntvouwt ==
  ASSUME NEW W \in SUBSET Wijzigingen
  PROVE  Som(W) = IF W = {} THEN 0 ELSE Mutatie[Eerste(W)] + Som(W \ {Eerste(W)})
<1> DEFINE V == W \ {Eerste(W)}
<1>1. Telt(Telling(W), W) /\ Telt(Telling(V), V) /\ V \in SUBSET W /\ V \in SUBSET Wijzigingen
  BY TellingBestaat
<1>2. Telling(V) = [s \in SUBSET V |-> Telling(W)[s]]
  <2>1. Telt([s \in SUBSET V |-> Telling(W)[s]], V)
    BY <1>1, TellingBeperkt
  <2> QED BY <1>1, <2>1, TellingUniek
<1>3. Telling(V)[V] = Telling(W)[V]
  BY <1>2
<1>4. Telling(W)[W] = IF W = {} THEN 0 ELSE Mutatie[Eerste(W)] + Telling(W)[V]
  BY <1>1 DEF Telt
<1> QED BY <1>3, <1>4, SomIsTelling

\* The sum of mutations is a number.
LEMMA SomGetal == \A W \in SUBSET Wijzigingen : Som(W) \in Int
<1> DEFINE T == {W \in SUBSET Wijzigingen : Som(W) \notin Int}
<1>1. SUFFICES ASSUME T # {} PROVE FALSE
  OBVIOUS
<1>2. PICK W \in T : \A V \in T : V \subseteq W => V = W
  <2>1. T \subseteq SUBSET Wijzigingen
    OBVIOUS
  <2> HIDE DEF T
  <2> QED BY <1>1, <2>1, Kleinste
<1>3. CASE W = {}
  <2>1. W \in SUBSET Wijzigingen /\ Som(W) \notin Int
    BY <1>2
  <2>2. Som(W) = 0
    BY <1>3, <2>1, SomOntvouwt
  <2> QED BY <2>1, <2>2
<1>4. CASE W # {}
  <2>1. Eerste(W) \in W
    BY <1>4 DEF Eerste
  <2>2. Som(W \ {Eerste(W)}) \in Int /\ Mutatie[Eerste(W)] \in Int
    BY <1>2, <2>1, VerzoekenAssumption
  <2>3. Som(W) = Mutatie[Eerste(W)] + Som(W \ {Eerste(W)})
    BY <1>2, <1>4, SomOntvouwt
  <2> QED BY <1>2, <2>2, <2>3
<1> QED BY <1>3, <1>4

\* It does not matter in which order they are added.
LEMMA SomZonder ==
  \A W \in SUBSET Wijzigingen : \A w \in W : Som(W) = Mutatie[w] + Som(W \ {w})
<1> DEFINE T == {W \in SUBSET Wijzigingen : \E w \in W : Som(W) # Mutatie[w] + Som(W \ {w})}
<1>1. SUFFICES ASSUME T # {} PROVE FALSE
  OBVIOUS
<1>2. PICK W \in T : \A V \in T : V \subseteq W => V = W
  <2>1. T \subseteq SUBSET Wijzigingen
    OBVIOUS
  <2> HIDE DEF T
  <2> QED BY <1>1, <2>1, Kleinste
<1>3. PICK w \in W : Som(W) # Mutatie[w] + Som(W \ {w})
  BY <1>2
<1> DEFINE c == Eerste(W)
           V == (W \ {w}) \ {c}
<1>4. c \in W
  BY <1>3 DEF Eerste
<1>5. Som(W) = Mutatie[c] + Som(W \ {c})
  BY <1>2, <1>3, SomOntvouwt
<1>6. w # c
  BY <1>3, <1>5
<1>7. Som(W \ {c}) = Mutatie[w] + Som((W \ {c}) \ {w})
  <2>1. W \ {c} \notin T
    BY <1>2, <1>4
  <2> QED BY <1>2, <1>3, <1>6, <2>1
<1>8. Som(W \ {w}) = Mutatie[c] + Som(V)
  <2>1. W \ {w} \notin T
    BY <1>2, <1>3
  <2> QED BY <1>2, <1>4, <1>6, <2>1
<1>9. Som((W \ {c}) \ {w}) = Som(V)
  <2>1. (W \ {c}) \ {w} = V
    OBVIOUS
  <2> QED BY <2>1
<1>10. /\ Mutatie[c] \in Int /\ Mutatie[w] \in Int
       /\ Som(V) \in Int
  <2>1. V \in SUBSET Wijzigingen
    BY <1>2
  <2> QED BY <1>2, <1>3, <1>4, <2>1, VerzoekenAssumption, SomGetal
<1>11. Som(W) = Mutatie[c] + (Mutatie[w] + Som(V))
  BY <1>5, <1>7, <1>9
<1>12. Som(W) # Mutatie[w] + (Mutatie[c] + Som(V))
  BY <1>3, <1>8
<1> HIDE DEF c, V
<1> QED BY <1>10, <1>11, <1>12

\* So accepting one more adds its mutation.
LEMMA SomErbij ==
  ASSUME NEW W \in SUBSET Wijzigingen, NEW w \in Wijzigingen \ W
  PROVE  Som(W \cup {w}) = Som(W) + Mutatie[w] /\ Som(W) \in Int /\ Mutatie[w] \in Int
<1>1. W \cup {w} \in SUBSET Wijzigingen /\ (W \cup {w}) \ {w} = W
  OBVIOUS
<1>2. Som(W \cup {w}) = Mutatie[w] + Som(W)
  BY <1>1, SomZonder
<1>3. Som(W) \in Int /\ Mutatie[w] \in Int
  BY SomGetal, VerzoekenAssumption
<1> QED BY <1>2, <1>3

-----------------------------------------------------------------------------
(* The number that a verklaring takes over *)

\* A rapport gives a score from 0 to 100, or none.
LEMMA KpiScoreBegrensd ==
  ASSUME NEW b \in Berichten
  PROVE  KpiScore(Resultaten[b]) \in 0 .. 100 \cup {Geen}
<1> DEFINE r == Resultaten[b]
<1>1. r.getal \in Int \cup {Geen} /\ r.totaal \in Int \cup {Geen} /\ r.open \in Int \cup {Geen}
  BY LeesmodelAssumption
<1>2. \A n \in Int : TussenNulEnHonderd(n) \in 0 .. 100
  BY DEF TussenNulEnHonderd
<1> HIDE DEF r
<1>3. CASE r.getal # Geen
  BY <1>1, <1>2, <1>3 DEF KpiScore, r
<1>4. CASE r.getal = Geen /\ r.totaal # Geen /\ r.open # Geen /\ r.totaal > 0
  <2>1. r.totaal \in Int /\ r.open \in Int
    BY <1>1, <1>4
  <2>2. (200 * (r.totaal - r.open) + r.totaal) \in Int /\ 2 * r.totaal \in Int /\ 2 * r.totaal > 0
    BY <1>4, <2>1
  <2>3. \A x, y \in Int : y > 0 => x \div y \in Int
    OBVIOUS
  <2>4. (200 * (r.totaal - r.open) + r.totaal) \div (2 * r.totaal) \in Int
    BY <2>2, <2>3
  <2>5. KpiScore(r) \in {Geen, TussenNulEnHonderd((200 * (r.totaal - r.open) + r.totaal) \div (2 * r.totaal))}
    BY <1>4, <2>1 DEF KpiScore
  <2> QED BY <1>2, <2>4, <2>5 DEF r
<1>5. CASE r.getal = Geen /\ ~(r.totaal # Geen /\ r.open # Geen /\ r.totaal > 0)
  <2>1. KpiScore(r) \in {Geen, 100}
    BY <1>1, <1>5 DEF KpiScore
  <2> QED BY <2>1 DEF r
<1> QED BY <1>3, <1>4, <1>5

\* A set of positions has a last one.
LEMMA Achterste ==
  ASSUME NEW n \in Nat, NEW S \in SUBSET (1 .. n), S # {}
  PROVE  \E i \in S : \A j \in S : j <= i
<1> DEFINE T == {n - i : i \in S}
<1>1. T \subseteq Nat /\ T # {}
  OBVIOUS
<1>2. PICK m \in T : \A k \in T : ~(<<k, m>> \in OpToRel(<, Nat))
  <2> HIDE DEF T
  <2> QED BY <1>1, NatLessThanWellFounded, WFMin
<1>3. \A k \in T : ~(k < m)
  BY <1>1, <1>2 DEF OpToRel
<1>4. PICK i \in S : m = n - i
  OBVIOUS
<1>5. \A j \in S : j <= i
  BY <1>3, <1>4
<1> QED BY <1>5

LEMMA LaatsteKpiScoreBegrensd ==
  ASSUME LeesmodelTypeOK
  PROVE  LaatsteKpiScore \in 0 .. 100 \cup {Geen}
<1> DEFINE metScore == {i \in 1 .. Len(kpiRijen) : kpi[kpiRijen[i]] # Geen}
           laatste == CHOOSE i \in metScore : \A j \in metScore : j <= i
<1>1. kpiRijen \in Seq(Rijen) /\ kpi \in [Rijen -> 0 .. 100 \cup {Geen}]
  BY DEF LeesmodelTypeOK
<1>2. LaatsteKpiScore = IF metScore = {} THEN Geen ELSE kpi[kpiRijen[laatste]]
  BY DEF LaatsteKpiScore
<1>3. ASSUME metScore # {} PROVE laatste \in metScore
  <2>1. Len(kpiRijen) \in Nat /\ metScore \in SUBSET (1 .. Len(kpiRijen))
    BY <1>1
  <2> HIDE DEF metScore
  <2>2. \E i \in metScore : \A j \in metScore : j <= i
    BY <1>3, <2>1, Achterste
  <2> QED BY <2>2
<1>4. ASSUME NEW i \in metScore PROVE kpi[kpiRijen[i]] \in 0 .. 100 \cup {Geen}
  <2>1. i \in 1 .. Len(kpiRijen)
    OBVIOUS
  <2>2. kpiRijen[i] \in Rijen
    BY <1>1, <2>1
  <2> QED BY <1>1, <2>2
<1> HIDE DEF metScore, laatste
<1> QED BY <1>2, <1>3, <1>4

-----------------------------------------------------------------------------
(* The consumers: LeveringInv by the lemmas of Consument_proofs, and the   *)
(* read models because a handler that writes applies the last message of   *)
(* its queue so far (NieuwsteIsLaatste).                                   *)

\* A message other than a rapport is published once, and its kind decides its queue.
LEMMA Kopie ==
  ASSUME NEW b \in Berichten
  PROVE  /\ Soort[b] # "rapport" => Kopieen[b] = 1
         /\ Soort[b] \in {"geregistreerd", "buitengebruik"} => Queue[b] = "contract.beheer-kunstwerk"
         /\ Soort[b] = "ontwerpeisen" => Queue[b] = "contract.beheer-ontwerpeisen"
         /\ Soort[b] = "rapport" => Queue[b] = "contract.monitoring-rapport"
BY LeesmodelAssumption DEF QueueVan

\* Where nothing is applied, the last message stays the last.
LEMMA VolgordeStil ==
  ASSUME VolgtDeVolgorde, toegepast' = toegepast, UNCHANGED leesmodel,
         ~overlap' => ~overlap, GeenVerworpen' => GeenVerworpen
  PROVE  VolgtDeVolgorde'
<1>1. inGebruik' = inGebruik /\ ontwerpeis' = ontwerpeis /\ kpi' = kpi
  BY DEF leesmodel
<1> QED BY <1>1 DEF VolgtDeVolgorde, Laatste

\* The parts of VolgtDeVolgorde.
GebruikVolgt ==
  \A b \in Laatste({c \in toegepast : Soort[c] \in {"geregistreerd", "buitengebruik"}}) :
    inGebruik = IF Soort[b] = "geregistreerd" THEN "ja" ELSE "nee"

EisenVolgen == \A b \in Laatste({c \in toegepast : Soort[c] = "ontwerpeisen"}) : ontwerpeis = b

MetScore(k) ==
  {c \in toegepast : Soort[c] = "rapport" /\ Rij[c] = k /\ KpiScore(Resultaten[c]) # Geen}

KpiVolgt == \A k \in Rijen : \A b \in Laatste(MetScore(k)) : kpi[k] = KpiScore(Resultaten[b])

LEMMA VolgordeDelen ==
  /\ VolgtDeVolgorde <=> (~overlap => GebruikVolgt /\ EisenVolgen /\ (GeenVerworpen => KpiVolgt))
  /\ VolgtDeVolgorde' <=> (~overlap' => GebruikVolgt' /\ EisenVolgen' /\ (GeenVerworpen' => KpiVolgt'))
<1>1. VolgtDeVolgorde <=> (~overlap => GebruikVolgt /\ EisenVolgen /\ (GeenVerworpen => KpiVolgt))
  BY DEF VolgtDeVolgorde, GebruikVolgt, EisenVolgen, KpiVolgt, MetScore
<1>2. VolgtDeVolgorde' <=> (~overlap' => GebruikVolgt' /\ EisenVolgen' /\ (GeenVerworpen' => KpiVolgt'))
  BY DEF VolgtDeVolgorde, GebruikVolgt, EisenVolgen, KpiVolgt, MetScore
<1> QED BY <1>1, <1>2

\* beheer.kunstwerk.*: the row says what the last message says.
LEMMA KunstwerkVolgt ==
  ASSUME BerichtInv, NEW d \in Leveringen, UpsertKunstwerk(d) \/ MarkeerBuitenGebruik(d)
  PROVE  LeveringInv' /\ (WeigeringKlopt => WeigeringKlopt') /\ LeesmodelTypeOK' /\ VolgtDeVolgorde'
<1>1. PICK soort \in {"geregistreerd", "buitengebruik"}, plaats \in {"opgeslagen", "toegepast"} :
        /\ PastToe(d, soort, plaats)
        /\ inGebruik' = IF soort = "geregistreerd" THEN "ja" ELSE "nee"
        /\ ontwerpeis' = ontwerpeis /\ kpi' = kpi /\ kpiRijen' = kpiRijen
  BY DEF UpsertKunstwerk, MarkeerBuitenGebruik
<1>2. /\ LeveringInv' /\ (WeigeringKlopt => WeigeringKlopt')
      /\ toegepast' = toegepast \cup {Bericht(d)} /\ Soort[Bericht(d)] = soort
      /\ overlap' = overlap /\ (GeenVerworpen' => GeenVerworpen)
  BY <1>1, PastToeHoudt DEF BerichtInv
<1>3. LeesmodelTypeOK'
  BY <1>1 DEF BerichtInv, LeesmodelTypeOK
<1>4. levering[d] = "gecontroleerd"
  BY <1>1 DEF PastToe
<1>5. ASSUME ~overlap' PROVE GebruikVolgt'
  <2> DEFINE B == {c \in toegepast' : Soort[c] \in {"geregistreerd", "buitengebruik"}}
  <2>1. /\ LeveringInv /\ ~overlap /\ Kopieen[Bericht(d)] = 1
        /\ B \subseteq toegepast \cup {Bericht(d)} /\ Bericht(d) \in B
        /\ \A c \in B : Queue[c] = Queue[Bericht(d)]
    BY <1>2, <1>5, Kopie, LeveringIsKopie DEF BerichtInv, LeveringInv, LeveringTypeOK
  <2>2. Laatste(B) = {Bericht(d)}
    <3> HIDE DEF B
    <3> QED BY <1>4, <2>1, NieuwsteIsLaatste
  <2> QED BY <1>1, <1>2, <2>2 DEF GebruikVolgt, Laatste
<1>6. /\ {c \in toegepast' : Soort[c] = "ontwerpeisen"} = {c \in toegepast : Soort[c] = "ontwerpeisen"}
      /\ \A k : MetScore(k)' = MetScore(k)
  BY <1>2 DEF MetScore
<1>7. (EisenVolgen => EisenVolgen') /\ (KpiVolgt => KpiVolgt')
  BY <1>1, <1>6 DEF EisenVolgen, KpiVolgt, Laatste
<1> QED BY <1>2, <1>3, <1>5, <1>7, VolgordeDelen DEF BerichtInv

\* beheer.ontwerpeisen.vastgesteld: the row holds the last set of eisen.
LEMMA OntwerpeisVolgt ==
  ASSUME BerichtInv, NEW d \in Leveringen, BewaarEisen(d)
  PROVE  LeveringInv' /\ (WeigeringKlopt => WeigeringKlopt') /\ LeesmodelTypeOK' /\ VolgtDeVolgorde'
<1>1. /\ PastToe(d, "ontwerpeisen", "toegepast")
      /\ ontwerpeis' = Bericht(d)
      /\ inGebruik' = inGebruik /\ kpi' = kpi /\ kpiRijen' = kpiRijen
  BY DEF BewaarEisen
<1>2. /\ LeveringInv' /\ (WeigeringKlopt => WeigeringKlopt')
      /\ toegepast' = toegepast \cup {Bericht(d)} /\ Soort[Bericht(d)] = "ontwerpeisen"
      /\ overlap' = overlap /\ (GeenVerworpen' => GeenVerworpen)
  BY <1>1, PastToeHoudt DEF BerichtInv
<1>3. LeesmodelTypeOK'
  BY <1>1, LeveringIsKopie DEF BerichtInv, LeesmodelTypeOK
<1>4. levering[d] = "gecontroleerd"
  BY <1>1 DEF PastToe
<1>5. ASSUME ~overlap' PROVE EisenVolgen'
  <2> DEFINE B == {c \in toegepast' : Soort[c] = "ontwerpeisen"}
  <2>1. /\ LeveringInv /\ ~overlap /\ Kopieen[Bericht(d)] = 1
        /\ B \subseteq toegepast \cup {Bericht(d)} /\ Bericht(d) \in B
        /\ \A c \in B : Queue[c] = Queue[Bericht(d)]
    BY <1>2, <1>5, Kopie, LeveringIsKopie DEF BerichtInv, LeveringInv, LeveringTypeOK
  <2>2. Laatste(B) = {Bericht(d)}
    <3> HIDE DEF B
    <3> QED BY <1>4, <2>1, NieuwsteIsLaatste
  <2> QED BY <1>1, <2>2 DEF EisenVolgen, Laatste
<1>6. /\ {c \in toegepast' : Soort[c] \in {"geregistreerd", "buitengebruik"}}
           = {c \in toegepast : Soort[c] \in {"geregistreerd", "buitengebruik"}}
      /\ \A k : MetScore(k)' = MetScore(k)
  BY <1>2 DEF MetScore
<1>7. (GebruikVolgt => GebruikVolgt') /\ (KpiVolgt => KpiVolgt')
  BY <1>1, <1>6 DEF GebruikVolgt, KpiVolgt, Laatste
<1> QED BY <1>2, <1>3, <1>5, <1>7, VolgordeDelen DEF BerichtInv

\* monitoring.rapport.opgesteld: each row shows the score of its last rapport with one.
LEMMA KpiRapportVolgt ==
  ASSUME BerichtInv, NEW d \in Leveringen, BewaarKpi(d)
  PROVE  LeveringInv' /\ (WeigeringKlopt => WeigeringKlopt') /\ LeesmodelTypeOK' /\ VolgtDeVolgorde'
<1> DEFINE b == Bericht(d)
           s == KpiScore(Resultaten[b])
<1>1. /\ PastToe(d, "rapport", "toegepast")
      /\ kpi' = IF s = Geen THEN kpi ELSE [kpi EXCEPT ![Rij[b]] = s]
      /\ kpiRijen' \in {kpiRijen, Append(kpiRijen, Rij[b])}
      /\ inGebruik' = inGebruik /\ ontwerpeis' = ontwerpeis
  BY DEF BewaarKpi
<1>2. /\ LeveringInv' /\ (WeigeringKlopt => WeigeringKlopt')
      /\ toegepast' = toegepast \cup {b} /\ Soort[b] = "rapport"
      /\ overlap' = overlap /\ (GeenVerworpen' => GeenVerworpen)
  BY <1>1, PastToeHoudt DEF BerichtInv
<1>3. b \in Berichten /\ Rij[b] \in Rijen /\ s \in 0 .. 100 \cup {Geen}
  BY LeveringIsKopie, LeesmodelAssumption, KpiScoreBegrensd
<1>4. kpi \in [Rijen -> 0 .. 100 \cup {Geen}]
  BY DEF BerichtInv, LeesmodelTypeOK
<1> HIDE DEF s
<1>5. LeesmodelTypeOK'
  <2>1. kpi' \in [Rijen -> 0 .. 100 \cup {Geen}]
    BY <1>1, <1>3, <1>4
  <2>2. kpiRijen' \in Seq(Rijen)
    BY <1>1, <1>3 DEF BerichtInv, LeesmodelTypeOK
  <2> QED BY <1>1, <2>1, <2>2 DEF BerichtInv, LeesmodelTypeOK
<1>6. levering[d] = "gecontroleerd"
  BY <1>1 DEF PastToe
<1>7. ASSUME ~overlap', GeenVerworpen', KpiVolgt PROVE KpiVolgt'
  <2> SUFFICES ASSUME NEW k \in Rijen, NEW c \in Laatste(MetScore(k)')
               PROVE  kpi'[k] = KpiScore(Resultaten[c])
    BY DEF KpiVolgt, Laatste
  <2>1. CASE k = Rij[b] /\ s # Geen
    <3> DEFINE B == MetScore(k)'
    <3>1. B = {e \in toegepast' : Soort[e] = "rapport" /\ Rij[e] = k /\ KpiScore(Resultaten[e]) # Geen}
      BY DEF MetScore
    <3>2. B \subseteq toegepast \cup {b} /\ b \in B
      BY <1>2, <2>1, <3>1 DEF s
    <3>3. \A e \in B : Queue[e] = Queue[b]
      BY <1>2, <1>3, <3>1, Kopie DEF LeveringInv, LeveringTypeOK
    <3>4. LeveringInv /\ ~overlap /\ GeenVerworpen
      BY <1>2, <1>7 DEF BerichtInv
    <3>5. Laatste(B) = {b}
      <4> HIDE DEF B
      <4> QED BY <1>6, <3>2, <3>3, <3>4, NieuwsteIsLaatste
    <3>6. c = b
      BY <3>5
    <3>7. kpi'[k] = s
      BY <1>1, <1>3, <1>4, <2>1
    <3> QED BY <3>6, <3>7 DEF s
  <2>2. CASE ~(k = Rij[b] /\ s # Geen)
    <3>1. MetScore(k)' = MetScore(k)
      BY <1>2, <2>2 DEF MetScore, s
    <3>2. kpi'[k] = kpi[k]
      BY <1>1, <1>3, <1>4, <2>2
    <3> QED BY <1>7, <3>1, <3>2 DEF KpiVolgt
  <2> QED BY <2>1, <2>2
<1>8. /\ {c \in toegepast' : Soort[c] \in {"geregistreerd", "buitengebruik"}}
           = {c \in toegepast : Soort[c] \in {"geregistreerd", "buitengebruik"}}
      /\ {c \in toegepast' : Soort[c] = "ontwerpeisen"} = {c \in toegepast : Soort[c] = "ontwerpeisen"}
  BY <1>2
<1>9. (GebruikVolgt => GebruikVolgt') /\ (EisenVolgen => EisenVolgen')
  BY <1>1, <1>8 DEF GebruikVolgt, EisenVolgen, Laatste
<1> QED BY <1>2, <1>5, <1>7, <1>9, VolgordeDelen DEF BerichtInv

\* Every step of a delivery keeps BerichtInv.
LEMMA BehandelHoudt ==
  ASSUME BerichtInv, NEW d \in Leveringen, Behandel(d), fouten' = fouten
  PROVE  BerichtInv'
<1>1. CASE Bezorg(d)
  <2>1. (Verwerk(d) \/ MarkeerVerwerkt(d) \/ Ack(d)) /\ UNCHANGED leesmodel
    BY <1>1 DEF Bezorg
  <2>2. /\ LeveringInv' /\ (WeigeringKlopt => WeigeringKlopt')
        /\ toegepast' = toegepast /\ (~overlap' => ~overlap) /\ (GeenVerworpen' => GeenVerworpen)
    BY <2>1, VerwerkHoudt, MarkeerHoudt, AckHoudt DEF BerichtInv
  <2>3. LeesmodelTypeOK'
    BY <2>1 DEF BerichtInv, LeesmodelTypeOK, leesmodel
  <2>4. VolgtDeVolgorde'
    BY <2>1, <2>2, VolgordeStil DEF BerichtInv
  <2> QED BY <2>2, <2>3, <2>4 DEF BerichtInv
<1>2. CASE Zoek(d) \/ SignaleerContract(d)
  <2>1. PICK van \in {"opgeslagen", "gezocht"}, naar \in {"gezocht", "toegepast"} :
          GaVerder(d, van, naar) /\ UNCHANGED leesmodel
    BY <1>2 DEF Zoek, ZoekPerKunstwerk, SignaleerContract, Signaleer
  <2>2. /\ LeveringInv' /\ (WeigeringKlopt => WeigeringKlopt')
        /\ toegepast' = toegepast /\ overlap' = overlap /\ (GeenVerworpen' => GeenVerworpen)
    BY <2>1, GaVerderHoudt DEF BerichtInv
  <2>3. LeesmodelTypeOK'
    BY <2>1 DEF BerichtInv, LeesmodelTypeOK, leesmodel
  <2>4. VolgtDeVolgorde'
    BY <2>1, <2>2, VolgordeStil DEF BerichtInv
  <2> QED BY <2>2, <2>3, <2>4 DEF BerichtInv
<1>3. CASE UpsertKunstwerk(d) \/ MarkeerBuitenGebruik(d)
  BY <1>3, KunstwerkVolgt DEF BerichtInv
<1>4. CASE BewaarEisen(d)
  BY <1>4, OntwerpeisVolgt DEF BerichtInv
<1>5. CASE BewaarKpi(d)
  BY <1>5, KpiRapportVolgt DEF BerichtInv
<1> QED BY <1>1, <1>2, <1>3, <1>4, <1>5 DEF Behandel

\* So do a nack, a restart, and the steps of others.
LEMMA BerichtFout ==
  ASSUME BerichtInv, fouten \in Nat, fouten' = fouten + 1, UNCHANGED leesmodel,
         (\E d \in Leveringen : Nack(d)) \/ LeverOpnieuw \/ UNCHANGED leveringVars
  PROVE  BerichtInv'
<1>1. /\ LeveringInv'
      /\ toegepast' = toegepast /\ overlap' = overlap /\ (GeenVerworpen' => GeenVerworpen)
  BY NackHoudt, LeverOpnieuwHoudt, LeveringStil DEF BerichtInv
<1>2. LeesmodelTypeOK'
  BY DEF BerichtInv, LeesmodelTypeOK, leesmodel
<1>3. VolgtDeVolgorde'
  BY <1>1, VolgordeStil DEF BerichtInv
<1> QED BY <1>1, <1>2, <1>3 DEF BerichtInv

LEMMA BerichtStil ==
  ASSUME BerichtInv, fouten' = fouten, UNCHANGED leesmodel, UNCHANGED leveringVars
  PROVE  BerichtInv'
<1>1. /\ LeveringInv' /\ (WeigeringKlopt => WeigeringKlopt')
      /\ toegepast' = toegepast /\ overlap' = overlap /\ (GeenVerworpen' => GeenVerworpen)
  BY LeveringStil DEF BerichtInv
<1>2. LeesmodelTypeOK'
  BY DEF BerichtInv, LeesmodelTypeOK, leesmodel
<1>3. VolgtDeVolgorde'
  BY <1>1, VolgordeStil DEF BerichtInv
<1> QED BY <1>1, <1>2, <1>3 DEF BerichtInv

-----------------------------------------------------------------------------
(* The requests *)

\* Steps by which a request ends, or passes the check of a gunning.
LEMMA ZonderLezing ==
  ASSUME VerzoekInv, pc' \in [Verzoeken -> {"nieuw"} \cup Bezig \cup Eind],
         \A q \in Verzoeken :
           \/ pc'[q] = pc[q]
           \/ pc'[q] \in Eind
           \/ pc'[q] = "gecontroleerd" /\ pc[q] = "nieuw" /\ q \in Gunningen /\ contract.status = "Ontbreekt",
         UNCHANGED <<contract, kopie, score, aanvaard, samenloop>>, uitgegeven' \subseteq aanvaard
  PROVE  VerzoekInv'
<1>1. /\ contract' = contract /\ kopie' = kopie /\ score' = score
      /\ aanvaard' = aanvaard /\ samenloop' = samenloop
  OBVIOUS
<1>2. VerzoekTypeOK'
  BY <1>1 DEF VerzoekInv, VerzoekTypeOK
<1>3. PlaatsKlopt'
  BY <1>1 DEF VerzoekInv, PlaatsKlopt, Lezend, Eind
<1>4. GunningKlopt'
  BY <1>1 DEF VerzoekInv, GunningKlopt, Lezend, Eind
<1>5. LezingKlopt'
  BY <1>1 DEF VerzoekInv, LezingKlopt, Lezend, Eind
<1>6. WaardeKlopt'
  BY <1>1 DEF VerzoekInv, WaardeKlopt
<1> QED BY <1>2, <1>3, <1>4, <1>5, <1>6 DEF VerzoekInv

LEMMA Verplaatst ==
  ASSUME VerzoekInv, NEW r \in Verzoeken, NEW plaats \in {"nieuw"} \cup Bezig \cup Eind, NaarStap(r, plaats)
  PROVE  /\ pc' \in [Verzoeken -> {"nieuw"} \cup Bezig \cup Eind]
         /\ pc'[r] = plaats /\ \A q \in Verzoeken \ {r} : pc'[q] = pc[q]
BY DEF VerzoekInv, VerzoekTypeOK, NaarStap

\* zoek, first SELECT: the copy gets what the row says, and nobody else has one.
LEMMA LeesRijHoudt ==
  ASSUME VerzoekInv, NEW r \in Verzoeken, LeesRij(r)
  PROVE  VerzoekInv'
<1>1. /\ r \notin Gunningen /\ pc[r] = "nieuw"
      /\ contract' = contract /\ score' = score /\ aanvaard' = aanvaard /\ uitgegeven' = uitgegeven
  BY DEF LeesRij
<1>2. uitgegeven \subseteq aanvaard
  BY DEF VerzoekInv, VerzoekTypeOK
<1>3. CASE contract.status = "Ontbreekt"
  <2>1. NaarStap(r, "afgewezen") /\ kopie' = kopie /\ samenloop' = samenloop
    BY <1>3 DEF LeesRij
  <2>2. "afgewezen" \in Eind
    BY DEF Eind
  <2> QED BY <1>1, <1>2, <2>1, <2>2, Verplaatst, ZonderLezing
<1>4. CASE contract.status # "Ontbreekt"
  <2>1. /\ NaarStap(r, "rij")
        /\ kopie' = [kopie EXCEPT ![r].status = contract.status, ![r].waarde = contract.waarde]
        /\ samenloop' = (samenloop \/ \E q \in Verzoeken : pc[q] \in Lezend)
    BY <1>4 DEF LeesRij
  <2>2. "rij" \in Bezig /\ "rij" \in Lezend
    BY DEF Bezig, Lezend
  <2>3. /\ pc' \in [Verzoeken -> {"nieuw"} \cup Bezig \cup Eind]
        /\ pc'[r] = "rij" /\ \A q \in Verzoeken \ {r} : pc'[q] = pc[q]
    BY <2>1, <2>2, Verplaatst
  <2>4. kopie \in [Verzoeken -> Contracten] /\ contract \in Contracten
    BY DEF VerzoekInv, VerzoekTypeOK
  <2>5. /\ kopie' \in [Verzoeken -> Contracten]
        /\ kopie'[r].status = contract.status /\ kopie'[r].waarde = contract.waarde
    BY <2>1, <2>4 DEF Contracten
  <2>6. VerzoekTypeOK'
    BY <1>1, <2>1, <2>3, <2>5 DEF VerzoekInv, VerzoekTypeOK
  <2>7. PlaatsKlopt'
    BY <1>1, <2>3 DEF VerzoekInv, PlaatsKlopt, Lezend
  <2>8. GunningKlopt'
    BY <1>1, <1>4, <2>3 DEF VerzoekInv, GunningKlopt, Lezend
  <2>9. LezingKlopt'
    <3> SUFFICES ASSUME ~samenloop' PROVE LezingKlopt'
      BY DEF LezingKlopt
    <3>1. \A q \in Verzoeken : pc'[q] \in Lezend => q = r
      BY <2>1, <2>3
    <3> QED BY <1>1, <2>3, <2>5, <3>1 DEF LezingKlopt
  <2>10. WaardeKlopt'
    BY <1>1, <2>1 DEF VerzoekInv, WaardeKlopt
  <2> QED BY <2>6, <2>7, <2>8, <2>9, <2>10 DEF VerzoekInv
<1> QED BY <1>3, <1>4

\* The other steps of reading: the copy gets a list, or the score is settled.
LEMMA LeesVerderHoudt ==
  ASSUME VerzoekInv, LeesmodelTypeOK, NEW r \in Verzoeken,
         LeesWijzigingen(r) \/ LeesPrestaties(r) \/ BepaalScore(r)
  PROVE  VerzoekInv'
<1>1. PICK plaats \in {"wijzigingen", "geladen", "gescoord"} :
        /\ pc[r] \in Lezend /\ NaarStap(r, plaats)
        /\ contract' = contract /\ aanvaard' = aanvaard /\ uitgegeven' = uitgegeven /\ samenloop' = samenloop
  BY DEF LeesWijzigingen, LeesPrestaties, BepaalScore, Lezend
<1>2. plaats \in Lezend /\ plaats \in Bezig
  BY DEF Lezend, Bezig
<1>3. /\ pc' \in [Verzoeken -> {"nieuw"} \cup Bezig \cup Eind]
      /\ pc'[r] = plaats /\ \A q \in Verzoeken \ {r} : pc'[q] = pc[q]
  BY <1>1, <1>2, Verplaatst
<1>4. /\ kopie \in [Verzoeken -> Contracten] /\ contract \in Contracten
      /\ score \in [Verklaringen -> 0 .. 100 \cup Range(Score) \cup {Geen}]
  BY DEF VerzoekInv, VerzoekTypeOK
<1>5. kopie' \in [Verzoeken -> Contracten] /\ \A q \in Verzoeken \ {r} : kopie'[q] = kopie[q]
  <2>1. CASE LeesWijzigingen(r)
    BY <1>4, <2>1 DEF LeesWijzigingen, Contracten
  <2>2. CASE LeesPrestaties(r)
    BY <1>4, <2>2 DEF LeesPrestaties, Contracten
  <2>3. CASE BepaalScore(r)
    BY <1>4, <2>3 DEF BepaalScore
  <2> QED BY <2>1, <2>2, <2>3
<1>6. score' \in [Verklaringen -> 0 .. 100 \cup Range(Score) \cup {Geen}]
  <2>1. CASE LeesWijzigingen(r) \/ LeesPrestaties(r)
    BY <1>4, <2>1 DEF LeesWijzigingen, LeesPrestaties
  <2>2. CASE BepaalScore(r)
    <3>1. r \in Verklaringen
          /\ score' = [score EXCEPT ![r] = IF Score[r] = Geen THEN LaatsteKpiScore ELSE Score[r]]
      BY <2>2 DEF BepaalScore
    <3>2. Score[r] \in Range(Score)
      BY <3>1, VerzoekenAssumption DEF Range
    <3> QED BY <1>4, <3>1, <3>2, LaatsteKpiScoreBegrensd
  <2> QED BY <2>1, <2>2
<1>7. VerzoekTypeOK'
  BY <1>1, <1>3, <1>5, <1>6 DEF VerzoekInv, VerzoekTypeOK
<1>8. PlaatsKlopt'
  BY <1>1, <1>2, <1>3 DEF VerzoekInv, PlaatsKlopt, Lezend
<1>9. GunningKlopt'
  BY <1>1, <1>2, <1>3 DEF VerzoekInv, GunningKlopt, Lezend
<1>10. LezingKlopt'
  <2> SUFFICES ASSUME ~samenloop' PROVE LezingKlopt'
    BY DEF LezingKlopt
  <2>1. /\ \A q \in Verzoeken : pc[q] \in Lezend => q = r
        /\ kopie[r].status = contract.status /\ kopie[r].waarde = contract.waarde
        /\ pc[r] # "rij" => kopie[r].wijzigingen = contract.wijzigingen
        /\ pc[r] \in {"geladen", "gescoord"} => kopie[r].prestaties = contract.prestaties
    BY <1>1 DEF VerzoekInv, LezingKlopt
  <2>2. /\ kopie'[r].status = contract.status /\ kopie'[r].waarde = contract.waarde
        /\ kopie'[r].wijzigingen = contract.wijzigingen
        /\ plaats \in {"geladen", "gescoord"} => kopie'[r].prestaties = contract.prestaties
    <3>1. CASE LeesWijzigingen(r)
      <4>1. plaats = "wijzigingen"
        BY <1>3, <1>4, <3>1 DEF LeesWijzigingen, NaarStap, VerzoekInv, VerzoekTypeOK
      <4>2. kopie' = [kopie EXCEPT ![r].wijzigingen = contract.wijzigingen]
        BY <3>1 DEF LeesWijzigingen
      <4> QED BY <1>4, <2>1, <4>1, <4>2 DEF Contracten
    <3>2. CASE LeesPrestaties(r)
      <4>1. pc[r] = "wijzigingen" /\ kopie' = [kopie EXCEPT ![r].prestaties = contract.prestaties]
        BY <3>2 DEF LeesPrestaties
      <4> QED BY <1>4, <2>1, <4>1 DEF Contracten
    <3>3. CASE BepaalScore(r)
      <4>1. pc[r] = "geladen" /\ kopie' = kopie
        BY <3>3 DEF BepaalScore
      <4> QED BY <2>1, <4>1
    <3> QED BY <3>1, <3>2, <3>3
  <2>3. \A q \in Verzoeken : pc'[q] \in Lezend => q = r
    BY <1>3, <2>1
  <2> QED BY <1>1, <1>3, <2>2, <2>3 DEF LezingKlopt
<1>11. WaardeKlopt'
  BY <1>1 DEF VerzoekInv, WaardeKlopt
<1> QED BY <1>7, <1>8, <1>9, <1>10, <1>11 DEF VerzoekInv

\* The sum depends on the list alone.
LEMMA SomGestreept == Som(contract.wijzigingen)' = Som(contract'.wijzigingen)
BY DEF Som, MapThenSumSet, MapThenFoldSet

\* What bewaar writes, by the kind of request.
LEMMA GewijzigdKlopt ==
  ASSUME VerzoekInv, NEW r \in Wijzigingen \cup Verklaringen \cup Afrondingen, Toelaatbaar(r)
  PROVE  /\ Gewijzigd(r) \in Contracten /\ Gewijzigd(r).status \in {"Actief", "Afgerond"}
         /\ r \in Wijzigingen =>
              /\ Gewijzigd(r).waarde = kopie[r].waarde + Mutatie[r]
              /\ Gewijzigd(r).wijzigingen = kopie[r].wijzigingen \cup {r}
              /\ Gewijzigd(r).prestaties = kopie[r].prestaties
         /\ r \in Verklaringen =>
              /\ Gewijzigd(r).waarde = kopie[r].waarde
              /\ Gewijzigd(r).wijzigingen = kopie[r].wijzigingen
              /\ Gewijzigd(r).prestaties = kopie[r].prestaties \cup {r}
         /\ r \in Afrondingen =>
              /\ Gewijzigd(r).waarde = kopie[r].waarde
              /\ Gewijzigd(r).wijzigingen = kopie[r].wijzigingen
              /\ Gewijzigd(r).prestaties = kopie[r].prestaties
<1>1. kopie[r] \in Contracten /\ kopie[r].status = "Actief"
  BY DEF VerzoekInv, VerzoekTypeOK, Toelaatbaar, Verzoeken
<1>2. CASE r \in Wijzigingen
  <2>1. r \notin Verklaringen /\ r \notin Afrondingen
    BY <1>2, VerzoekenAssumption
  <2>2. Gewijzigd(r) = [kopie[r] EXCEPT !.waarde = NieuweWaarde(r), !.wijzigingen = @ \cup {r}]
    BY <1>2, <2>1 DEF Gewijzigd
  <2>3. kopie[r].waarde \in Nat /\ Mutatie[r] \in Int
    BY <1>1, <1>2, VerzoekenAssumption DEF Contracten
  <2>4. NieuweWaarde(r) \in Nat /\ NieuweWaarde(r) = kopie[r].waarde + Mutatie[r]
    BY <1>2, <2>3 DEF Toelaatbaar, NieuweWaarde
  <2>5. /\ Gewijzigd(r).status = "Actief" /\ Gewijzigd(r).waarde = NieuweWaarde(r)
        /\ Gewijzigd(r).wijzigingen = kopie[r].wijzigingen \cup {r}
        /\ Gewijzigd(r).prestaties = kopie[r].prestaties
    BY <1>1, <2>2 DEF Contracten
  <2>6. Gewijzigd(r) = [status |-> "Actief", waarde |-> NieuweWaarde(r),
                        wijzigingen |-> kopie[r].wijzigingen \cup {r}, prestaties |-> kopie[r].prestaties]
    BY <1>1, <2>2 DEF Contracten
  <2>7. Gewijzigd(r) \in Contracten
    <3>1. kopie[r].wijzigingen \cup {r} \in SUBSET Wijzigingen /\ kopie[r].prestaties \in SUBSET Verklaringen
      BY <1>1, <1>2 DEF Contracten
    <3> QED BY <2>4, <2>6, <3>1 DEF Contracten
  <2> QED BY <1>2, <2>1, <2>4, <2>5, <2>7
<1>3. CASE r \in Verklaringen
  <2>1. r \notin Wijzigingen /\ r \notin Afrondingen
    BY <1>3, VerzoekenAssumption
  <2>2. Gewijzigd(r) = [kopie[r] EXCEPT !.prestaties = @ \cup {r}]
    BY <1>3, <2>1 DEF Gewijzigd
  <2> QED BY <1>1, <1>3, <2>1, <2>2 DEF Contracten
<1>4. CASE r \in Afrondingen
  <2>1. r \notin Wijzigingen /\ r \notin Verklaringen
    BY <1>4, VerzoekenAssumption
  <2>2. Gewijzigd(r) = [kopie[r] EXCEPT !.status = "Afgerond"]
    BY <1>4, <2>1 DEF Gewijzigd
  <2> QED BY <1>1, <1>4, <2>1, <2>2 DEF Contracten
<1> QED BY <1>2, <1>3, <1>4

\* bewaar: without overlap the copy agrees with the tables, so that writing it back adds
\* this request to what was accepted and nothing else.
LEMMA BewaarHoudt ==
  ASSUME VerzoekInv, NEW r \in Wijzigingen \cup Verklaringen \cup Afrondingen, Bewaar(r)
  PROVE  VerzoekInv'
<1>1. /\ pc[r] = "gescoord" /\ Toelaatbaar(r) /\ contract' = Gewijzigd(r)
      /\ aanvaard' = aanvaard \cup {r} /\ NaarStap(r, "bewaard")
      /\ kopie' = kopie /\ score' = score /\ uitgegeven' = uitgegeven /\ samenloop' = samenloop
  BY DEF Bewaar
<1>2. r \in Verzoeken
  BY DEF Verzoeken
<1>3. "bewaard" \in Bezig /\ "bewaard" \notin Lezend /\ "gescoord" \in Lezend
  BY DEF Bezig, Lezend
<1>4. /\ pc' \in [Verzoeken -> {"nieuw"} \cup Bezig \cup Eind]
      /\ pc'[r] = "bewaard" /\ \A q \in Verzoeken \ {r} : pc'[q] = pc[q]
  BY <1>1, <1>2, <1>3, Verplaatst
<1>5. /\ contract'.status \in {"Actief", "Afgerond"} /\ contract' \in Contracten
      /\ contract.status # "Ontbreekt" /\ r \notin aanvaard
  BY <1>1, <1>2, <1>3, GewijzigdKlopt DEF VerzoekInv, GunningKlopt, PlaatsKlopt
<1>6. VerzoekTypeOK'
  BY <1>1, <1>2, <1>4, <1>5 DEF VerzoekInv, VerzoekTypeOK
<1>7. PlaatsKlopt'
  BY <1>1, <1>2, <1>3, <1>4 DEF VerzoekInv, PlaatsKlopt
<1>8. GunningKlopt'
  <2>1. \A q \in Verzoeken : pc'[q] # "gecontroleerd"
    BY <1>2, <1>4, <1>5 DEF VerzoekInv, GunningKlopt
  <2> QED BY <1>5, <2>1 DEF GunningKlopt
<1>9. LezingKlopt'
  <2> SUFFICES ASSUME ~samenloop' PROVE LezingKlopt'
    BY DEF LezingKlopt
  <2>1. \A q \in Verzoeken : pc'[q] \notin Lezend
    BY <1>1, <1>2, <1>3, <1>4 DEF VerzoekInv, LezingKlopt
  <2> QED BY <2>1 DEF LezingKlopt
<1>10. WaardeKlopt'
  <2> SUFFICES ASSUME ~samenloop'
               PROVE  /\ contract'.wijzigingen = aanvaard' \cap Wijzigingen
                      /\ contract'.prestaties = aanvaard' \cap Verklaringen
                      /\ contract'.waarde = Beginwaarde + Som(contract'.wijzigingen)
    BY SomGestreept DEF WaardeKlopt
  <2>1. /\ kopie[r].waarde = contract.waarde /\ kopie[r].wijzigingen = contract.wijzigingen
        /\ kopie[r].prestaties = contract.prestaties
    BY <1>1, <1>2, <1>3 DEF VerzoekInv, LezingKlopt
  <2>2. /\ contract.wijzigingen = aanvaard \cap Wijzigingen
        /\ contract.prestaties = aanvaard \cap Verklaringen
        /\ contract.waarde = Beginwaarde + Som(contract.wijzigingen)
    BY <1>1, <1>5 DEF VerzoekInv, WaardeKlopt
  <2>3. CASE r \in Wijzigingen
    <3>1. /\ contract'.waarde = contract.waarde + Mutatie[r]
          /\ contract'.wijzigingen = contract.wijzigingen \cup {r}
          /\ contract'.prestaties = contract.prestaties /\ r \notin Verklaringen
      BY <1>1, <2>1, <2>3, GewijzigdKlopt, VerzoekenAssumption
    <3>2. Som(contract'.wijzigingen) = Som(contract.wijzigingen) + Mutatie[r]
          /\ Som(contract.wijzigingen) \in Int /\ Mutatie[r] \in Int
      <4>1. contract.wijzigingen \in SUBSET Wijzigingen /\ r \in Wijzigingen \ contract.wijzigingen
        BY <1>5, <2>2, <2>3
      <4> QED BY <3>1, <4>1, SomErbij
    <3>3. contract'.waarde = Beginwaarde + Som(contract'.wijzigingen)
      BY <2>2, <3>1, <3>2, VerzoekenAssumption
    <3> QED BY <1>1, <2>2, <2>3, <3>1, <3>3
  <2>4. CASE r \notin Wijzigingen
    <3>1. /\ contract'.waarde = contract.waarde /\ contract'.wijzigingen = contract.wijzigingen
          /\ contract'.prestaties = IF r \in Verklaringen THEN contract.prestaties \cup {r} ELSE contract.prestaties
      BY <1>1, <2>1, <2>4, GewijzigdKlopt, VerzoekenAssumption
    <3> QED BY <1>1, <2>2, <2>4, <3>1
  <2> QED BY <2>3, <2>4
<1> QED BY <1>6, <1>7, <1>8, <1>9, <1>10 DEF VerzoekInv

\* The gunning makes a contract that nobody has seen.
LEMMA BewaarContractHoudt ==
  ASSUME VerzoekInv, NEW g \in Gunningen, BewaarContract(g)
  PROVE  VerzoekInv'
<1>1. /\ pc[g] = "gecontroleerd" /\ contract' = Gegund
      /\ aanvaard' = aanvaard \cup {g} /\ NaarStap(g, "bewaard")
      /\ kopie' = kopie /\ score' = score /\ uitgegeven' = uitgegeven /\ samenloop' = samenloop
  BY DEF BewaarContract
<1>2. g \in Verzoeken
  BY DEF Verzoeken
<1>3. "bewaard" \in Bezig /\ "bewaard" \notin Lezend
  BY DEF Bezig, Lezend
<1>4. /\ pc' \in [Verzoeken -> {"nieuw"} \cup Bezig \cup Eind]
      /\ pc'[g] = "bewaard" /\ \A q \in Verzoeken \ {g} : pc'[q] = pc[q]
  BY <1>1, <1>2, <1>3, Verplaatst
<1>5. aanvaard = {} /\ \A q \in Verzoeken : pc[q] \notin Lezend
  BY <1>1, <1>2 DEF VerzoekInv, GunningKlopt
<1>6. contract' = [status |-> "Actief", waarde |-> Beginwaarde, wijzigingen |-> {}, prestaties |-> {}]
  BY <1>1 DEF Gegund, Leeg
<1>7. VerzoekTypeOK'
  BY <1>1, <1>2, <1>4, <1>6, VerzoekenAssumption DEF VerzoekInv, VerzoekTypeOK, Contracten
<1>8. PlaatsKlopt'
  BY <1>1, <1>2, <1>3, <1>4 DEF VerzoekInv, PlaatsKlopt
<1>9. \A q \in Verzoeken : pc'[q] \notin Lezend
  BY <1>3, <1>4, <1>5
<1>10. GunningKlopt'
  <2>1. \A q \in Verzoeken : pc'[q] # "gecontroleerd"
    BY <1>4, VerzoekenAssumption DEF VerzoekInv, GunningKlopt
  <2> QED BY <1>6, <2>1 DEF GunningKlopt
<1>11. LezingKlopt'
  BY <1>9 DEF LezingKlopt
<1>12. WaardeKlopt'
  <2>1. aanvaard' \cap Wijzigingen = {} /\ aanvaard' \cap Verklaringen = {}
    BY <1>1, <1>5, VerzoekenAssumption
  <2>2. Som({}) = 0
    BY SomOntvouwt
  <2>3. contract'.waarde = Beginwaarde + Som(contract'.wijzigingen)
    BY <1>6, <2>2, VerzoekenAssumption
  <2>4. contract'.wijzigingen = {} /\ contract'.prestaties = {}
    BY <1>6
  <2> QED BY <2>1, <2>3, <2>4, SomGestreept DEF WaardeKlopt
<1> QED BY <1>7, <1>8, <1>10, <1>11, <1>12 DEF VerzoekInv

\* Every step of a request keeps VerzoekInv.
LEMMA VerzoekHoudt ==
  ASSUME VerzoekInv, LeesmodelTypeOK, NEW r \in Verzoeken, Verzoek(r)
  PROVE  VerzoekInv'
<1>1. CASE LeesRij(r)
  BY <1>1, LeesRijHoudt
<1>2. CASE LeesWijzigingen(r) \/ LeesPrestaties(r) \/ BepaalScore(r)
  BY <1>2, LeesVerderHoudt
<1>3. CASE r \in Wijzigingen \cup Verklaringen \cup Afrondingen /\ Bewaar(r)
  BY <1>3, BewaarHoudt
<1>4. CASE r \in Gunningen /\ BewaarContract(r)
  BY <1>4, BewaarContractHoudt
<1>5. CASE Publiceer(r) \/ WijsAf(r) \/ (r \in Gunningen /\ ControleerKunstwerk(r))
  <2>1. PICK plaats \in {"klaar", "afgewezen", "gecontroleerd"} :
          /\ NaarStap(r, plaats)
          /\ plaats = "gecontroleerd" => pc[r] = "nieuw" /\ r \in Gunningen /\ contract.status = "Ontbreekt"
    BY <1>5 DEF Publiceer, WijsAf, ControleerKunstwerk
  <2>2. /\ UNCHANGED <<contract, kopie, score, aanvaard, samenloop>>
        /\ uitgegeven' \subseteq aanvaard
    <3>1. uitgegeven \subseteq aanvaard /\ (pc[r] = "bewaard" => r \in aanvaard)
      BY DEF VerzoekInv, VerzoekTypeOK, PlaatsKlopt
    <3>2. CASE Publiceer(r)
      BY <3>1, <3>2 DEF Publiceer
    <3>3. CASE WijsAf(r)
      BY <3>1, <3>3 DEF WijsAf
    <3>4. CASE ControleerKunstwerk(r)
      BY <3>1, <3>4 DEF ControleerKunstwerk
    <3> QED BY <1>5, <3>2, <3>3, <3>4
  <2>3. plaats \in {"nieuw"} \cup Bezig \cup Eind /\ (plaats \in Eind \/ plaats = "gecontroleerd")
    BY DEF Bezig, Eind
  <2> QED BY <2>1, <2>2, <2>3, Verplaatst, ZonderLezing
<1> QED
  BY <1>1, <1>2, <1>3, <1>4, <1>5
  DEF Verzoek, GunContract, KeurWijzigingGoed, StelPrestatieverklaringOp, RondOnderhoudscontractAf, WijzigContract

\* A request that breaks, and a restart.
LEMMA VerzoekFout ==
  ASSUME VerzoekInv, UNCHANGED <<contract, kopie, score, aanvaard, uitgegeven, samenloop>>,
         \/ \E r \in Verzoeken : Breek(r)
         \/ pc' = [r \in Verzoeken |-> IF pc[r] \in Bezig THEN "mislukt" ELSE pc[r]]
  PROVE  VerzoekInv'
<1>1. pc \in [Verzoeken -> {"nieuw"} \cup Bezig \cup Eind] /\ "mislukt" \in Eind /\ uitgegeven \subseteq aanvaard
  BY DEF VerzoekInv, VerzoekTypeOK, Eind
<1>2. /\ pc' \in [Verzoeken -> {"nieuw"} \cup Bezig \cup Eind]
      /\ \A q \in Verzoeken : pc'[q] = pc[q] \/ pc'[q] \in Eind
  BY <1>1 DEF Breek, NaarStap
<1> QED BY <1>1, <1>2, ZonderLezing

LEMMA VerzoekStil ==
  ASSUME VerzoekInv, UNCHANGED verzoekVars
  PROVE  VerzoekInv'
<1>1. /\ UNCHANGED <<contract, kopie, score, aanvaard, samenloop>> /\ pc' = pc /\ uitgegeven' = uitgegeven
  BY DEF verzoekVars
<1>2. pc \in [Verzoeken -> {"nieuw"} \cup Bezig \cup Eind] /\ uitgegeven \subseteq aanvaard
  BY DEF VerzoekInv, VerzoekTypeOK
<1> QED BY <1>1, <1>2, ZonderLezing

-----------------------------------------------------------------------------
(* The end of the kunstwerk, from its message to the log *)

\* Where d goes, with what it does to the marks and the log.
LEMMA SignaalVerder ==
  ASSUME Inv, NEW d \in Leveringen, NEW plaats, Stuur(d, plaats),
         contract' = contract, samenloop' = samenloop, pc' = pc,
         toegepast' = toegepast \/ (toegepast' = toegepast \cup {Bericht(d)} /\ ~Uitgebruik(Bericht(d))),
         (\E b \in toegepast : Uitgebruik(b)) => inGebruik' = inGebruik,
         gevonden \subseteq gevonden' \cup {d},
         ~overlap' => ~overlap, ~ingehaald' => ~ingehaald,
         gesignaleerd => gesignaleerd',
         plaats = "gezocht" /\ contract.status = "Actief" => d \in gevonden',
         plaats = "toegepast" /\ Uitgebruik(Bericht(d)) =>
           levering[d] = "gezocht" /\ (d \in gevonden /\ contract.status = "Actief" => gesignaleerd'),
         \/ verwerkt' = verwerkt
         \/ verwerkt' = verwerkt \cup {Bericht(d)} /\ levering[d] = "toegepast"
  PROVE  SignaalKlopt'
<1> SUFFICES ASSUME Validatie = "streng", ~overlap', ~ingehaald' PROVE SignaalKlopt'
  BY DEF SignaalKlopt
<1>1. SignaalKlopt /\ ~overlap /\ ~ingehaald
  BY DEF Inv
<1>2. levering'[d] = plaats /\ \A e \in Leveringen \ {d} : levering'[e] = levering[e]
  BY DEF Stuur, Inv, BerichtInv, LeveringInv, LeveringTypeOK
<1>3. ASSUME NEW b \in toegepast', Uitgebruik(b)
      PROVE  inGebruik' = "nee" /\ \A g \in Gunningen : pc'[g] # "gecontroleerd"
  BY <1>1, <1>3 DEF SignaalKlopt
<1>4. ASSUME ~samenloop', contract'.status = "Actief", NEW e \in Leveringen,
             levering'[e] = "gezocht", Uitgebruik(Bericht(e))
      PROVE  e \in gevonden'
  BY <1>1, <1>2, <1>4 DEF SignaalKlopt
<1>5. ASSUME ~samenloop', contract'.status = "Actief",
             \/ \E e \in Leveringen : levering'[e] = "toegepast" /\ Uitgebruik(Bericht(e))
             \/ \E b \in verwerkt' : Uitgebruik(b)
      PROVE  gesignaleerd'
  <2>1. CASE plaats = "toegepast" /\ Uitgebruik(Bericht(d))
    BY <1>1, <1>5, <2>1 DEF SignaalKlopt
  <2>2. CASE ~(plaats = "toegepast" /\ Uitgebruik(Bericht(d)))
    <3>1. \/ \E e \in Leveringen : levering[e] = "toegepast" /\ Uitgebruik(Bericht(e))
          \/ \E b \in verwerkt : Uitgebruik(b)
      BY <1>2, <1>5, <2>2
    <3> QED BY <1>1, <1>5, <3>1 DEF SignaalKlopt
  <2> QED BY <2>1, <2>2
<1> QED BY <1>3, <1>4, <1>5 DEF SignaalKlopt

\* Without overlap a registration does not come after the end of the kunstwerk.
LEMMA GeenRegistratieErna ==
  ASSUME Inv, ~overlap, NEW d \in Leveringen, UpsertKunstwerk(d), NEW b \in toegepast, Uitgebruik(b)
  PROVE  FALSE
<1>1. levering[d] = "gecontroleerd" /\ Soort[Bericht(d)] = "geregistreerd" /\ LeveringInv
  BY DEF UpsertKunstwerk, PastToe, Inv, BerichtInv
<1>2. b \in Berichten /\ Bericht(d) \in Berichten /\ Soort[b] = "buitengebruik"
  BY <1>1, LeveringIsKopie DEF LeveringInv, LeveringTypeOK, Uitgebruik
<1>3. Queue[b] = Queue[Bericht(d)] /\ Kopieen[Bericht(d)] = 1
  BY <1>1, <1>2, Kopie
<1>4. Rang[b] <= Rang[Bericht(d)]
  BY <1>1, <1>3, Nieuwste
<1>5. Rang[Bericht(d)] < Rang[b]
  BY <1>1, <1>2 DEF Uitgebruik
<1>6. Rang[b] \in Nat /\ Rang[Bericht(d)] \in Nat
  BY <1>2, BerichtenAssumption
<1> QED BY <1>4, <1>5, <1>6

LEMMA BehandelSignaal ==
  ASSUME Inv, NEW d \in Leveringen, Behandel(d), UNCHANGED verzoekVars
  PROVE  SignaalKlopt'
<1>1. contract' = contract /\ samenloop' = samenloop /\ pc' = pc
  BY DEF verzoekVars
<1>2. overlap \in BOOLEAN /\ ingehaald \in BOOLEAN
  BY DEF Inv, BerichtInv, LeveringInv, LeveringTypeOK, OverigTypeOK
<1>3. CASE Bezorg(d) /\ UNCHANGED <<signaalVars, ingehaald>>
  <2>1. inGebruik' = inGebruik /\ gevonden' = gevonden /\ gesignaleerd' = gesignaleerd /\ ingehaald' = ingehaald
    BY <1>3 DEF Bezorg, leesmodel, signaalVars
  <2>2. CASE Verwerk(d) \/ Ack(d)
    <3>1. PICK plaats \in {"bevestigd", "gecontroleerd"} : Stuur(d, plaats)
      BY <2>2 DEF Verwerk, Ack, GaVerder
    <3>2. verwerkt' = verwerkt
      BY <2>2 DEF Verwerk, Ack, GaVerder
    <3>3. toegepast' = toegepast /\ (~overlap' => ~overlap)
      BY <2>2, VerwerkHoudt, AckHoudt DEF Inv, BerichtInv
    <3> QED BY <3>3, <1>1, <2>1, <3>1, <3>2, SignaalVerder
  <2>3. CASE MarkeerVerwerkt(d)
    <3>1. PICK plaats \in {"verworpen", "gemarkeerd"} : Stuur(d, plaats)
      BY <2>3 DEF MarkeerVerwerkt
    <3>2. /\ toegepast' = toegepast /\ verwerkt' = verwerkt \cup {Bericht(d)} /\ overlap' = overlap
          /\ levering[d] = "toegepast"
      BY <2>3 DEF MarkeerVerwerkt
    <3> QED BY <1>1, <2>1, <3>1, <3>2, SignaalVerder
  <2> QED BY <1>3, <2>2, <2>3 DEF Bezorg
<1>4. CASE (UpsertKunstwerk(d) \/ BewaarEisen(d) \/ BewaarKpi(d)) /\ UNCHANGED <<signaalVars, ingehaald>>
  <2>1. gevonden' = gevonden /\ gesignaleerd' = gesignaleerd /\ ingehaald' = ingehaald
    BY <1>4 DEF signaalVars
  <2>2. PICK soort \in {"geregistreerd", "ontwerpeisen", "rapport"} :
          PastToe(d, soort, "toegepast") /\ (UpsertKunstwerk(d) \/ inGebruik' = inGebruik)
    BY <1>4 DEF UpsertKunstwerk, BewaarEisen, BewaarKpi
  <2>3. /\ Stuur(d, "toegepast") /\ Soort[Bericht(d)] = soort
        /\ toegepast' = toegepast \cup {Bericht(d)} /\ verwerkt' = verwerkt /\ overlap' = overlap
    BY <2>2 DEF PastToe
  <2>4. ~Uitgebruik(Bericht(d))
    BY <2>3 DEF Uitgebruik
  <2>5. CASE overlap
    BY <2>3, <2>5 DEF SignaalKlopt
  <2>6. CASE ~overlap
    <3>1. (\E b \in toegepast : Uitgebruik(b)) => inGebruik' = inGebruik
      BY <2>2, <2>6, GeenRegistratieErna
    <3> QED BY <1>1, <2>1, <2>3, <2>4, <3>1, SignaalVerder
  <2> QED BY <2>5, <2>6
<1>5. CASE MarkeerBuitenGebruik(d) /\ UNCHANGED signaalVars
           /\ ingehaald' = (ingehaald \/ \E g \in Gunningen : pc[g] = "gecontroleerd")
  <2>1. /\ Stuur(d, "opgeslagen") /\ inGebruik' = "nee"
        /\ toegepast' = toegepast \cup {Bericht(d)} /\ verwerkt' = verwerkt /\ overlap' = overlap
        /\ gevonden' = gevonden /\ gesignaleerd' = gesignaleerd
    BY <1>5 DEF MarkeerBuitenGebruik, PastToe, signaalVars
  <2> SUFFICES ASSUME Validatie = "streng", ~overlap', ~ingehaald' PROVE SignaalKlopt'
    BY DEF SignaalKlopt
  <2>2. SignaalKlopt /\ ~overlap /\ ~ingehaald /\ \A g \in Gunningen : pc[g] # "gecontroleerd"
    BY <1>5, <2>1 DEF Inv
  <2>3. levering'[d] = "opgeslagen" /\ \A e \in Leveringen \ {d} : levering'[e] = levering[e]
    BY <2>1 DEF Stuur, Inv, BerichtInv, LeveringInv, LeveringTypeOK
  <2>4. \A e \in Leveringen : levering'[e] \in {"gezocht", "toegepast"} => levering'[e] = levering[e]
    BY <2>3
  <2> QED BY <1>1, <2>1, <2>2, <2>4 DEF SignaalKlopt
<1>6. CASE Zoek(d) /\ UNCHANGED ingehaald
  <2>1. /\ Stuur(d, "gezocht") /\ inGebruik' = inGebruik
        /\ toegepast' = toegepast /\ verwerkt' = verwerkt /\ overlap' = overlap
        /\ gevonden' = IF contract.status = "Ontbreekt" THEN gevonden \ {d} ELSE gevonden \cup {d}
        /\ gesignaleerd' = gesignaleerd
    BY <1>6 DEF Zoek, ZoekPerKunstwerk, GaVerder, leesmodel
  <2>2. gevonden \subseteq gevonden' \cup {d}
    BY <2>1
  <2>3. contract.status = "Actief" => d \in gevonden'
    BY <2>1
  <2> QED BY <1>1, <1>6, <2>1, <2>2, <2>3, SignaalVerder
<1>7. CASE SignaleerContract(d) /\ UNCHANGED ingehaald
  <2>1. /\ Stuur(d, "toegepast") /\ levering[d] = "gezocht" /\ inGebruik' = inGebruik
        /\ toegepast' = toegepast /\ verwerkt' = verwerkt /\ overlap' = overlap
        /\ gesignaleerd' = (gesignaleerd \/ (d \in gevonden /\ contract.status = "Actief"))
        /\ gevonden' = gevonden
    BY <1>7 DEF SignaleerContract, Signaleer, GaVerder, leesmodel
  <2>2. (gesignaleerd => gesignaleerd') /\ (d \in gevonden /\ contract.status = "Actief" => gesignaleerd')
    BY <2>1
  <2> QED BY <1>1, <1>7, <2>1, <2>2, SignaalVerder
<1> QED BY <1>3, <1>4, <1>5, <1>6, <1>7 DEF Behandel

\* Requests: no gunning passes the check any more, so that a contract which is Actief was
\* so before.
LEMMA VerzoekSignaal ==
  ASSUME Inv, UNCHANGED <<leveringVars, leesmodel, signaalVars, ingehaald>>,
         samenloop => samenloop',
         \A g \in Gunningen : pc'[g] = "gecontroleerd" =>
           pc[g] = "gecontroleerd" \/ inGebruik = "ja" \/ Validatie = "soepel",
         ~samenloop' /\ contract'.status = "Actief" =>
           contract.status = "Actief" \/ \E g \in Gunningen : pc[g] = "gecontroleerd"
  PROVE  SignaalKlopt'
<1>1. /\ verwerkt' = verwerkt /\ levering' = levering /\ toegepast' = toegepast /\ overlap' = overlap
      /\ inGebruik' = inGebruik /\ gevonden' = gevonden /\ gesignaleerd' = gesignaleerd
      /\ ingehaald' = ingehaald
  BY DEF leveringVars, leesmodel, signaalVars
<1> SUFFICES ASSUME Validatie = "streng", ~overlap, ~ingehaald PROVE SignaalKlopt'
  BY <1>1 DEF SignaalKlopt
<1>2. SignaalKlopt
  BY DEF Inv
<1>3. ASSUME NEW b \in toegepast, Uitgebruik(b)
      PROVE  inGebruik = "nee" /\ \A g \in Gunningen : pc'[g] # "gecontroleerd"
  BY <1>2, <1>3 DEF SignaalKlopt
<1>4. ASSUME ~samenloop', contract'.status = "Actief", NEW b \in toegepast, Uitgebruik(b)
      PROVE  ~samenloop /\ contract.status = "Actief"
  BY <1>2, <1>4 DEF SignaalKlopt
<1>5. /\ verwerkt \subseteq toegepast
      /\ \A d \in Leveringen : levering[d] \in {"gezocht", "toegepast"} => Bericht(d) \in toegepast
  BY DEF Inv, BerichtInv, LeveringInv, MarkeringKlopt
<1>6. ASSUME ~samenloop', contract'.status = "Actief", NEW d \in Leveringen,
             levering[d] = "gezocht", Uitgebruik(Bericht(d))
      PROVE  d \in gevonden
  <2>1. Bericht(d) \in toegepast
    BY <1>5, <1>6
  <2>2. ~samenloop /\ contract.status = "Actief"
    BY <1>4, <1>6, <2>1
  <2> QED BY <1>2, <1>6, <2>2 DEF SignaalKlopt
<1>7. ASSUME ~samenloop', contract'.status = "Actief",
             \/ \E d \in Leveringen : levering[d] = "toegepast" /\ Uitgebruik(Bericht(d))
             \/ \E b \in verwerkt : Uitgebruik(b)
      PROVE  gesignaleerd
  <2>1. \E b \in toegepast : Uitgebruik(b)
    BY <1>5, <1>7
  <2>2. ~samenloop /\ contract.status = "Actief"
    BY <1>4, <1>7, <2>1
  <2> QED BY <1>2, <1>7, <2>2 DEF SignaalKlopt
<1> QED BY <1>1, <1>3, <1>6, <1>7 DEF SignaalKlopt

\* The requests do what VerzoekSignaal asks.
LEMMA VerzoekStapSignaal ==
  ASSUME Inv, NEW r \in Verzoeken, Verzoek(r), UNCHANGED <<leveringVars, leesmodel, signaalVars, ingehaald>>
  PROVE  SignaalKlopt'
<1>1. /\ samenloop \in BOOLEAN /\ pc \in [Verzoeken -> {"nieuw"} \cup Bezig \cup Eind]
      /\ kopie \in [Verzoeken -> Contracten]
  BY DEF Inv, VerzoekInv, VerzoekTypeOK
<1>2. \A plaats : NaarStap(r, plaats) =>
        /\ pc'[r] = plaats
        /\ \A q \in Verzoeken \ {r} : pc'[q] = pc[q]
  BY <1>1 DEF NaarStap
<1>3. Gunningen \subseteq Verzoeken
  BY DEF Verzoeken
<1>4. CASE LeesRij(r) \/ LeesWijzigingen(r) \/ LeesPrestaties(r) \/ BepaalScore(r) \/ Publiceer(r) \/ WijsAf(r)
  <2>1. PICK plaats \in {"afgewezen", "rij", "wijzigingen", "geladen", "gescoord", "klaar"} : NaarStap(r, plaats)
    BY <1>4 DEF LeesRij, LeesWijzigingen, LeesPrestaties, BepaalScore, Publiceer, WijsAf
  <2>2. contract' = contract /\ (samenloop => samenloop')
    <3>1. CASE LeesRij(r)
      BY <3>1 DEF LeesRij
    <3>2. CASE LeesWijzigingen(r) \/ LeesPrestaties(r) \/ BepaalScore(r) \/ Publiceer(r) \/ WijsAf(r)
      BY <3>2 DEF LeesWijzigingen, LeesPrestaties, BepaalScore, Publiceer, WijsAf
    <3> QED BY <1>4, <3>1, <3>2
  <2>3. \A g \in Gunningen : pc'[g] = "gecontroleerd" => pc[g] = "gecontroleerd"
    BY <1>2, <1>3, <2>1
  <2> QED BY <2>2, <2>3, VerzoekSignaal
<1>5. CASE r \in Wijzigingen \cup Verklaringen \cup Afrondingen /\ Bewaar(r)
  <2>1. /\ pc[r] = "gescoord" /\ Toelaatbaar(r) /\ NaarStap(r, "bewaard") /\ samenloop' = samenloop
    BY <1>5 DEF Bewaar
  <2>2. \A g \in Gunningen : pc'[g] = "gecontroleerd" => pc[g] = "gecontroleerd"
    BY <1>2, <1>3, <2>1
  <2>3. ~samenloop => contract.status = "Actief"
    BY <2>1 DEF Inv, VerzoekInv, LezingKlopt, Lezend, Toelaatbaar
  <2> QED BY <2>1, <2>2, <2>3, VerzoekSignaal
<1>6. CASE r \in Gunningen /\ BewaarContract(r)
  <2>1. pc[r] = "gecontroleerd" /\ NaarStap(r, "bewaard") /\ samenloop' = samenloop
    BY <1>6 DEF BewaarContract
  <2>2. \A g \in Gunningen : pc'[g] = "gecontroleerd" => pc[g] = "gecontroleerd"
    BY <1>2, <1>3, <2>1
  <2> QED BY <1>6, <2>1, <2>2, VerzoekSignaal
<1>7. CASE r \in Gunningen /\ ControleerKunstwerk(r)
  <2>1. /\ NaarStap(r, IF inGebruik = "ja" \/ Validatie = "soepel" THEN "gecontroleerd" ELSE "afgewezen")
        /\ contract' = contract /\ samenloop' = samenloop
    BY <1>7 DEF ControleerKunstwerk
  <2>2. \A g \in Gunningen : pc'[g] = "gecontroleerd" =>
          pc[g] = "gecontroleerd" \/ inGebruik = "ja" \/ Validatie = "soepel"
    BY <1>2, <1>3, <2>1
  <2> QED BY <2>1, <2>2, VerzoekSignaal
<1> QED
  BY <1>4, <1>5, <1>6, <1>7
  DEF Verzoek, GunContract, KeurWijzigingGoed, StelPrestatieverklaringOp, RondOnderhoudscontractAf, WijzigContract

\* A nack and a restart forget nothing of what was signalled.
LEMMA FoutSignaal ==
  ASSUME Inv, UNCHANGED <<leesmodel, signaalVars, ingehaald>>, contract' = contract, samenloop' = samenloop,
         \A q \in Verzoeken : pc'[q] = "gecontroleerd" => pc[q] = "gecontroleerd",
         verwerkt' = verwerkt, toegepast' = toegepast, overlap' = overlap,
         \A d \in Leveringen : levering'[d] \in {"gezocht", "toegepast"} => levering'[d] = levering[d]
  PROVE  SignaalKlopt'
<1>1. /\ inGebruik' = inGebruik /\ gevonden' = gevonden /\ gesignaleerd' = gesignaleerd
      /\ ingehaald' = ingehaald /\ Gunningen \subseteq Verzoeken
  BY DEF leesmodel, signaalVars, Verzoeken
<1>2. SignaalKlopt
  BY DEF Inv
<1> QED BY <1>1, <1>2 DEF SignaalKlopt

-----------------------------------------------------------------------------
(* Every step keeps the invariant *)

LEMMA Begin == Init => Inv
<1> SUFFICES ASSUME Init PROVE Inv
  OBVIOUS
<1>1. /\ LeveringInit(verkeer) /\ LeesmodelInit
      /\ verkeer \subseteq Verzoeken \cup Leveringen
      /\ \A d \in verkeer \cap Leveringen : <<Bericht(d), 1>> \in verkeer
      /\ contract \in {Leeg, Gegund}
      /\ pc = [r \in Verzoeken |-> "nieuw"] /\ kopie = [r \in Verzoeken |-> Leeg] /\ score = Score
      /\ aanvaard = {} /\ uitgegeven = {} /\ gevonden = {} /\ gesignaleerd = FALSE
      /\ fouten = 0 /\ samenloop = FALSE /\ ingehaald = FALSE
  BY DEF Init
<1>2. toegepast = {} /\ verwerkt = {} /\ \A d \in Leveringen : levering[d] \in {"onderweg", "afwezig"}
  BY <1>1 DEF LeveringInit
<1>3. BerichtInv
  <2>1. LeveringInv /\ WeigeringKlopt
    BY <1>1, LeveringBegin
  <2>2. LeesmodelTypeOK
    BY <1>1 DEF LeesmodelInit, LeesmodelTypeOK
  <2>3. VolgtDeVolgorde
    BY <1>2 DEF VolgtDeVolgorde, Laatste
  <2> QED BY <2>1, <2>2, <2>3 DEF BerichtInv
<1>4. VerzoekInv
  <2>1. Leeg \in Contracten /\ Gegund \in Contracten
    BY VerzoekenAssumption DEF Leeg, Gegund, Contracten
  <2>2. score \in [Verklaringen -> 0 .. 100 \cup Range(Score) \cup {Geen}]
    BY <1>1, VerzoekenAssumption DEF Range
  <2>3. VerzoekTypeOK
    BY <1>1, <2>1, <2>2 DEF VerzoekTypeOK
  <2>4. PlaatsKlopt /\ GunningKlopt /\ LezingKlopt
    BY <1>1 DEF PlaatsKlopt, GunningKlopt, LezingKlopt, Lezend
  <2>5. WaardeKlopt
    <3>1. contract.status # "Ontbreekt" => contract = Gegund
      BY <1>1 DEF Leeg
    <3>2. /\ Gegund.wijzigingen = {} /\ Gegund.prestaties = {} /\ Gegund.waarde = Beginwaarde
      BY DEF Gegund, Leeg
    <3>3. Som({}) = 0
      BY SomOntvouwt
    <3>4. Beginwaarde = Beginwaarde + Som(Gegund.wijzigingen)
      BY <3>2, <3>3, VerzoekenAssumption
    <3> QED BY <1>1, <3>1, <3>2, <3>4 DEF WaardeKlopt
  <2> QED BY <2>3, <2>4, <2>5 DEF VerzoekInv
<1>5. OverigTypeOK
  <2>1. MaxFouten \in Nat
    BY VerzoekenAssumption
  <2>2. fouten \in 0 .. MaxFouten
    BY <1>1, <2>1
  <2>3. gesignaleerd \in BOOLEAN /\ ingehaald \in BOOLEAN /\ gevonden \subseteq Leveringen
    BY <1>1
  <2> QED BY <1>1, <2>2, <2>3 DEF OverigTypeOK
<1>6. SignaalKlopt
  BY <1>2 DEF SignaalKlopt
<1> QED BY <1>3, <1>4, <1>5, <1>6 DEF Inv

LEMMA Stappen == Inv /\ [Next]_vars => Inv'
<1> SUFFICES ASSUME Inv, [Next]_vars PROVE Inv'
  OBVIOUS
<1>1. BerichtInv /\ VerzoekInv /\ OverigTypeOK /\ LeesmodelTypeOK /\ fouten \in 0 .. MaxFouten
  BY DEF Inv, BerichtInv, OverigTypeOK
<1>2. ASSUME NEW r \in Verzoeken, Verzoek(r),
             UNCHANGED <<berichtVars, signaalVars, ingehaald, verkeer, fouten>>
      PROVE  Inv'
  <2>1. UNCHANGED leveringVars /\ UNCHANGED leesmodel
    BY <1>2 DEF berichtVars
  <2>2. UNCHANGED signaalVars /\ ingehaald' = ingehaald /\ verkeer' = verkeer /\ fouten' = fouten
    BY <1>2
  <2>3. BerichtInv'
    BY <1>1, <2>1, <2>2, BerichtStil
  <2>4. VerzoekInv'
    BY <1>1, <1>2, VerzoekHoudt
  <2>5. OverigTypeOK'
    BY <1>1, <2>2 DEF OverigTypeOK, signaalVars
  <2>6. SignaalKlopt'
    BY <1>2, <2>1, <2>2, VerzoekStapSignaal
  <2> QED BY <2>3, <2>4, <2>5, <2>6 DEF Inv
<1>3. ASSUME NEW d \in Leveringen, Behandel(d), UNCHANGED verzoekVars, UNCHANGED <<verkeer, fouten>>
      PROVE  Inv'
  <2>1. BerichtInv'
    BY <1>1, <1>3, BehandelHoudt
  <2>2. VerzoekInv'
    BY <1>1, <1>3, VerzoekStil
  <2>3. OverigTypeOK'
    <3>1. gevonden \subseteq Leveringen /\ gesignaleerd \in BOOLEAN /\ ingehaald \in BOOLEAN
      BY <1>1 DEF OverigTypeOK
    <3>2. gevonden' \subseteq Leveringen
      BY <1>3, <3>1 DEF Behandel, Zoek, SignaleerContract, signaalVars
    <3>3. gesignaleerd' \in BOOLEAN
      BY <1>3, <3>1 DEF Behandel, Zoek, SignaleerContract, signaalVars
    <3>4. ingehaald' \in BOOLEAN
      BY <1>3, <3>1 DEF Behandel
    <3> QED BY <1>1, <1>3, <3>2, <3>3, <3>4 DEF OverigTypeOK
  <2>4. SignaalKlopt'
    BY <1>3, BehandelSignaal
  <2> QED BY <2>1, <2>2, <2>3, <2>4 DEF Inv
<1>4. ASSUME Fout
      PROVE  /\ OverigTypeOK' /\ fouten \in Nat /\ fouten' = fouten + 1
             /\ UNCHANGED signaalVars /\ ingehaald' = ingehaald
  <2>1. fouten \in 0 .. MaxFouten /\ MaxFouten \in Nat /\ fouten < MaxFouten /\ fouten' = fouten + 1
    BY <1>1, <1>4, VerzoekenAssumption DEF Fout
  <2>2. fouten' \in 0 .. MaxFouten /\ fouten \in Nat
    BY <2>1
  <2>3. verkeer' = verkeer /\ UNCHANGED signaalVars /\ ingehaald' = ingehaald
    BY <1>4 DEF Fout
  <2> QED BY <1>1, <2>1, <2>2, <2>3 DEF OverigTypeOK, signaalVars
<1>5. CASE BreekVerzoek
  <2>1. PICK r \in Verzoeken : Breek(r) /\ UNCHANGED berichtVars
    BY <1>5 DEF BreekVerzoek
  <2>2. UNCHANGED leveringVars /\ UNCHANGED leesmodel
    BY <2>1 DEF berichtVars
  <2>3. Fout
    BY <1>5 DEF BreekVerzoek
  <2>4. BerichtInv'
    BY <1>1, <1>4, <2>2, <2>3, BerichtFout
  <2>5. UNCHANGED <<contract, kopie, score, aanvaard, uitgegeven, samenloop>>
    BY <2>1 DEF Breek
  <2>6. VerzoekInv'
    BY <1>1, <2>1, <2>5, VerzoekFout
  <2>7. \A q \in Verzoeken : pc'[q] = "gecontroleerd" => pc[q] = "gecontroleerd"
    <3>1. pc' = [pc EXCEPT ![r] = "mislukt"] /\ pc \in [Verzoeken -> {"nieuw"} \cup Bezig \cup Eind]
      BY <1>1, <2>1 DEF Breek, NaarStap, VerzoekInv, VerzoekTypeOK
    <3> QED BY <3>1
  <2>8. verwerkt' = verwerkt /\ levering' = levering /\ toegepast' = toegepast /\ overlap' = overlap
    BY <2>2 DEF leveringVars
  <2>9. SignaalKlopt'
    BY <1>4, <2>2, <2>3, <2>5, <2>7, <2>8, FoutSignaal
  <2> QED BY <1>4, <2>3, <2>4, <2>6, <2>9 DEF Inv
<1>6. CASE WeigerBericht
  <2>1. PICK d \in Leveringen : Nack(d)
    BY <1>6 DEF WeigerBericht
  <2>2. Fout /\ UNCHANGED leesmodel /\ UNCHANGED verzoekVars
    BY <1>6 DEF WeigerBericht
  <2>3. BerichtInv'
    BY <1>1, <1>4, <2>1, <2>2, BerichtFout
  <2>4. VerzoekInv'
    BY <1>1, <2>2, VerzoekStil
  <2>5. contract' = contract /\ samenloop' = samenloop /\ pc' = pc
    BY <2>2 DEF verzoekVars
  <2>6. /\ verwerkt' = verwerkt /\ toegepast' = toegepast /\ overlap' = overlap
        /\ \A e \in Leveringen : levering'[e] \in {"gezocht", "toegepast"} => levering'[e] = levering[e]
    BY <1>1, <2>1 DEF Nack, GaVerder, Stuur, BerichtInv, LeveringInv, LeveringTypeOK
  <2>7. SignaalKlopt'
    BY <1>4, <2>2, <2>5, <2>6, FoutSignaal
  <2> QED BY <1>4, <2>2, <2>3, <2>4, <2>7 DEF Inv
<1>7. CASE Herstart
  <2>1. /\ Fout /\ LeverOpnieuw /\ UNCHANGED leesmodel
        /\ pc' = [r \in Verzoeken |-> IF pc[r] \in Bezig THEN "mislukt" ELSE pc[r]]
        /\ UNCHANGED <<contract, kopie, score, aanvaard, uitgegeven, samenloop>>
    BY <1>7 DEF Herstart
  <2>2. BerichtInv'
    BY <1>1, <1>4, <2>1, BerichtFout
  <2>3. VerzoekInv'
    BY <1>1, <2>1, VerzoekFout
  <2>4. \A q \in Verzoeken : pc'[q] = "gecontroleerd" => pc[q] = "gecontroleerd"
    BY <2>1
  <2>5. /\ verwerkt' = verwerkt /\ toegepast' = toegepast /\ overlap' = overlap
        /\ \A e \in Leveringen : levering'[e] \in {"gezocht", "toegepast"} => levering'[e] = levering[e]
    BY <2>1 DEF LeverOpnieuw
  <2>6. SignaalKlopt'
    BY <1>4, <2>1, <2>4, <2>5, FoutSignaal
  <2> QED BY <1>4, <2>1, <2>2, <2>3, <2>6 DEF Inv
<1>8. CASE UNCHANGED vars
  <2>1. UNCHANGED berichtVars /\ UNCHANGED verzoekVars /\ UNCHANGED signaalVars
        /\ verkeer' = verkeer /\ fouten' = fouten /\ ingehaald' = ingehaald
    BY <1>8 DEF vars
  <2>2. UNCHANGED leveringVars /\ UNCHANGED leesmodel
    BY <2>1 DEF berichtVars
  <2>3. BerichtInv'
    BY <1>1, <2>1, <2>2, BerichtStil
  <2>4. VerzoekInv'
    BY <1>1, <2>1, VerzoekStil
  <2>5. OverigTypeOK'
    BY <1>1, <2>1 DEF OverigTypeOK, signaalVars
  <2>6. SignaalKlopt'
    <3>1. contract' = contract /\ samenloop' = samenloop /\ pc' = pc
      BY <2>1 DEF verzoekVars
    <3>2. verwerkt' = verwerkt /\ levering' = levering /\ toegepast' = toegepast /\ overlap' = overlap
      BY <2>2 DEF leveringVars
    <3> QED BY <2>1, <2>2, <3>1, <3>2, FoutSignaal
  <2> QED BY <2>3, <2>4, <2>5, <2>6 DEF Inv
<1>9. CASE \E x \in verkeer : Stap(x)
  <2>1. PICK x \in verkeer : Stap(x)
    BY <1>9
  <2>2. \/ x \in Verzoeken /\ Verzoek(x) /\ UNCHANGED <<berichtVars, signaalVars, ingehaald, verkeer, fouten>>
        \/ x \in Leveringen /\ Behandel(x) /\ UNCHANGED verzoekVars /\ UNCHANGED <<verkeer, fouten>>
    BY <2>1 DEF Stap
  <2> QED BY <1>2, <1>3, <2>2
<1> QED BY <1>5, <1>6, <1>7, <1>8, <1>9 DEF Next

LEMMA Altijd == Spec => []Inv
BY Begin, Stappen, PTL DEF Spec

-----------------------------------------------------------------------------

\* The tables, the read models and the requests have values of their types; in particular
\* the value of a contract is never negative and a KPI score is from 0 to 100.
THEOREM TypeCorrect == Spec => []TypeOK
<1>1. Inv => TypeOK
  BY DEF Inv, BerichtInv, LeveringInv, VerzoekInv, VerzoekTypeOK, OverigTypeOK, TypeOK
<1> QED BY Altijd, <1>1, PTL

\* As long as no two requests overlapped, nothing that was accepted is lost from a contract,
\* and its value is the initial value plus the accepted mutations.
THEOREM WaardeIsVerantwoord == Spec => []WaardeKlopt
<1>1. Inv => WaardeKlopt
  BY DEF Inv, VerzoekInv
<1> QED BY Altijd, <1>1, PTL

\* A delivery that is acknowledged was handled and marked; without a fault none is refused
\* before it was.
THEOREM NietsWordtVergeten == Spec => []NietsVergeten
<1>1. Inv => NietsVergeten
  BY DEF Inv, BerichtInv, LeveringInv, MarkeringKlopt, WeigeringKlopt, NietsVergeten, Afgewikkeld
<1> QED BY Altijd, <1>1, PTL

\* As long as no two handlers of a queue overlapped, the read models show the last message
\* in the order of the exchange.
THEOREM LeesmodellenVolgen == Spec => []VolgtDeVolgorde
<1>1. Inv => VolgtDeVolgorde
  BY DEF Inv, BerichtInv
<1> QED BY Altijd, <1>1, PTL

\* Under strict validation a contract that is still Actief after its kunstwerk went out of
\* use was named in the log, unless the message overtook its gunning.
THEOREM BuitengebruikWordtGesignaleerd == Spec => []GesignaleerdOfIngehaald
<1>1. Inv => GesignaleerdOfIngehaald
  BY DEF Inv, SignaalKlopt, GesignaleerdOfIngehaald
<1> QED BY Altijd, <1>1, PTL

\* A step changes the contract by a save, or by the gunning.
LEMMA WieBewaart ==
  ASSUME [Next]_vars
  PROVE  \/ contract' = contract
         \/ \E r \in Wijzigingen \cup Verklaringen \cup Afrondingen : Bewaar(r)
         \/ \E g \in Gunningen : BewaarContract(g)
<1>1. CASE \E x \in verkeer : Stap(x)
  <2>1. PICK x \in verkeer : Stap(x)
    BY <1>1
  <2>2. ASSUME Verzoek(x)
        PROVE  \/ contract' = contract
               \/ x \in Wijzigingen \cup Verklaringen \cup Afrondingen /\ Bewaar(x)
               \/ x \in Gunningen /\ BewaarContract(x)
    <3>1. GunContract(x) => x \in Gunningen /\ (contract' = contract \/ BewaarContract(x))
      BY DEF GunContract, ControleerKunstwerk, Publiceer
    <3>2. WijzigContract(x) => contract' = contract \/ Bewaar(x)
      BY DEF WijzigContract, LeesRij, LeesWijzigingen, LeesPrestaties, Publiceer, WijsAf
    <3> QED BY <2>2, <3>1, <3>2 DEF Verzoek, KeurWijzigingGoed, StelPrestatieverklaringOp, RondOnderhoudscontractAf, BepaalScore
  <2> QED BY <2>1, <2>2 DEF Stap, verzoekVars
<1>2. CASE BreekVerzoek \/ Herstart
  BY <1>2 DEF BreekVerzoek, Breek, Herstart
<1>3. CASE WeigerBericht \/ UNCHANGED vars
  BY <1>3 DEF WeigerBericht, vars, verzoekVars
<1> QED BY <1>1, <1>2, <1>3 DEF Next

\* Without overlap nothing reopens, empties or replaces a contract: who saves has a copy
\* that agrees with the tables, and asked whether it is Actief.
THEOREM ContractGaatVooruit == Spec => ContractLooptNietTerug
<1> DEFINE vooruit ==
             ~samenloop' /\ contract.status # "Ontbreekt" =>
               /\ contract.status = "Afgerond" => contract' = contract
               /\ contract'.status # "Ontbreekt"
               /\ contract.wijzigingen \subseteq contract'.wijzigingen
               /\ contract.prestaties \subseteq contract'.prestaties
<1>1. ASSUME Inv, [Next]_vars PROVE vooruit
  <2>1. CASE contract' = contract
    BY <2>1
  <2>2. ASSUME NEW r \in Wijzigingen \cup Verklaringen \cup Afrondingen, Bewaar(r), ~samenloop' PROVE vooruit
    <3>1. r \in Verzoeken
      BY DEF Verzoeken
    <3>2. /\ ~samenloop /\ pc[r] = "gescoord" /\ kopie[r].status = "Actief"
          /\ kopie[r].status = contract.status
          /\ kopie[r].wijzigingen = contract.wijzigingen /\ kopie[r].prestaties = contract.prestaties
      BY <1>1, <2>2, <3>1 DEF Bewaar, Toelaatbaar, Inv, VerzoekInv, LezingKlopt, Lezend
    <3>3. kopie[r] \in Contracten
      BY <1>1, <3>1 DEF Inv, VerzoekInv, VerzoekTypeOK
    <3>4. /\ Gewijzigd(r).status \in {"Actief", "Afgerond"}
          /\ kopie[r].wijzigingen \subseteq Gewijzigd(r).wijzigingen
          /\ kopie[r].prestaties \subseteq Gewijzigd(r).prestaties
      BY <3>2, <3>3 DEF Gewijzigd, Contracten
    <3> QED BY <2>2, <3>2, <3>4 DEF Bewaar
  <2>3. ASSUME NEW g \in Gunningen, BewaarContract(g) PROVE vooruit
    BY <1>1, <2>3 DEF Verzoeken, BewaarContract, Inv, VerzoekInv, GunningKlopt
  <2> QED BY <1>1, <2>1, <2>2, <2>3, WieBewaart
<1>2. Inv /\ [Next]_vars => [vooruit]_vars
  BY <1>1
<1> QED BY Altijd, <1>2, PTL DEF Spec, ContractLooptNietTerug
=============================================================================
