--------------------------- MODULE Onderhoud_proofs ---------------------------
(***************************************************************************)
(* Proofs about Onderhoud, for any number of requests, messages and        *)
(* faults.                                                                 *)
(*                                                                         *)
(* RijInv says what the copy in the memory of a request and what its save  *)
(* read back have to do with the rows: it carries DossierKlopt through     *)
(* every overlap of requests.  AfrondingInv follows an afronding from the  *)
(* save of the traject to that of the storing.  LeveringInv, of            *)
(* Consument_proofs, carries the read models, and PlanInv the trajecten    *)
(* that are planned for an incident.                                       *)
(***************************************************************************)
EXTENDS Onderhoud, Consument_proofs, FiniteSetTheorems

\* Between its reading of the traject and its save.
Fase == Gelezen \cup {"gepland"}

InFase == {r \in Trajectverzoeken : pc[r] \in Fase}

\* The row is there, and children may hang from it.
InGang == {"Gestart", "Afgerond"}

Goed == Goedgekeurd \cup {Eerder}

\* Who makes the traject is alone in it, and has it to itself until then.
MakerInv ==
  /\ \A m, n \in verkeer \cap (Meldingen \cup Diagnoses) : m = n
  /\ \A r \in Verzoeken : pc[r] # "nieuw" => r \in verkeer
  /\ \A m \in verkeer \cap (Meldingen \cup Diagnoses) :
       pc[m] \in {"nieuw", "gepland"} => traject.status = "Ontbreekt"
  /\ \A m \in Meldingen : pc[m] = "bewaard" => traject.status # "Ontbreekt"
  /\ traject.status = "Ontbreekt" => InFase = {} /\ aanvaard \cap Trajectverzoeken = {}

\* Which requests were accepted.
AanvaardInv ==
  /\ \A r \in Trajectverzoeken :
       /\ pc[r] \in Fase \cup {"nieuw"} => r \notin aanvaard
       /\ pc[r] \in {"bewaard", "storing", "afgewikkeld"} => r \in aanvaard
  /\ \A m \in Meldingen : pc[m] = "afgewikkeld" => m \in aanvaard

\* The rows: every child was accepted, and a traject that is Afgerond was found goed.
DossierInv ==
  /\ storing = "InBehandeling" => traject.status # "Ontbreekt"
  /\ traject.status = "Afgerond" => traject.inspecties \cap Goed # {}
  /\ traject.inspecties # {} => traject.status \in InGang
  /\ \A f \in Facturen \cup {Eerder} : traject.facturen[f] # "geen" => traject.status \in InGang
  /\ aanvaard \cap Inspecties \subseteq traject.inspecties
  /\ traject.inspecties \subseteq aanvaard \cup {Eerder}
  /\ \A f \in Facturen : traject.facturen[f] # "geen" <=> f \in aanvaard

\* The copy of r: its children are in the rows, or r adds them.
KopieInv ==
  \A r \in InFase :
    /\ kopie[r].inspecties \subseteq traject.inspecties \cup {r}
    /\ r \in kopie[r].inspecties => r \in Inspecties /\ pc[r] = "vergeleken"
    /\ \A f \in Facturen \cup {Eerder} :
         kopie[r].facturen[f] # "geen" => traject.facturen[f] # "geen" \/ (f = r /\ pc[r] = "vergeleken")
    /\ kopie[r].status = "Afgerond" => kopie[r].inspecties \cap Goed # {}
    /\ kopie[r].status # "Ontbreekt"

\* What the save of r read back is older than the rows, and r has changed its copy.
GelezenInv ==
  \A r \in Trajectverzoeken : pc[r] = "vergeleken" =>
    /\ kopie[r].status \in InGang
    /\ r \in Inspecties => r \in kopie[r].inspecties
    /\ r \in Facturen => kopie[r].facturen[r] # "geen"
    /\ gelezen[r].inspecties \subseteq traject.inspecties
    /\ \A f \in Facturen \cup {Eerder} : gelezen[r].facturen[f] # "geen" => traject.facturen[f] # "geen"
    /\ gelezen[r].status \in InGang => traject.status \in InGang

RijInv == MakerInv /\ AanvaardInv /\ DossierInv /\ KopieInv /\ GelezenInv

-----------------------------------------------------------------------------

\* The copy says that the traject is Afgerond, and it was not its own request that did it.
KentAfgerond(r) ==
  r \in InFase /\ kopie[r].status = "Afgerond" /\ ~(r \in Afrondingen /\ pc[r] = "vergeleken")

\* An afronding that saved its traject and has not been told to leave the storing.
Onderweg(r) == r \in aanvaard \cap Afrondingen /\ pc[r] \in {"bewaard", "storing", "mislukt"}

\* A storing that is open beside what somebody has seen Afgerond has its afronding, and
\* the afronding that is past its storing left none open.
AfrondingInv ==
  aanvaard \cap Meldingen = {} =>
    /\ storing = "InBehandeling" /\ (traject.status = "Afgerond" \/ \E r \in Trajectverzoeken : KentAfgerond(r))
         => \E r \in Afrondingen : Onderweg(r)
    /\ \A r \in Afrondingen : pc[r] \in {"afgewikkeld", "klaar"} => storing # "InBehandeling"

\* Without overlap the request that is at work knows what the rows say.
AlleenInv ==
  ~samenloop =>
    /\ \A q, r \in InFase : q = r
    /\ \A r \in InFase :
         /\ pc[r] \in {"gepland", "gelezen"} => kopie[r].status = traject.status
         /\ pc[r] = "vergeleken" =>
              /\ gelezen[r].status = traject.status
              /\ r \in Afrondingen => kopie[r].status = "Afgerond"
              /\ kopie[r].status = "Gestart" => traject.status # "Afgerond"
    /\ \A r \in Afrondingen : pc[r] \in {"bewaard", "storing"} => traject.status = "Afgerond"
    /\ storing = "Afgehandeld" => traject.status = "Afgerond"

UitgegevenInv == \A r \in uitgegeven \cap Afrondingen : pc[r] = "klaar"

-----------------------------------------------------------------------------

\* The copies of message b that may still plan a traject.
Kansen(b) ==
  {d \in Leveringen : Bericht(d) = b /\ levering[d] \in {"onderweg", "gecontroleerd"}}

\* How often an incident was planned: at most once by every handler that has run, or was
\* run again after a fault; once at least when it was handled, and without overlap or
\* fault once.
PlanInv ==
  \A b \in Berichten :
    /\ diagnoses[b] + Cardinality(Kansen(b)) <= 2 * (fouten + 1)
    /\ b \in toegepast \cap Zwaar => diagnoses[b] >= 1
    /\ fouten = 0 /\ b \in toegepast \ verwerkt =>
         \E d \in Leveringen : Bericht(d) = b /\ levering[d] = "toegepast"
    /\ fouten = 0 /\ ~overlap => diagnoses[b] <= (IF b \in toegepast THEN 1 ELSE 0)

-----------------------------------------------------------------------------
(* The requests and their types *)

VerzoekTypeOK ==
  /\ verkeer \subseteq Verzoeken \cup Leveringen
  /\ traject \in Trajecten
  /\ storing \in {"Ontbreekt", "Gemeld", "InBehandeling", "Afgehandeld"}
  /\ schemas \subseteq Schemas
  /\ pc \in [Verzoeken -> {"nieuw"} \cup Bezig \cup Eind]
  /\ kopie \in [Trajectverzoeken -> Trajecten]
  /\ gelezen \in [Trajectverzoeken -> Trajecten]
  /\ aanvaard \subseteq Verzoeken
  /\ uitgegeven \subseteq aanvaard
  /\ samenloop \in BOOLEAN

\* A request on the traject is of one kind.
LEMMA EenSoort ==
  ASSUME NEW r
  PROVE  /\ r \in Starts => r \notin Inspecties /\ r \notin Afrondingen /\ r \notin Facturen /\ r \notin Keuringen
         /\ r \in Inspecties => r \notin Starts /\ r \notin Afrondingen /\ r \notin Facturen /\ r \notin Keuringen
         /\ r \in Afrondingen => r \notin Starts /\ r \notin Inspecties /\ r \notin Facturen /\ r \notin Keuringen
         /\ r \in Facturen => r \notin Starts /\ r \notin Inspecties /\ r \notin Afrondingen /\ r \notin Keuringen
         /\ r \in Keuringen => r \notin Starts /\ r \notin Inspecties /\ r \notin Afrondingen /\ r \notin Facturen
         /\ r \in Trajectverzoeken => r \notin Meldingen /\ r \notin Diagnoses /\ r \notin Schemas /\ r # Eerder
         /\ r \in Meldingen => r \notin Diagnoses /\ r \notin Schemas
         /\ r \in Diagnoses => r \notin Schemas
BY OnderhoudAssumption DEF Trajectverzoeken, Verzoeken

\* Where a request goes when it moves.
LEMMA Verplaats ==
  ASSUME VerzoekTypeOK, NEW r \in Verzoeken, NEW plaats \in {"nieuw"} \cup Bezig \cup Eind, NaarStap(r, plaats)
  PROVE  /\ pc' \in [Verzoeken -> {"nieuw"} \cup Bezig \cup Eind]
         /\ pc'[r] = plaats /\ \A q \in Verzoeken \ {r} : pc'[q] = pc[q]
BY DEF VerzoekTypeOK, NaarStap

LEMMA GeplandType ==
  Gepland \in Trajecten /\ Gepland.status = "Gepland" /\ Gepland.inspecties = {}
    /\ \A f \in Facturen \cup {Eerder} : Gepland.facturen[f] = "geen"
BY DEF Gepland, Trajecten

LEMMA BeginstandenType ==
  ASSUME NEW t \in Beginstanden
  PROVE  /\ t \in Trajecten
         /\ t.status = "Afgerond" => t.inspecties \cap Goed # {}
         /\ t.inspecties # {} => t.status \in InGang
         /\ \A f \in Facturen \cup {Eerder} : t.facturen[f] # "geen" => t.status \in InGang
         /\ t.inspecties \subseteq {Eerder}
         /\ \A f \in Facturen : t.facturen[f] = "geen"
<1> DEFINE ontbreekt == [Gepland EXCEPT !.status = "Ontbreekt"]
           gestart == [Gepland EXCEPT !.status = "Gestart", !.start = Eerder, !.contract = TRUE]
           gekeurd == [gestart EXCEPT !.inspecties = {Eerder}]
           afgerond == [gekeurd EXCEPT !.status = "Afgerond", !.resultaat = Eerder, !.facturen[Eerder] = "Ontvangen"]
<1>1. t \in {ontbreekt, Gepland, gestart, gekeurd, afgerond}
  BY DEF Beginstanden
<1>2. /\ ontbreekt \in Trajecten /\ ontbreekt.status = "Ontbreekt" /\ ontbreekt.inspecties = {}
      /\ \A f \in Facturen \cup {Eerder} : ontbreekt.facturen[f] = "geen"
  BY GeplandType DEF Trajecten
<1>3. /\ gestart \in Trajecten /\ gestart.status = "Gestart" /\ gestart.inspecties = {}
      /\ \A f \in Facturen \cup {Eerder} : gestart.facturen[f] = "geen"
  BY GeplandType DEF Trajecten
<1> HIDE DEF gestart
<1>4. /\ gekeurd \in Trajecten /\ gekeurd.status = "Gestart" /\ gekeurd.inspecties = {Eerder}
      /\ \A f \in Facturen \cup {Eerder} : gekeurd.facturen[f] = "geen"
  BY <1>3 DEF Trajecten
<1> HIDE DEF gekeurd
<1>5. /\ afgerond \in Trajecten /\ afgerond.status = "Afgerond" /\ afgerond.inspecties = {Eerder}
      /\ \A f \in Facturen : afgerond.facturen[f] = "geen"
  <2>1. Eerder \notin Facturen
    BY OnderhoudAssumption DEF Verzoeken, Trajectverzoeken
  <2>2. gekeurd.facturen \in [Facturen \cup {Eerder} -> {"geen", "Ontvangen", "Goedgekeurd"}]
    BY <1>4 DEF Trajecten
  <2> QED BY <1>4, <2>1, <2>2 DEF Trajecten
<1> HIDE DEF ontbreekt, afgerond
<1> QED BY <1>1, <1>2, <1>3, <1>4, <1>5, GeplandType DEF InGang, Goed

\* What a method of the aggregate leaves in the copy of r.
LEMMA GewijzigdKlopt ==
  ASSUME NEW r \in Trajectverzoeken, kopie[r] \in Trajecten, kopie[r].status # "Ontbreekt",
         Toelaatbaar(r), NEW k \in Gewijzigd(r)
  PROVE  /\ k \in Trajecten
         /\ k.inspecties = kopie[r].inspecties \cup (IF r \in Inspecties THEN {r} ELSE {})
         /\ \A f \in Facturen \cup {Eerder} :
              k.facturen[f] # "geen" => kopie[r].facturen[f] # "geen" \/ f = r
         /\ r \in Facturen => k.facturen[r] # "geen"
         /\ r \in Starts => kopie[r].status = "Gepland" /\ k.status = "Gestart"
         /\ r \in Afrondingen => k.status = "Afgerond" /\ kopie[r].inspecties \cap Goed # {}
         /\ r \notin Starts \cup Afrondingen => k.status = kopie[r].status
         /\ k.status \in InGang
<1> DEFINE t == kopie[r]
           stand == {"geen", "Ontvangen", "Goedgekeurd"}
           rij(s, st, res, insp, fac) ==
             [status |-> s, start |-> st, contract |-> t.contract, resultaat |-> res,
              inspecties |-> insp, facturen |-> fac]
<1>1. /\ t.status \in {"Ontbreekt", "Gepland", "Gestart", "Afgerond"}
      /\ t.start \in Starts \cup {Eerder, Geen} /\ t.contract \in BOOLEAN
      /\ t.resultaat \in Afrondingen \cup {Eerder, Geen}
      /\ t.inspecties \subseteq Inspecties \cup {Eerder}
      /\ t.facturen \in [Facturen \cup {Eerder} -> stand]
      /\ t = rij(t.status, t.start, t.resultaat, t.inspecties, t.facturen)
  BY DEF Trajecten
<1>2. \A s \in {"Gestart", "Afgerond"}, st \in Starts \cup {Eerder, Geen}, res \in Afrondingen \cup {Eerder, Geen},
        insp \in SUBSET (Inspecties \cup {Eerder}), fac \in [Facturen \cup {Eerder} -> stand] :
          rij(s, st, res, insp, fac) \in Trajecten
  BY <1>1 DEF Trajecten
<1>3. CASE r \in Starts
  <2>1. r \notin Inspecties /\ r \notin Afrondingen /\ r \notin Facturen /\ r \notin Keuringen /\ r # Eerder
    BY <1>3, EenSoort
  <2>2. t.status = "Gepland" /\ k = [t EXCEPT !.status = "Gestart", !.start = r]
    BY <1>3, <2>1 DEF Toelaatbaar, Gewijzigd
  <2>3. k = rij("Gestart", r, t.resultaat, t.inspecties, t.facturen)
    BY <1>1, <2>2
  <2> HIDE DEF t
  <2>4. k \in Trajecten
    BY <1>1, <1>2, <1>3, <2>3
  <2> QED BY <1>3, <2>1, <2>2, <2>3, <2>4 DEF InGang, t
<1>4. CASE r \in Inspecties
  <2>1. r \notin Starts /\ r \notin Afrondingen /\ r \notin Facturen /\ r \notin Keuringen /\ r # Eerder
    BY <1>4, EenSoort
  <2>2. t.status = "Gestart" /\ k = [t EXCEPT !.inspecties = @ \cup {r}]
    BY <1>4, <2>1 DEF Toelaatbaar, Gewijzigd
  <2>3. k = rij("Gestart", t.start, t.resultaat, t.inspecties \cup {r}, t.facturen)
    BY <1>1, <2>2
  <2> HIDE DEF t
  <2>4. k \in Trajecten
    BY <1>1, <1>2, <1>4, <2>3
  <2> QED BY <1>4, <2>1, <2>2, <2>3, <2>4 DEF InGang, t
<1>5. CASE r \in Afrondingen
  <2>1. r \notin Starts /\ r \notin Inspecties /\ r \notin Facturen /\ r \notin Keuringen /\ r # Eerder
    BY <1>5, EenSoort
  <2>2. /\ t.status = "Gestart" /\ t.inspecties \cap Goed # {}
        /\ k = [t EXCEPT !.status = "Afgerond", !.resultaat = r]
    BY <1>5, <2>1 DEF Toelaatbaar, Gewijzigd, Goed
  <2>3. k = rij("Afgerond", t.start, r, t.inspecties, t.facturen)
    BY <1>1, <2>2
  <2> HIDE DEF t
  <2>4. k \in Trajecten
    BY <1>1, <1>2, <1>5, <2>3
  <2> QED BY <1>5, <2>1, <2>2, <2>3, <2>4 DEF InGang, t
<1>6. CASE r \in Facturen
  <2>1. r \notin Starts /\ r \notin Inspecties /\ r \notin Afrondingen /\ r \notin Keuringen /\ r # Eerder
    BY <1>6, EenSoort
  <2>2. t.status # "Gepland" /\ k = [t EXCEPT !.facturen[r] = "Ontvangen"]
    BY <1>6, <2>1 DEF Toelaatbaar, Gewijzigd
  <2> DEFINE fac == [t.facturen EXCEPT ![r] = "Ontvangen"]
  <2>3. k = rij(t.status, t.start, t.resultaat, t.inspecties, fac)
    BY <1>1, <2>2
  <2>4. /\ fac \in [Facturen \cup {Eerder} -> stand] /\ fac[r] = "Ontvangen"
        /\ \A f \in Facturen \cup {Eerder} : f # r => fac[f] = t.facturen[f]
    BY <1>1, <1>6
  <2>5. t.status \in {"Gestart", "Afgerond"}
    BY <1>1, <2>2
  <2> HIDE DEF t, fac
  <2>6. k \in Trajecten
    BY <1>1, <1>2, <2>3, <2>4, <2>5
  <2> QED BY <1>6, <2>1, <2>3, <2>4, <2>5, <2>6 DEF InGang, t
<1>7. CASE r \in Keuringen
  <2>1. r \notin Starts /\ r \notin Inspecties /\ r \notin Afrondingen /\ r \notin Facturen /\ r # Eerder
    BY <1>7, EenSoort
  <2>2. PICK g \in Facturen \cup {Eerder} :
          t.status = "Afgerond" /\ t.facturen[g] # "geen" /\ k = [t EXCEPT !.facturen[g] = "Goedgekeurd"]
    BY <1>7, <2>1 DEF Toelaatbaar, Gewijzigd
  <2> DEFINE fac == [t.facturen EXCEPT ![g] = "Goedgekeurd"]
  <2>3. k = rij("Afgerond", t.start, t.resultaat, t.inspecties, fac)
    BY <1>1, <2>2
  <2>4. /\ fac \in [Facturen \cup {Eerder} -> stand]
        /\ \A f \in Facturen \cup {Eerder} : f # g => fac[f] = t.facturen[f]
    BY <1>1
  <2> HIDE DEF t, fac
  <2>5. k \in Trajecten
    BY <1>1, <1>2, <2>3, <2>4
  <2> QED BY <1>7, <2>1, <2>2, <2>3, <2>4, <2>5 DEF InGang, t
<1> QED BY <1>3, <1>4, <1>5, <1>6, <1>7 DEF Trajectverzoeken

\* What a save that finds no child missing makes of the rows.
LEMMA SamengevoegdKlopt ==
  ASSUME NEW r \in Trajectverzoeken, traject \in Trajecten, kopie[r] \in Trajecten, gelezen[r] \in Trajecten,
         ~KindOntbreekt(r)
  PROVE  LET t == Samengevoegd(r)
         IN  /\ t \in Trajecten
             /\ t.status = IF kopie[r].status # gelezen[r].status THEN kopie[r].status ELSE traject.status
             /\ t.inspecties = traject.inspecties \cup (kopie[r].inspecties \ gelezen[r].inspecties)
             /\ gelezen[r].inspecties \subseteq kopie[r].inspecties
             /\ \A f \in Facturen \cup {Eerder} :
                  /\ traject.facturen[f] # "geen" => t.facturen[f] # "geen"
                  /\ t.facturen[f] # "geen" => traject.facturen[f] # "geen" \/ kopie[r].facturen[f] # "geen"
                  /\ kopie[r].facturen[f] # "geen" /\ gelezen[r].facturen[f] = "geen" => t.facturen[f] # "geen"
<1> DEFINE k == kopie[r]
           g == gelezen[r]
           status == IF k.status # g.status THEN k.status ELSE traject.status
           start == IF k.start # g.start THEN k.start ELSE traject.start
           cont == IF k.contract # g.contract THEN k.contract ELSE traject.contract
           res == IF k.resultaat # g.resultaat THEN k.resultaat ELSE traject.resultaat
           insp == traject.inspecties \cup (k.inspecties \ g.inspecties)
           fac == [f \in DOMAIN k.facturen |-> IF k.facturen[f] # g.facturen[f] THEN k.facturen[f] ELSE traject.facturen[f]]
           stand == {"geen", "Ontvangen", "Goedgekeurd"}
<1>1. Samengevoegd(r) = [status |-> status, start |-> start, contract |-> cont, resultaat |-> res,
                         inspecties |-> insp, facturen |-> fac]
  BY DEF Samengevoegd
<1>2. \A t \in {traject, k, g} :
        /\ t.status \in {"Ontbreekt", "Gepland", "Gestart", "Afgerond"}
        /\ t.start \in Starts \cup {Eerder, Geen} /\ t.contract \in BOOLEAN
        /\ t.resultaat \in Afrondingen \cup {Eerder, Geen}
        /\ t.inspecties \subseteq Inspecties \cup {Eerder}
        /\ t.facturen \in [Facturen \cup {Eerder} -> stand]
  BY DEF Trajecten
<1>3. /\ g.inspecties \subseteq k.inspecties
      /\ \A f \in Facturen \cup {Eerder} : g.facturen[f] # "geen" => k.facturen[f] # "geen"
  BY DEF KindOntbreekt
<1>4. DOMAIN k.facturen = Facturen \cup {Eerder}
  BY <1>2
<1> HIDE DEF k, g
<1>5. /\ status \in {"Ontbreekt", "Gepland", "Gestart", "Afgerond"}
      /\ start \in Starts \cup {Eerder, Geen}
      /\ res \in Afrondingen \cup {Eerder, Geen}
      /\ insp \subseteq Inspecties \cup {Eerder}
  BY <1>2
<1>6. cont \in BOOLEAN
  BY <1>2
<1>7. /\ fac \in [Facturen \cup {Eerder} -> stand]
      /\ \A f \in Facturen \cup {Eerder} :
           fac[f] = IF k.facturen[f] # g.facturen[f] THEN k.facturen[f] ELSE traject.facturen[f]
  BY <1>2, <1>4
<1> HIDE DEF status, start, cont, res, insp, fac
<1>8. Samengevoegd(r) \in Trajecten
  BY <1>1, <1>5, <1>6, <1>7 DEF Trajecten
<1>9. /\ Samengevoegd(r).status = status /\ Samengevoegd(r).inspecties = insp
      /\ Samengevoegd(r).facturen = fac
  BY <1>1
<1> QED BY <1>3, <1>7, <1>8, <1>9 DEF status, insp, k, g

-----------------------------------------------------------------------------
(* Steps that leave the rows of the traject alone.  Those that read it or  *)
(* write it have lemmas of their own.                                      *)

\* A request in its Fase stays as it is or leaves it.
Rustig ==
  /\ traject' = traject /\ verkeer' = verkeer /\ samenloop' = samenloop
  /\ \A r \in Trajectverzoeken : pc'[r] \in Fase =>
       pc'[r] = pc[r] /\ kopie'[r] = kopie[r] /\ gelezen'[r] = gelezen[r]
  /\ \A r \in Trajectverzoeken : pc'[r] = "nieuw" => pc[r] = "nieuw"

LEMMA RijRustig ==
  ASSUME RijInv, VerzoekTypeOK, Rustig, aanvaard' \cap Trajectverzoeken = aanvaard \cap Trajectverzoeken,
         storing' = "InBehandeling" => traject.status # "Ontbreekt",
         \A r \in Verzoeken : pc'[r] # "nieuw" => pc[r] # "nieuw" \/ r \in verkeer,
         \A r \in Trajectverzoeken :
           pc'[r] \in {"bewaard", "storing", "afgewikkeld"} => pc[r] \in {"bewaard", "storing", "afgewikkeld"},
         \A m \in Meldingen \cup Diagnoses :
           /\ pc'[m] \in {"nieuw", "gepland"} => pc[m] \in {"nieuw", "gepland"}
           /\ pc'[m] = "bewaard" => pc[m] = "bewaard",
         \A m \in Meldingen : pc'[m] = "afgewikkeld" => m \in aanvaard'
  PROVE  RijInv'
<1>1. InFase' \subseteq InFase /\ \A r \in InFase' : pc'[r] = pc[r] /\ kopie'[r] = kopie[r] /\ gelezen'[r] = gelezen[r]
  BY DEF InFase, Rustig
<1>2. Inspecties \subseteq Trajectverzoeken /\ Facturen \subseteq Trajectverzoeken
  BY DEF Trajectverzoeken
<1>3. \A r \in Trajectverzoeken : r \in aanvaard' <=> r \in aanvaard
  OBVIOUS
<1>4. traject' = traject /\ verkeer' = verkeer
  BY DEF Rustig
<1>5. MakerInv'
  <2>1. \A m \in verkeer \cap (Meldingen \cup Diagnoses) :
          pc'[m] \in {"nieuw", "gepland"} => traject.status = "Ontbreekt"
    BY DEF RijInv, MakerInv
  <2>2. \A m \in Meldingen : pc'[m] = "bewaard" => traject.status # "Ontbreekt"
    BY DEF RijInv, MakerInv
  <2>3. traject.status = "Ontbreekt" => InFase' = {} /\ aanvaard' \cap Trajectverzoeken = {}
    BY <1>1 DEF RijInv, MakerInv
  <2>4. \A r \in Verzoeken : pc'[r] # "nieuw" => r \in verkeer
    BY DEF RijInv, MakerInv
  <2> QED BY <1>4, <2>1, <2>2, <2>3, <2>4 DEF RijInv, MakerInv
<1>6. AanvaardInv'
  BY <1>3 DEF Rustig, RijInv, AanvaardInv
<1>7. DossierInv'
  <2>1. aanvaard' \cap Inspecties = aanvaard \cap Inspecties
    BY <1>2, <1>3
  <2>2. traject.inspecties \subseteq aanvaard' \cup {Eerder}
    <3>1. traject.inspecties \subseteq Inspecties \cup {Eerder}
      BY DEF VerzoekTypeOK, Trajecten
    <3> QED BY <1>2, <1>3, <3>1 DEF RijInv, DossierInv
  <2>3. \A f \in Facturen : f \in aanvaard' <=> f \in aanvaard
    BY <1>2, <1>3
  <2> QED BY <1>4, <2>1, <2>2, <2>3 DEF RijInv, DossierInv
<1>8. KopieInv'
  BY <1>1, <1>4 DEF RijInv, KopieInv
<1>9. GelezenInv'
  <2>1. \A r \in Trajectverzoeken : pc'[r] = "vergeleken" =>
          pc[r] = "vergeleken" /\ kopie'[r] = kopie[r] /\ gelezen'[r] = gelezen[r]
    BY DEF Rustig, Fase, Gelezen
  <2> QED BY <1>4, <2>1 DEF RijInv, GelezenInv
<1> QED BY <1>5, <1>6, <1>7, <1>8, <1>9 DEF RijInv

\* What the afrondingen, the storing and the published events have to do with each other.
AfloopInv == AfrondingInv /\ AlleenInv /\ UitgegevenInv

LEMMA AfloopRustig ==
  ASSUME AfloopInv, VerzoekTypeOK, Rustig, aanvaard \subseteq aanvaard',
         storing' = "InBehandeling" => storing = "InBehandeling" \/ aanvaard' \cap Meldingen # {},
         storing' = "Afgehandeld" => storing = "Afgehandeld" \/ samenloop \/ traject.status = "Afgerond",
         \A r \in Afrondingen :
           /\ Onderweg(r) /\ storing' = "InBehandeling" => Onderweg(r)'
           /\ pc'[r] \in {"afgewikkeld", "klaar"} =>
                pc[r] \in {"afgewikkeld", "klaar"} \/ storing' # "InBehandeling"
           /\ pc'[r] \in {"bewaard", "storing"} => pc[r] \in {"bewaard", "storing"}
           /\ r \in uitgegeven' => pc'[r] = "klaar"
  PROVE  AfloopInv'
<1>1. InFase' \subseteq InFase /\ \A r \in InFase' : pc'[r] = pc[r] /\ kopie'[r] = kopie[r] /\ gelezen'[r] = gelezen[r]
  BY DEF InFase, Rustig
<1>2. \A r \in Trajectverzoeken : KentAfgerond(r)' => KentAfgerond(r)
  BY <1>1 DEF KentAfgerond
<1>3. AfrondingInv'
  <2> SUFFICES ASSUME aanvaard' \cap Meldingen = {} PROVE AfrondingInv'
    BY DEF AfrondingInv
  <2>1. /\ storing = "InBehandeling" /\ (traject.status = "Afgerond" \/ \E r \in Trajectverzoeken : KentAfgerond(r))
             => \E r \in Afrondingen : Onderweg(r)
        /\ \A r \in Afrondingen : pc[r] \in {"afgewikkeld", "klaar"} => storing # "InBehandeling"
    BY DEF AfloopInv, AfrondingInv
  <2>2. ASSUME storing' = "InBehandeling",
               traject'.status = "Afgerond" \/ \E r \in Trajectverzoeken : KentAfgerond(r)'
        PROVE  \E r \in Afrondingen : Onderweg(r)'
    <3>1. traject.status = "Afgerond" \/ \E r \in Trajectverzoeken : KentAfgerond(r)
      BY <1>2, <2>2 DEF Rustig
    <3>2. PICK r \in Afrondingen : Onderweg(r)
      BY <2>1, <2>2, <3>1
    <3> QED BY <2>2, <3>2
  <2>3. \A r \in Afrondingen : pc'[r] \in {"afgewikkeld", "klaar"} => storing' # "InBehandeling"
    BY <2>1
  <2> QED BY <2>2, <2>3 DEF AfrondingInv
<1>4. AlleenInv'
  <2> SUFFICES ASSUME ~samenloop' PROVE AlleenInv'
    BY DEF AlleenInv
  <2>1. ~samenloop /\ traject' = traject
    BY DEF Rustig
  <2>2. /\ \A q, r \in InFase' : q = r
        /\ \A r \in InFase' :
             /\ pc'[r] \in {"gepland", "gelezen"} => kopie'[r].status = traject'.status
             /\ pc'[r] = "vergeleken" =>
                  /\ gelezen'[r].status = traject'.status
                  /\ r \in Afrondingen => kopie'[r].status = "Afgerond"
                  /\ kopie'[r].status = "Gestart" => traject'.status # "Afgerond"
    BY <1>1, <2>1 DEF AfloopInv, AlleenInv
  <2>3. /\ \A r \in Afrondingen : pc'[r] \in {"bewaard", "storing"} => traject'.status = "Afgerond"
        /\ storing' = "Afgehandeld" => traject'.status = "Afgerond"
    BY <2>1 DEF AfloopInv, AlleenInv
  <2> QED BY <2>2, <2>3 DEF AlleenInv
<1>5. UitgegevenInv'
  BY DEF UitgegevenInv
<1> QED BY <1>3, <1>4, <1>5 DEF AfloopInv

-----------------------------------------------------------------------------
(* The traject is made *)

\* Nobody had read it, nothing hung from it.
LEMMA MaakHoudt ==
  ASSUME RijInv, AfloopInv, VerzoekTypeOK, NEW r \in Verzoeken,
         BewaarTraject(r) \/ StelDiagnose(r), verkeer' = verkeer
  PROVE  RijInv' /\ AfloopInv' /\ VerzoekTypeOK'
<1>1. PICK plaats \in {"bewaard", "klaar"} :
        /\ \/ r \in Meldingen /\ pc[r] = "gepland" /\ plaats = "bewaard" /\ aanvaard' = aanvaard
           \/ r \in verkeer \cap Diagnoses /\ pc[r] = "nieuw" /\ plaats = "klaar" /\ aanvaard' = aanvaard \cup {r}
        /\ traject' = Gepland /\ NaarStap(r, plaats)
        /\ storing' = storing /\ schemas' = schemas /\ uitgegeven' = uitgegeven
        /\ kopie' = kopie /\ gelezen' = gelezen /\ samenloop' = samenloop
  <2>1. CASE BewaarTraject(r)
    <3>1. /\ r \in Meldingen /\ pc[r] = "gepland" /\ aanvaard' = aanvaard
          /\ traject' = Gepland /\ NaarStap(r, "bewaard")
          /\ storing' = storing /\ schemas' = schemas /\ uitgegeven' = uitgegeven
          /\ kopie' = kopie /\ gelezen' = gelezen /\ samenloop' = samenloop
      BY <2>1 DEF BewaarTraject, ongelezen
    <3> QED BY <3>1
  <2>2. CASE StelDiagnose(r)
    BY <2>2 DEF StelDiagnose, Aanvaard, ongelezen
  <2> QED BY <2>1, <2>2
<1>2. r \in verkeer /\ r \in Verzoeken /\ r \notin Trajectverzoeken /\ traject.status = "Ontbreekt"
  BY <1>1, EenSoort DEF RijInv, MakerInv
<1>3. InFase = {} /\ aanvaard \cap Trajectverzoeken = {} /\ storing # "InBehandeling"
      /\ traject.inspecties = {} /\ \A f \in Facturen \cup {Eerder} : traject.facturen[f] = "geen"
  BY <1>2 DEF RijInv, MakerInv, DossierInv, InGang
<1>4. pc' \in [Verzoeken -> {"nieuw"} \cup Bezig \cup Eind] /\ pc'[r] = plaats /\ \A q \in Verzoeken \ {r} : pc'[q] = pc[q]
  BY <1>1, Verplaats DEF Bezig, Eind
<1>5. VerzoekTypeOK'
  <2>1. traject' \in Trajecten /\ aanvaard' \subseteq Verzoeken /\ uitgegeven' \subseteq aanvaard'
    BY <1>1, GeplandType DEF VerzoekTypeOK
  <2> QED BY <1>1, <1>4, <2>1 DEF VerzoekTypeOK
<1>6. /\ traject'.status = "Gepland" /\ traject'.inspecties = {}
      /\ \A f \in Facturen \cup {Eerder} : traject'.facturen[f] = "geen"
  BY <1>1, GeplandType
<1>7. /\ InFase' = {} /\ aanvaard' \cap Trajectverzoeken = {}
      /\ \A q \in Trajectverzoeken : pc'[q] = pc[q] /\ pc[q] \notin Fase /\ q \notin aanvaard /\ q \notin aanvaard'
  BY <1>1, <1>2, <1>3, <1>4 DEF InFase, Verzoeken
<1>8. Inspecties \subseteq Trajectverzoeken /\ Facturen \subseteq Trajectverzoeken /\ Afrondingen \subseteq Trajectverzoeken
  BY DEF Trajectverzoeken
<1>9. RijInv'
  <2>1. MakerInv'
    <3>1. \A m \in verkeer \cap (Meldingen \cup Diagnoses) : m = r
      BY <1>1, <1>2 DEF RijInv, MakerInv
    <3>2. \A m \in Meldingen : pc'[m] = "bewaard" => traject'.status # "Ontbreekt"
      BY <1>6
    <3>3. \A q \in Verzoeken : pc'[q] # "nieuw" => q \in verkeer
      BY <1>2, <1>4 DEF RijInv, MakerInv
    <3> QED BY <1>1, <1>4, <1>6, <3>1, <3>2, <3>3 DEF MakerInv
  <2>2. AanvaardInv'
    <3>1. \A m \in Meldingen : pc'[m] = "afgewikkeld" => pc[m] = "afgewikkeld" /\ m \in aanvaard
      BY <1>1, <1>4 DEF RijInv, AanvaardInv, Verzoeken
    <3> QED BY <1>1, <1>7, <3>1 DEF RijInv, AanvaardInv
  <2>3. DossierInv'
    BY <1>1, <1>3, <1>6, <1>7, <1>8 DEF DossierInv
  <2>4. KopieInv' /\ GelezenInv'
    BY <1>7 DEF KopieInv, GelezenInv, InFase, Fase, Gelezen
  <2> QED BY <2>1, <2>2, <2>3, <2>4 DEF RijInv
<1>10. AfloopInv'
  <2>1. AfrondingInv'
    BY <1>1, <1>3, <1>7, <1>8 DEF AfloopInv, AfrondingInv
  <2>2. AlleenInv'
    <3> SUFFICES ASSUME ~samenloop' PROVE AlleenInv'
      BY DEF AlleenInv
    <3>1. /\ \A q \in Afrondingen : pc[q] \in {"bewaard", "storing"} => traject.status = "Afgerond"
          /\ storing = "Afgehandeld" => traject.status = "Afgerond"
      BY <1>1 DEF AfloopInv, AlleenInv
    <3> QED BY <1>1, <1>2, <1>7, <1>8, <3>1 DEF AlleenInv
  <2>3. UitgegevenInv'
    BY <1>1, <1>7, <1>8 DEF AfloopInv, UitgegevenInv
  <2> QED BY <2>1, <2>2, <2>3 DEF AfloopInv
<1> QED BY <1>5, <1>9, <1>10

-----------------------------------------------------------------------------
(* The traject is read *)

\* A step of r within its Fase, or into it, that leaves the rows and the requests of others
\* alone keeps what does not speak of the copy of r.
LEMMA LezerRij ==
  ASSUME RijInv, VerzoekTypeOK, NEW r \in Trajectverzoeken,
         traject' = traject, verkeer' = verkeer, storing' = storing, aanvaard' = aanvaard,
         traject.status # "Ontbreekt", r \in verkeer, pc[r] \in Fase \cup {"nieuw"}, pc'[r] \in Fase,
         \A q \in Verzoeken \ {r} : pc'[q] = pc[q],
         \A q \in Trajectverzoeken \ {r} : kopie'[q] = kopie[q] /\ gelezen'[q] = gelezen[q]
  PROVE  /\ MakerInv' /\ AanvaardInv' /\ DossierInv' /\ InFase' = InFase \cup {r}
         /\ \A q \in InFase \ {r} : pc'[q] = pc[q] /\ kopie'[q] = kopie[q] /\ gelezen'[q] = gelezen[q]
<1>1. r \notin Meldingen /\ r \notin Diagnoses /\ r \in Verzoeken /\ Trajectverzoeken \subseteq Verzoeken
      /\ Meldingen \subseteq Verzoeken /\ Diagnoses \subseteq Verzoeken
  BY EenSoort DEF Verzoeken
<1>2. MakerInv'
  BY <1>1 DEF RijInv, MakerInv
<1>3. AanvaardInv'
  BY <1>1 DEF RijInv, AanvaardInv, Fase, Gelezen
<1>4. DossierInv'
  BY DEF RijInv, DossierInv
<1>5. InFase' = InFase \cup {r}
  BY <1>1 DEF InFase
<1>6. \A q \in InFase \ {r} : pc'[q] = pc[q] /\ kopie'[q] = kopie[q] /\ gelezen'[q] = gelezen[q]
  BY <1>1 DEF InFase
<1> QED BY <1>2, <1>3, <1>4, <1>5, <1>6

\* zoek copies the rows, unless there are none.
LEMMA ZoekHoudt ==
  ASSUME RijInv, AfloopInv, VerzoekTypeOK, NEW r \in Trajectverzoeken, Zoek(r), traject.status # "Ontbreekt",
         verkeer' = verkeer
  PROVE  RijInv' /\ AfloopInv' /\ VerzoekTypeOK'
<1>1. PICK plaats \in {"gepland", "gelezen"} :
        /\ r \in verkeer /\ pc[r] = "nieuw" /\ NaarStap(r, plaats)
        /\ kopie' = [kopie EXCEPT ![r] = traject]
        /\ samenloop' = (samenloop \/ \E q \in Trajectverzoeken : pc[q] \in Gelezen \cup {"gepland"})
        /\ traject' = traject /\ storing' = storing /\ schemas' = schemas /\ gelezen' = gelezen
        /\ aanvaard' = aanvaard /\ uitgegeven' = uitgegeven
  BY DEF Zoek
<1>2. r \in Verzoeken /\ Trajectverzoeken \subseteq Verzoeken
  BY DEF Verzoeken
<1>3. pc' \in [Verzoeken -> {"nieuw"} \cup Bezig \cup Eind] /\ pc'[r] = plaats /\ \A q \in Verzoeken \ {r} : pc'[q] = pc[q]
  BY <1>1, <1>2, Verplaats DEF Bezig, Gelezen
<1>4. kopie'[r] = traject /\ (\A q \in Trajectverzoeken \ {r} : kopie'[q] = kopie[q])
      /\ kopie' \in [Trajectverzoeken -> Trajecten]
  BY <1>1 DEF VerzoekTypeOK
<1>5. samenloop' \in BOOLEAN /\ (~samenloop' => ~samenloop /\ InFase = {})
  BY <1>1 DEF InFase, Fase
<1>6. VerzoekTypeOK'
  BY <1>1, <1>3, <1>4, <1>5 DEF VerzoekTypeOK
<1>7. /\ MakerInv' /\ AanvaardInv' /\ DossierInv' /\ InFase' = InFase \cup {r}
      /\ \A q \in InFase \ {r} : pc'[q] = pc[q] /\ kopie'[q] = kopie[q] /\ gelezen'[q] = gelezen[q]
  BY <1>1, <1>3, <1>4, LezerRij DEF Fase, Gelezen
<1>8. r \notin traject.inspecties
  <2>1. r \notin aanvaard /\ r # Eerder
    BY <1>1, EenSoort DEF RijInv, AanvaardInv
  <2> QED BY <2>1 DEF RijInv, DossierInv
<1>9. KopieInv'
  BY <1>1, <1>4, <1>7, <1>8 DEF RijInv, KopieInv, DossierInv
<1>10. GelezenInv'
  BY <1>1, <1>2, <1>3, <1>4 DEF RijInv, GelezenInv
<1>11. AfloopInv'
  <2>1. AfrondingInv'
    <3>1. \A q \in Trajectverzoeken : KentAfgerond(q)' => KentAfgerond(q) \/ traject.status = "Afgerond"
      BY <1>2, <1>3, <1>4, <1>7 DEF KentAfgerond
    <3>2. \A q \in Afrondingen : Onderweg(q) => Onderweg(q)'
      BY <1>1, <1>3 DEF Onderweg, Trajectverzoeken, Verzoeken
    <3>3. \A q \in Afrondingen : pc'[q] \in {"afgewikkeld", "klaar"} => pc[q] \in {"afgewikkeld", "klaar"}
      BY <1>3 DEF Trajectverzoeken, Verzoeken
    <3> QED BY <1>1, <3>1, <3>2, <3>3 DEF AfloopInv, AfrondingInv
  <2>2. AlleenInv'
    <3> SUFFICES ASSUME ~samenloop' PROVE AlleenInv'
      BY DEF AlleenInv
    <3>1. InFase' = {r} /\ ~samenloop
      BY <1>5, <1>7
    <3>2. \A q \in Afrondingen : pc'[q] \in {"bewaard", "storing"} => pc[q] \in {"bewaard", "storing"}
      BY <1>3 DEF Trajectverzoeken, Verzoeken
    <3> QED BY <1>1, <1>3, <1>4, <3>1, <3>2 DEF AfloopInv, AlleenInv
  <2>3. UitgegevenInv'
    BY <1>1, <1>3 DEF AfloopInv, UitgegevenInv, Trajectverzoeken, Verzoeken
  <2> QED BY <2>1, <2>2, <2>3 DEF AfloopInv
<1> QED BY <1>6, <1>7, <1>9, <1>10, <1>11 DEF RijInv

\* A start takes over the contract, and nothing else.
LEMMA ControleerHoudt ==
  ASSUME RijInv, AfloopInv, VerzoekTypeOK, NEW r \in Starts, pc[r] = "gepland", NaarStap(r, "gelezen"),
         kopie' \in {kopie, [kopie EXCEPT ![r].contract = TRUE]},
         UNCHANGED <<traject, storing, schemas, gelezen, samenloop, aanvaard, uitgegeven>>, verkeer' = verkeer
  PROVE  RijInv' /\ AfloopInv' /\ VerzoekTypeOK'
<1>1. r \in Verzoeken /\ r \in Trajectverzoeken /\ Trajectverzoeken \subseteq Verzoeken /\ r \notin Afrondingen
  BY EenSoort DEF Verzoeken, Trajectverzoeken
<1>2. pc' \in [Verzoeken -> {"nieuw"} \cup Bezig \cup Eind] /\ pc'[r] = "gelezen" /\ \A q \in Verzoeken \ {r} : pc'[q] = pc[q]
  BY <1>1, Verplaats DEF Bezig, Gelezen
<1>3. /\ kopie' \in [Trajectverzoeken -> Trajecten]
      /\ kopie'[r].status = kopie[r].status /\ kopie'[r].inspecties = kopie[r].inspecties
      /\ kopie'[r].facturen = kopie[r].facturen
      /\ \A q \in Trajectverzoeken \ {r} : kopie'[q] = kopie[q]
  <2>1. kopie \in [Trajectverzoeken -> Trajecten] /\ kopie[r] \in Trajecten
    BY <1>1 DEF VerzoekTypeOK
  <2> DEFINE k == [kopie[r] EXCEPT !.contract = TRUE]
  <2>2. k \in Trajecten
    BY <2>1 DEF Trajecten
  <2>3. k.status = kopie[r].status /\ k.inspecties = kopie[r].inspecties /\ k.facturen = kopie[r].facturen
    BY <2>1 DEF Trajecten
  <2>4. kopie' \in {kopie, [kopie EXCEPT ![r] = k]}
    OBVIOUS
  <2> HIDE DEF k
  <2> QED BY <1>1, <2>1, <2>2, <2>3, <2>4
<1>4. VerzoekTypeOK'
  BY <1>2, <1>3 DEF VerzoekTypeOK
<1>5. r \in InFase /\ traject.status # "Ontbreekt" /\ r \in verkeer
  BY <1>1 DEF RijInv, MakerInv, InFase, Fase
<1>6. /\ MakerInv' /\ AanvaardInv' /\ DossierInv' /\ InFase' = InFase \cup {r}
      /\ \A q \in InFase \ {r} : pc'[q] = pc[q] /\ kopie'[q] = kopie[q] /\ gelezen'[q] = gelezen[q]
  BY <1>1, <1>2, <1>3, <1>5, LezerRij DEF Fase, Gelezen
<1>7. KopieInv'
  BY <1>2, <1>3, <1>5, <1>6 DEF RijInv, KopieInv
<1>8. GelezenInv'
  BY <1>1, <1>2, <1>3 DEF RijInv, GelezenInv
<1>9. AfloopInv'
  <2>1. AfrondingInv'
    <3>1. \A q \in Trajectverzoeken : KentAfgerond(q)' => KentAfgerond(q)
      BY <1>1, <1>2, <1>3, <1>5, <1>6 DEF KentAfgerond
    <3>2. \A q \in Afrondingen : pc'[q] = pc[q]
      BY <1>1, <1>2 DEF Trajectverzoeken, Verzoeken
    <3>3. \A q \in Afrondingen : Onderweg(q) => Onderweg(q)'
      BY <3>2 DEF Onderweg
    <3> QED BY <3>1, <3>2, <3>3 DEF AfloopInv, AfrondingInv
  <2>2. AlleenInv'
    <3>1. \A q \in Afrondingen : pc'[q] = pc[q]
      BY <1>1, <1>2 DEF Trajectverzoeken, Verzoeken
    <3> QED BY <1>2, <1>3, <1>5, <1>6, <3>1 DEF AfloopInv, AlleenInv
  <2>3. UitgegevenInv'
    BY <1>1, <1>2 DEF AfloopInv, UitgegevenInv, Trajectverzoeken, Verzoeken
  <2> QED BY <2>1, <2>2, <2>3 DEF AfloopInv
<1> QED BY <1>4, <1>6, <1>7, <1>8, <1>9 DEF RijInv

\* The method of the aggregate changes the copy, and save reads the rows again.
LEMMA VergelijkHoudt ==
  ASSUME RijInv, AfloopInv, VerzoekTypeOK, NEW r \in Trajectverzoeken, Vergelijk(r), verkeer' = verkeer
  PROVE  RijInv' /\ AfloopInv' /\ VerzoekTypeOK'
<1>1. PICK k \in Gewijzigd(r) :
        /\ pc[r] = "gelezen" /\ Toelaatbaar(r) /\ NaarStap(r, "vergeleken")
        /\ kopie' = [kopie EXCEPT ![r] = k] /\ gelezen' = [gelezen EXCEPT ![r] = traject]
        /\ traject' = traject /\ storing' = storing /\ schemas' = schemas /\ samenloop' = samenloop
        /\ aanvaard' = aanvaard /\ uitgegeven' = uitgegeven
  BY DEF Vergelijk
<1>2. r \in Verzoeken /\ Trajectverzoeken \subseteq Verzoeken /\ Afrondingen \subseteq Trajectverzoeken
  BY DEF Verzoeken, Trajectverzoeken
<1>3. r \in InFase /\ traject.status # "Ontbreekt" /\ r \in verkeer
  BY <1>1, <1>2 DEF RijInv, MakerInv, InFase, Fase, Gelezen
<1>4. /\ kopie[r].inspecties \subseteq traject.inspecties \cup {r}
      /\ r \notin kopie[r].inspecties
      /\ \A f \in Facturen \cup {Eerder} : kopie[r].facturen[f] # "geen" => traject.facturen[f] # "geen"
      /\ kopie[r].status = "Afgerond" => kopie[r].inspecties \cap Goed # {}
      /\ kopie[r].status # "Ontbreekt" /\ kopie[r] \in Trajecten
  BY <1>1, <1>3 DEF RijInv, KopieInv, VerzoekTypeOK
<1>5. /\ k \in Trajecten
      /\ k.inspecties = kopie[r].inspecties \cup (IF r \in Inspecties THEN {r} ELSE {})
      /\ \A f \in Facturen \cup {Eerder} : k.facturen[f] # "geen" => kopie[r].facturen[f] # "geen" \/ f = r
      /\ r \in Facturen => k.facturen[r] # "geen"
      /\ r \in Starts => kopie[r].status = "Gepland" /\ k.status = "Gestart"
      /\ r \in Afrondingen => k.status = "Afgerond" /\ kopie[r].inspecties \cap Goed # {}
      /\ r \notin Starts \cup Afrondingen => k.status = kopie[r].status
      /\ k.status \in InGang
  BY <1>1, <1>4, GewijzigdKlopt
<1>6. pc' \in [Verzoeken -> {"nieuw"} \cup Bezig \cup Eind] /\ pc'[r] = "vergeleken" /\ \A q \in Verzoeken \ {r} : pc'[q] = pc[q]
  BY <1>1, <1>2, Verplaats DEF Bezig, Gelezen
<1>7. /\ kopie' \in [Trajectverzoeken -> Trajecten] /\ gelezen' \in [Trajectverzoeken -> Trajecten]
      /\ kopie'[r] = k /\ gelezen'[r] = traject
      /\ \A q \in Trajectverzoeken \ {r} : kopie'[q] = kopie[q] /\ gelezen'[q] = gelezen[q]
  BY <1>1, <1>5 DEF VerzoekTypeOK
<1>8. VerzoekTypeOK'
  BY <1>1, <1>6, <1>7 DEF VerzoekTypeOK
<1>9. /\ MakerInv' /\ AanvaardInv' /\ DossierInv' /\ InFase' = InFase
      /\ \A q \in InFase \ {r} : pc'[q] = pc[q] /\ kopie'[q] = kopie[q] /\ gelezen'[q] = gelezen[q]
  BY <1>1, <1>3, <1>6, <1>7, LezerRij DEF Fase, Gelezen
<1>10. KopieInv'
  <2> SUFFICES ASSUME NEW q \in InFase'
               PROVE  /\ kopie'[q].inspecties \subseteq traject'.inspecties \cup {q}
                      /\ q \in kopie'[q].inspecties => q \in Inspecties /\ pc'[q] = "vergeleken"
                      /\ \A f \in Facturen \cup {Eerder} :
                           kopie'[q].facturen[f] # "geen" =>
                             traject'.facturen[f] # "geen" \/ (f = q /\ pc'[q] = "vergeleken")
                      /\ kopie'[q].status = "Afgerond" => kopie'[q].inspecties \cap Goed # {}
                      /\ kopie'[q].status # "Ontbreekt"
    BY DEF KopieInv
  <2>1. CASE q # r
    BY <1>1, <1>9, <2>1 DEF RijInv, KopieInv
  <2>2. CASE q = r
    <3>1. k.status = "Afgerond" => k.inspecties \cap Goed # {}
      BY <1>4, <1>5
    <3>2. k.status # "Ontbreekt"
      BY <1>5 DEF InGang
    <3> QED BY <1>1, <1>4, <1>5, <1>6, <1>7, <2>2, <3>1, <3>2
  <2> QED BY <2>1, <2>2
<1>11. GelezenInv'
  <2> SUFFICES ASSUME NEW q \in Trajectverzoeken, pc'[q] = "vergeleken"
               PROVE  /\ kopie'[q].status \in InGang
                      /\ q \in Inspecties => q \in kopie'[q].inspecties
                      /\ q \in Facturen => kopie'[q].facturen[q] # "geen"
                      /\ gelezen'[q].inspecties \subseteq traject'.inspecties
                      /\ \A f \in Facturen \cup {Eerder} :
                           gelezen'[q].facturen[f] # "geen" => traject'.facturen[f] # "geen"
                      /\ gelezen'[q].status \in InGang => traject'.status \in InGang
    BY DEF GelezenInv
  <2>1. CASE q # r
    BY <1>1, <1>2, <1>6, <1>7, <2>1 DEF RijInv, GelezenInv
  <2>2. CASE q = r
    BY <1>1, <1>5, <1>7, <2>2
  <2> QED BY <2>1, <2>2
<1>12. AfloopInv'
  <2>1. \A q \in Afrondingen : pc'[q] = pc[q] \/ pc'[q] = "vergeleken"
    BY <1>2, <1>6
  <2>2. AfrondingInv'
    <3>1. \A q \in Trajectverzoeken : KentAfgerond(q)' => KentAfgerond(q)
      <4> SUFFICES ASSUME NEW q \in Trajectverzoeken, KentAfgerond(q)' PROVE KentAfgerond(q)
        OBVIOUS
      <4>1. CASE q # r
        BY <1>9, <4>1 DEF KentAfgerond
      <4>2. CASE q = r
        <5>1. r \notin Afrondingen /\ k.status = "Afgerond"
          BY <1>6, <1>7, <4>2 DEF KentAfgerond
        <5>2. kopie[r].status = "Afgerond"
          BY <1>5, <5>1
        <5> QED BY <1>3, <4>2, <5>1, <5>2 DEF KentAfgerond
      <4> QED BY <4>1, <4>2
    <3>2. \A q \in Afrondingen : Onderweg(q) => Onderweg(q)'
      BY <1>1, <1>2, <1>6 DEF Onderweg
    <3> QED BY <1>1, <2>1, <3>1, <3>2 DEF AfloopInv, AfrondingInv
  <2>3. AlleenInv'
    <3> SUFFICES ASSUME ~samenloop' PROVE AlleenInv'
      BY DEF AlleenInv
    <3>1. InFase' = {r} /\ kopie[r].status = traject.status
      BY <1>1, <1>3, <1>9 DEF AfloopInv, AlleenInv
    <3>2. k.status = "Gestart" => traject.status # "Afgerond"
      BY <1>5, <3>1
    <3>3. \A q \in Afrondingen : pc'[q] \in {"bewaard", "storing"} => traject'.status = "Afgerond"
      BY <1>1, <2>1 DEF AfloopInv, AlleenInv
    <3>4. storing' = "Afgehandeld" => traject'.status = "Afgerond"
      BY <1>1 DEF AfloopInv, AlleenInv
    <3> QED BY <1>1, <1>5, <1>6, <1>7, <3>1, <3>2, <3>3, <3>4 DEF AlleenInv
  <2>4. UitgegevenInv'
    BY <1>1, <1>2, <1>6 DEF AfloopInv, UitgegevenInv
  <2> QED BY <2>2, <2>3, <2>4 DEF AfloopInv
<1> QED BY <1>8, <1>9, <1>10, <1>11, <1>12 DEF RijInv

-----------------------------------------------------------------------------
(* The traject is saved *)

\* The save that goes through: it keeps every child, adds its own, and moves the status
\* only where the copy differs from what was read back.
LEMMA BewaardHoudt ==
  ASSUME RijInv, AfloopInv, VerzoekTypeOK, NEW r \in Trajectverzoeken, pc[r] = "vergeleken", ~KindOntbreekt(r),
         traject' = Samengevoegd(r), Aanvaard(r), NaarStap(r, NaBewaren(r)),
         kopie' = [kopie EXCEPT ![r] = Gepland], gelezen' = [gelezen EXCEPT ![r] = Gepland],
         UNCHANGED <<storing, schemas, samenloop, uitgegeven>>, verkeer' = verkeer
  PROVE  RijInv' /\ AfloopInv' /\ VerzoekTypeOK'
<1> DEFINE k == kopie[r]
           g == gelezen[r]
<1>1. /\ r \in Verzoeken /\ Trajectverzoeken \subseteq Verzoeken /\ Afrondingen \subseteq Trajectverzoeken
      /\ Inspecties \subseteq Trajectverzoeken /\ Facturen \subseteq Trajectverzoeken
      /\ r \notin Meldingen /\ r \notin Diagnoses /\ r # Eerder
      /\ Meldingen \subseteq Verzoeken /\ Diagnoses \subseteq Verzoeken
  BY EenSoort DEF Verzoeken, Trajectverzoeken
<1>2. NaBewaren(r) \in {"bewaard", "klaar"} /\ (r \in Afrondingen => NaBewaren(r) = "bewaard")
  BY DEF NaBewaren
<1>3. /\ pc' \in [Verzoeken -> {"nieuw"} \cup Bezig \cup Eind] /\ pc'[r] = NaBewaren(r)
      /\ \A q \in Verzoeken \ {r} : pc'[q] = pc[q]
  BY <1>1, <1>2, Verplaats DEF Bezig, Eind
<1>4. /\ kopie' \in [Trajectverzoeken -> Trajecten] /\ gelezen' \in [Trajectverzoeken -> Trajecten]
      /\ \A q \in Trajectverzoeken \ {r} : kopie'[q] = kopie[q] /\ gelezen'[q] = gelezen[q]
  BY GeplandType DEF VerzoekTypeOK
<1>5. /\ aanvaard' = aanvaard \cup {r} /\ r \notin aanvaard /\ r \in InFase /\ traject.status # "Ontbreekt"
      /\ r \in verkeer
  BY <1>1 DEF Aanvaard, RijInv, AanvaardInv, MakerInv, InFase, Fase, Gelezen
<1>6. /\ traject' \in Trajecten
      /\ traject'.status = IF k.status # g.status THEN k.status ELSE traject.status
      /\ traject'.inspecties = traject.inspecties \cup (k.inspecties \ g.inspecties)
      /\ g.inspecties \subseteq k.inspecties
      /\ \A f \in Facturen \cup {Eerder} :
           /\ traject.facturen[f] # "geen" => traject'.facturen[f] # "geen"
           /\ traject'.facturen[f] # "geen" => traject.facturen[f] # "geen" \/ k.facturen[f] # "geen"
           /\ k.facturen[f] # "geen" /\ g.facturen[f] = "geen" => traject'.facturen[f] # "geen"
  <2>1. traject \in Trajecten /\ kopie[r] \in Trajecten /\ gelezen[r] \in Trajecten
    BY DEF VerzoekTypeOK
  <2> QED BY <2>1, SamengevoegdKlopt
<1>7. /\ k.inspecties \subseteq traject.inspecties \cup {r}
      /\ r \in k.inspecties <=> r \in Inspecties
      /\ \A f \in Facturen \cup {Eerder} : k.facturen[f] # "geen" => traject.facturen[f] # "geen" \/ f = r
      /\ k.status = "Afgerond" => k.inspecties \cap Goed # {}
      /\ k.status \in InGang
      /\ r \in Facturen => k.facturen[r] # "geen"
      /\ g.inspecties \subseteq traject.inspecties
      /\ \A f \in Facturen \cup {Eerder} : g.facturen[f] # "geen" => traject.facturen[f] # "geen"
      /\ g.status \in InGang => traject.status \in InGang
  BY <1>5 DEF RijInv, KopieInv, GelezenInv
<1> HIDE DEF k, g
<1>8. r \notin g.inspecties /\ (r \in Facturen => g.facturen[r] = "geen")
  <2>1. r \notin traject.inspecties
    BY <1>1, <1>5 DEF RijInv, DossierInv
  <2>2. r \in Facturen => traject.facturen[r] = "geen"
    BY <1>5 DEF RijInv, DossierInv
  <2> QED BY <1>7, <2>1, <2>2
<1>9. /\ traject'.status \in InGang /\ traject'.status # "Ontbreekt"
      /\ traject.inspecties \subseteq traject'.inspecties
      /\ traject'.inspecties \subseteq traject.inspecties \cup {r}
      /\ k.inspecties \subseteq traject'.inspecties
      /\ r \in Inspecties => r \in traject'.inspecties
      /\ \A f \in Facturen : traject'.facturen[f] # "geen" <=> traject.facturen[f] # "geen" \/ f = r
  BY <1>6, <1>7, <1>8 DEF InGang
<1>10. /\ InFase' = InFase \ {r} /\ \A q \in InFase' : pc'[q] = pc[q] /\ kopie'[q] = kopie[q] /\ gelezen'[q] = gelezen[q]
       /\ \A q \in Trajectverzoeken : pc'[q] = "vergeleken" =>
            pc[q] = "vergeleken" /\ kopie'[q] = kopie[q] /\ gelezen'[q] = gelezen[q]
  BY <1>1, <1>2, <1>3, <1>4 DEF InFase, Fase, Gelezen
<1>11. VerzoekTypeOK'
  BY <1>1, <1>3, <1>4, <1>5, <1>6 DEF VerzoekTypeOK
<1>12. RijInv'
  <2>1. MakerInv'
    <3>1. \A m \in verkeer \cap (Meldingen \cup Diagnoses) : pc'[m] \notin {"nieuw", "gepland"}
      BY <1>1, <1>3, <1>5 DEF RijInv, MakerInv
    <3> QED BY <1>3, <1>5, <1>9, <3>1 DEF RijInv, MakerInv
  <2>2. AanvaardInv'
    BY <1>1, <1>2, <1>3, <1>5 DEF RijInv, AanvaardInv, Fase, Gelezen
  <2>3. DossierInv'
    <3>1. traject'.status = "Afgerond" => traject'.inspecties \cap Goed # {}
      BY <1>6, <1>7, <1>9 DEF RijInv, DossierInv
    <3>2. aanvaard' \cap Inspecties \subseteq traject'.inspecties
      BY <1>5, <1>9 DEF RijInv, DossierInv
    <3>3. traject'.inspecties \subseteq aanvaard' \cup {Eerder}
      BY <1>5, <1>9 DEF RijInv, DossierInv
    <3>4. \A f \in Facturen : traject'.facturen[f] # "geen" <=> f \in aanvaard'
      BY <1>5, <1>9 DEF RijInv, DossierInv
    <3> QED BY <1>9, <3>1, <3>2, <3>3, <3>4 DEF DossierInv
  <2>4. KopieInv'
    <3>1. \A f \in Facturen \cup {Eerder} : traject.facturen[f] # "geen" => traject'.facturen[f] # "geen"
      BY <1>6
    <3> QED BY <1>9, <1>10, <3>1 DEF RijInv, KopieInv
  <2>5. GelezenInv'
    <3>1. \A f \in Facturen \cup {Eerder} : traject.facturen[f] # "geen" => traject'.facturen[f] # "geen"
      BY <1>6
    <3> QED BY <1>9, <1>10, <3>1 DEF RijInv, GelezenInv
  <2> QED BY <2>1, <2>2, <2>3, <2>4, <2>5 DEF RijInv
<1>13. AfloopInv'
  <2>1. /\ pc'[r] \notin {"storing", "afgewikkeld"}
        /\ \A q \in Afrondingen : pc'[q] \in {"afgewikkeld", "klaar"} => pc[q] = pc'[q]
        /\ \A q \in Afrondingen \ {r} : pc'[q] = pc[q]
    BY <1>1, <1>2, <1>3
  <2>2. \A q \in Afrondingen : Onderweg(q) => Onderweg(q)'
    BY <1>5, <2>1 DEF Onderweg
  <2>3. AfrondingInv'
    <3> SUFFICES ASSUME aanvaard' \cap Meldingen = {} PROVE AfrondingInv'
      BY DEF AfrondingInv
    <3>1. aanvaard \cap Meldingen = {}
      BY <1>5
    <3>2. ASSUME storing' = "InBehandeling",
                 traject'.status = "Afgerond" \/ \E q \in Trajectverzoeken : KentAfgerond(q)'
          PROVE  \E q \in Afrondingen : Onderweg(q)'
      <4>1. CASE \E q \in Trajectverzoeken : KentAfgerond(q)'
        <5>1. \E q \in Trajectverzoeken : KentAfgerond(q)
          BY <1>10, <4>1 DEF KentAfgerond
        <5> QED BY <2>2, <3>1, <3>2, <5>1 DEF AfloopInv, AfrondingInv
      <4>2. CASE traject'.status = "Afgerond"
        <5>1. CASE traject.status = "Afgerond"
          BY <2>2, <3>1, <3>2, <5>1 DEF AfloopInv, AfrondingInv
        <5>2. CASE k.status = "Afgerond" /\ r \notin Afrondingen
          <6>1. KentAfgerond(r)
            BY <1>5, <5>2 DEF KentAfgerond, k
          <6> QED BY <2>2, <3>1, <3>2, <6>1 DEF AfloopInv, AfrondingInv
        <5>3. CASE r \in Afrondingen
          <6>1. Onderweg(r)'
            BY <1>2, <1>3, <1>5, <5>3 DEF Onderweg
          <6> QED BY <5>3, <6>1
        <5> QED BY <1>6, <4>2, <5>1, <5>2, <5>3
      <4> QED BY <3>2, <4>1, <4>2
    <3>3. \A q \in Afrondingen : pc'[q] \in {"afgewikkeld", "klaar"} => storing' # "InBehandeling"
      BY <2>1, <3>1 DEF AfloopInv, AfrondingInv
    <3> QED BY <3>2, <3>3 DEF AfrondingInv
  <2>4. AlleenInv'
    <3> SUFFICES ASSUME ~samenloop' PROVE AlleenInv'
      BY DEF AlleenInv
    <3>1. InFase' = {} /\ g.status = traject.status /\ (r \in Afrondingen => k.status = "Afgerond")
          /\ (k.status = "Gestart" => traject.status # "Afgerond")
      BY <1>5, <1>10 DEF AfloopInv, AlleenInv, k, g
    <3>2. /\ r \in Afrondingen => traject'.status = "Afgerond"
          /\ traject.status = "Afgerond" => traject'.status = "Afgerond"
      BY <1>6, <1>7, <3>1 DEF InGang
    <3>3. \A q \in Afrondingen : pc'[q] \in {"bewaard", "storing"} => traject'.status = "Afgerond"
      BY <2>1, <3>2 DEF AfloopInv, AlleenInv
    <3>4. storing' = "Afgehandeld" => traject'.status = "Afgerond"
      BY <3>2 DEF AfloopInv, AlleenInv
    <3> QED BY <3>1, <3>3, <3>4 DEF AlleenInv
  <2>5. UitgegevenInv'
    <3>1. r \notin uitgegeven
      BY <1>5 DEF VerzoekTypeOK
    <3> QED BY <2>1, <3>1 DEF AfloopInv, UitgegevenInv
  <2> QED BY <2>3, <2>4, <2>5 DEF AfloopInv
<1> QED BY <1>11, <1>12, <1>13

-----------------------------------------------------------------------------
(* The other steps of a request *)

LEMMA RustigeStap ==
  ASSUME RijInv, AfloopInv, VerzoekTypeOK, NEW r \in Verzoeken, r \in verkeer \/ pc[r] # "nieuw", pc[r] \notin Eind,
         NEW plaats \in Bezig \cup Eind, NaarStap(r, plaats),
         traject' = traject, verkeer' = verkeer, samenloop' = samenloop,
         kopie' \in {kopie, [kopie EXCEPT ![r] = Gepland]}, gelezen' \in {gelezen, [gelezen EXCEPT ![r] = Gepland]},
         schemas' \subseteq Schemas,
         storing' \in {"Ontbreekt", "Gemeld", "InBehandeling", "Afgehandeld"},
         storing' = "InBehandeling" =>
           storing = "InBehandeling" \/ (r \in Meldingen \cap aanvaard' /\ traject.status # "Ontbreekt"),
         storing' = "Afgehandeld" => storing = "Afgehandeld" \/ (r \in Afrondingen /\ pc[r] = "storing"),
         aanvaard' \in {aanvaard, aanvaard \cup {r}},
         uitgegeven' \in {uitgegeven, uitgegeven \cup {r}},
         uitgegeven' # uitgegeven => r \in aanvaard /\ plaats = "klaar",
         r \in Trajectverzoeken =>
           /\ aanvaard' = aanvaard /\ plaats \notin Fase
           /\ plaats \in {"bewaard", "storing", "afgewikkeld"} => pc[r] \in {"bewaard", "storing"},
         r \in Meldingen \cup Diagnoses =>
           /\ plaats = "gepland" => pc[r] = "nieuw"
           /\ plaats # "bewaard"
           /\ plaats = "afgewikkeld" => r \in aanvaard',
         r \in Afrondingen =>
           /\ plaats \in {"bewaard", "storing"} => pc[r] \in {"bewaard", "storing"}
           /\ plaats \in {"afgewikkeld", "klaar"} => pc[r] = "afgewikkeld" \/ storing' # "InBehandeling"
           /\ pc[r] \in {"bewaard", "storing"} /\ storing' = "InBehandeling" => plaats \in {"bewaard", "storing", "mislukt"}
  PROVE  RijInv' /\ AfloopInv' /\ VerzoekTypeOK'
<1>1. /\ Trajectverzoeken \subseteq Verzoeken /\ Afrondingen \subseteq Trajectverzoeken
      /\ Meldingen \subseteq Verzoeken /\ Diagnoses \subseteq Verzoeken
  BY DEF Verzoeken, Trajectverzoeken
<1>2. /\ pc' \in [Verzoeken -> {"nieuw"} \cup Bezig \cup Eind] /\ pc'[r] = plaats
      /\ \A q \in Verzoeken \ {r} : pc'[q] = pc[q]
  BY Verplaats
<1>3. plaats # "nieuw"
  BY DEF Bezig, Gelezen, Eind
<1>4. /\ kopie' \in [Trajectverzoeken -> Trajecten] /\ gelezen' \in [Trajectverzoeken -> Trajecten]
      /\ \A q \in Trajectverzoeken \ {r} : kopie'[q] = kopie[q] /\ gelezen'[q] = gelezen[q]
  BY GeplandType DEF VerzoekTypeOK
<1>5. VerzoekTypeOK'
  <2>1. aanvaard' \subseteq Verzoeken /\ uitgegeven' \subseteq aanvaard'
    BY DEF VerzoekTypeOK
  <2> QED BY <1>2, <1>4, <2>1 DEF VerzoekTypeOK
<1>6. Rustig
  BY <1>1, <1>2, <1>3, <1>4 DEF Rustig
<1>7. RijInv'
  <2>1. aanvaard' \cap Trajectverzoeken = aanvaard \cap Trajectverzoeken
    OBVIOUS
  <2>2. storing' = "InBehandeling" => traject.status # "Ontbreekt"
    BY DEF RijInv, DossierInv
  <2>3. \A q \in Verzoeken : pc'[q] # "nieuw" => pc[q] # "nieuw" \/ q \in verkeer
    BY <1>2
  <2>4. \A q \in Trajectverzoeken :
          pc'[q] \in {"bewaard", "storing", "afgewikkeld"} => pc[q] \in {"bewaard", "storing", "afgewikkeld"}
    BY <1>1, <1>2
  <2>5. \A m \in Meldingen \cup Diagnoses :
          /\ pc'[m] \in {"nieuw", "gepland"} => pc[m] \in {"nieuw", "gepland"}
          /\ pc'[m] = "bewaard" => pc[m] = "bewaard"
    BY <1>1, <1>2, <1>3
  <2>6. \A m \in Meldingen : pc'[m] = "afgewikkeld" => m \in aanvaard'
    BY <1>1, <1>2 DEF RijInv, AanvaardInv
  <2> QED BY <1>6, <2>1, <2>2, <2>3, <2>4, <2>5, <2>6, RijRustig
<1>8. AfloopInv'
  <2>1. aanvaard \subseteq aanvaard'
    OBVIOUS
  <2>2. storing' = "InBehandeling" => storing = "InBehandeling" \/ aanvaard' \cap Meldingen # {}
    OBVIOUS
  <2>3. storing' = "Afgehandeld" => storing = "Afgehandeld" \/ samenloop \/ traject.status = "Afgerond"
    BY DEF AfloopInv, AlleenInv
  <2>4. ASSUME NEW q \in Afrondingen
        PROVE  /\ Onderweg(q) /\ storing' = "InBehandeling" => Onderweg(q)'
               /\ pc'[q] \in {"afgewikkeld", "klaar"} =>
                    pc[q] \in {"afgewikkeld", "klaar"} \/ storing' # "InBehandeling"
               /\ pc'[q] \in {"bewaard", "storing"} => pc[q] \in {"bewaard", "storing"}
               /\ q \in uitgegeven' => pc'[q] = "klaar"
    <3>1. CASE q # r
      BY <1>1, <1>2, <2>1, <3>1 DEF Onderweg, AfloopInv, UitgegevenInv
    <3>2. CASE q = r
      <4>1. r \in Afrondingen /\ pc[r] \notin {"klaar", "mislukt"}
        BY <3>2 DEF Eind
      <4>2. r \in uitgegeven' => plaats = "klaar"
        BY <4>1 DEF AfloopInv, UitgegevenInv
      <4> QED BY <1>2, <2>1, <3>2, <4>1, <4>2 DEF Onderweg
    <3> QED BY <3>1, <3>2
  <2> QED BY <1>6, <2>1, <2>2, <2>3, <2>4, AfloopRustig
<1> QED BY <1>5, <1>7, <1>8

VerzoekInv == RijInv /\ AfloopInv /\ VerzoekTypeOK

\* A request that moves and changes nothing else.
LEMMA AlleenVerplaatst ==
  ASSUME VerzoekInv, NEW r \in Verzoeken, r \in verkeer \/ pc[r] # "nieuw", pc[r] \notin Eind,
         NEW plaats \in Bezig \cup Eind, NaarStap(r, plaats), verkeer' = verkeer,
         UNCHANGED <<traject, storing, schemas, kopie, gelezen, samenloop, aanvaard, uitgegeven>>,
         r \in Trajectverzoeken =>
           /\ plaats \notin Fase
           /\ plaats \in {"bewaard", "storing", "afgewikkeld"} => pc[r] \in {"bewaard", "storing"},
         r \in Meldingen \cup Diagnoses =>
           /\ plaats = "gepland" => pc[r] = "nieuw"
           /\ plaats \notin {"bewaard", "afgewikkeld"},
         r \in Afrondingen =>
           /\ plaats \in {"bewaard", "storing"} => pc[r] \in {"bewaard", "storing"}
           /\ plaats \in {"afgewikkeld", "klaar"} => pc[r] = "afgewikkeld" \/ storing # "InBehandeling"
           /\ pc[r] \in {"bewaard", "storing"} /\ storing = "InBehandeling" => plaats \in {"bewaard", "storing", "mislukt"}
  PROVE  VerzoekInv'
<1>1. RijInv /\ AfloopInv /\ VerzoekTypeOK
  BY DEF VerzoekInv
<1>2. /\ traject' = traject /\ samenloop' = samenloop /\ kopie' = kopie /\ gelezen' = gelezen
      /\ schemas' \subseteq Schemas /\ storing' = storing /\ aanvaard' = aanvaard /\ uitgegeven' = uitgegeven
      /\ storing' \in {"Ontbreekt", "Gemeld", "InBehandeling", "Afgehandeld"}
  BY <1>1 DEF VerzoekTypeOK
<1>3. RijInv' /\ AfloopInv' /\ VerzoekTypeOK'
  BY <1>1, <1>2, RustigeStap
<1> QED BY <1>3 DEF VerzoekInv

\* A storing that is reported, with its traject if there is one.
LEMMA MeldHoudt ==
  ASSUME VerzoekInv, NEW m \in Verzoeken, verkeer' = verkeer, Meld(m) \/ BewaarStoring(m)
  PROVE  VerzoekInv'
<1>1. CASE Meld(m)
  <2>1. PICK plaats \in {"gecontroleerd", "gepland", "afgewezen"} :
          /\ m \in verkeer \cap Meldingen /\ pc[m] = "nieuw" /\ NaarStap(m, plaats)
          /\ UNCHANGED <<traject, storing, schemas, kopie, gelezen, samenloop, aanvaard, uitgegeven>>
    BY <1>1 DEF Meld, ongelezen
  <2>2. m \notin Trajectverzoeken /\ m \notin Afrondingen
    BY <2>1, EenSoort DEF Trajectverzoeken
  <2>3. plaats \in Bezig \cup Eind /\ pc[m] \notin Eind
    BY <2>1 DEF Bezig, Eind, Gelezen
  <2> QED BY <2>1, <2>2, <2>3, AlleenVerplaatst
<1>2. CASE BewaarStoring(m)
  <2>1. /\ m \in Meldingen /\ pc[m] \in {"gecontroleerd", "bewaard"}
        /\ storing' = IF pc[m] = "bewaard" THEN "InBehandeling" ELSE "Gemeld"
        /\ aanvaard' = aanvaard \cup {m} /\ NaarStap(m, "afgewikkeld")
        /\ traject' = traject /\ schemas' = schemas /\ kopie' = kopie /\ gelezen' = gelezen
        /\ samenloop' = samenloop /\ uitgegeven' = uitgegeven
    BY <1>2 DEF BewaarStoring, Aanvaard, ongelezen
  <2>2. m \notin Trajectverzoeken /\ m \notin Afrondingen
    BY <2>1, EenSoort DEF Trajectverzoeken
  <2>3. RijInv /\ AfloopInv /\ VerzoekTypeOK /\ schemas' \subseteq Schemas
    BY <2>1 DEF VerzoekInv, VerzoekTypeOK
  <2>4. pc[m] = "bewaard" => traject.status # "Ontbreekt"
    BY <2>1, <2>3 DEF RijInv, MakerInv
  <2>5. "afgewikkeld" \in Bezig \cup Eind /\ pc[m] \notin Eind /\ pc[m] # "nieuw"
    BY <2>1 DEF Bezig, Eind
  <2>6. /\ storing' \in {"Ontbreekt", "Gemeld", "InBehandeling", "Afgehandeld"} /\ storing' # "Afgehandeld"
        /\ storing' = "InBehandeling" => m \in Meldingen \cap aanvaard' /\ traject.status # "Ontbreekt"
    BY <2>1, <2>4
  <2>7. RijInv' /\ AfloopInv' /\ VerzoekTypeOK'
    BY <2>1, <2>2, <2>3, <2>5, <2>6, RustigeStap
  <2> QED BY <2>7 DEF VerzoekInv
<1> QED BY <1>1, <1>2

\* A schema that is made, beside the traject.
LEMMA SchemaHoudt ==
  ASSUME VerzoekInv, NEW r \in Schemas, verkeer' = verkeer, ControleerContract(r) \/ BewaarSchema(r) \/ WijsAf(r)
  PROVE  VerzoekInv'
<1>1. r \in Verzoeken /\ r \notin Trajectverzoeken /\ r \notin Afrondingen /\ r \notin Meldingen /\ r \notin Diagnoses
      /\ r \notin Starts
  BY EenSoort DEF Verzoeken, Trajectverzoeken
<1>2. CASE BewaarSchema(r)
  <2>1. /\ pc[r] = "gecontroleerd" /\ schemas' = schemas \cup {r} /\ aanvaard' = aanvaard \cup {r} /\ NaarStap(r, "klaar")
        /\ traject' = traject /\ storing' = storing /\ kopie' = kopie /\ gelezen' = gelezen
        /\ samenloop' = samenloop /\ uitgegeven' = uitgegeven
    BY <1>2 DEF BewaarSchema, Aanvaard, ongelezen
  <2>2. /\ RijInv /\ AfloopInv /\ VerzoekTypeOK /\ schemas' \subseteq Schemas
        /\ storing' \in {"Ontbreekt", "Gemeld", "InBehandeling", "Afgehandeld"}
    BY <2>1 DEF VerzoekInv, VerzoekTypeOK
  <2>3. "klaar" \in Bezig \cup Eind /\ pc[r] \notin Eind /\ pc[r] # "nieuw"
    BY <2>1 DEF Eind
  <2>4. RijInv' /\ AfloopInv' /\ VerzoekTypeOK'
    BY <1>1, <2>1, <2>2, <2>3, RustigeStap
  <2> QED BY <2>4 DEF VerzoekInv
<1>3. CASE ControleerContract(r) \/ WijsAf(r)
  <2>1. PICK plaats \in {"gecontroleerd", "afgewezen"} :
          /\ r \in verkeer \/ pc[r] = "gecontroleerd"
          /\ pc[r] \in {"nieuw", "gecontroleerd"} /\ NaarStap(r, plaats)
          /\ UNCHANGED <<traject, storing, schemas, kopie, gelezen, samenloop, aanvaard, uitgegeven>>
    <3>1. CASE ControleerContract(r)
      BY <1>1, <3>1 DEF ControleerContract
    <3>2. CASE WijsAf(r)
      BY <1>1, <3>2 DEF WijsAf, ongelezen
    <3> QED BY <1>3, <3>1, <3>2
  <2>2. plaats \in Bezig \cup Eind /\ pc[r] \notin Eind
    BY <2>1 DEF Bezig, Eind, Gelezen
  <2> QED BY <1>1, <2>1, <2>2, AlleenVerplaatst
<1> QED BY <1>2, <1>3

\* The steps that the requests on the traject share.
LEMMA WijzigTrajectHoudt ==
  ASSUME VerzoekInv, NEW r \in Trajectverzoeken, verkeer' = verkeer, WijzigTraject(r)
  PROVE  VerzoekInv'
<1>1. r \in Verzoeken /\ r \notin Meldingen /\ r \notin Diagnoses
  BY EenSoort DEF Verzoeken
<1>2. RijInv /\ AfloopInv /\ VerzoekTypeOK
  BY DEF VerzoekInv
<1>3. "afgewezen" \in Eind /\ "mislukt" \in Eind /\ "afgewezen" \notin Fase /\ "mislukt" \notin Fase
  BY DEF Eind, Fase, Gelezen
<1>4. CASE Zoek(r)
  <2>1. CASE traject.status # "Ontbreekt"
    BY <1>2, <1>4, <2>1, ZoekHoudt DEF VerzoekInv
  <2>2. CASE traject.status = "Ontbreekt"
    <3>1. /\ r \in verkeer /\ pc[r] = "nieuw" /\ NaarStap(r, "afgewezen")
          /\ UNCHANGED <<traject, storing, schemas, kopie, gelezen, samenloop, aanvaard, uitgegeven>>
      BY <1>4, <2>2 DEF Zoek
    <3>2. pc[r] \notin Eind
      BY <3>1 DEF Eind
    <3> QED BY <1>1, <1>3, <3>1, <3>2, AlleenVerplaatst
  <2> QED BY <2>1, <2>2
<1>5. CASE Vergelijk(r)
  BY <1>2, <1>5, VergelijkHoudt DEF VerzoekInv
<1>6. CASE Schrijf(r)
  <2>1. CASE ~KindOntbreekt(r)
    <3>1. /\ pc[r] = "vergeleken" /\ traject' = Samengevoegd(r) /\ Aanvaard(r) /\ NaarStap(r, NaBewaren(r))
          /\ kopie' = [kopie EXCEPT ![r] = Gepland] /\ gelezen' = [gelezen EXCEPT ![r] = Gepland]
          /\ UNCHANGED <<storing, schemas, samenloop, uitgegeven>>
      BY <1>6, <2>1 DEF Schrijf
    <3> QED BY <1>2, <2>1, <3>1, BewaardHoudt DEF VerzoekInv
  <2>2. CASE KindOntbreekt(r)
    <3>1. /\ pc[r] = "vergeleken" /\ NaarStap(r, "mislukt")
          /\ traject' = traject /\ aanvaard' = aanvaard
          /\ kopie' = [kopie EXCEPT ![r] = Gepland] /\ gelezen' = [gelezen EXCEPT ![r] = Gepland]
          /\ storing' = storing /\ schemas' = schemas /\ samenloop' = samenloop /\ uitgegeven' = uitgegeven
      BY <1>6, <2>2 DEF Schrijf
    <3>2. /\ schemas' \subseteq Schemas /\ pc[r] \notin Eind
          /\ storing' \in {"Ontbreekt", "Gemeld", "InBehandeling", "Afgehandeld"}
      BY <1>2, <3>1 DEF VerzoekTypeOK, Eind
    <3>3. RijInv' /\ AfloopInv' /\ VerzoekTypeOK'
      BY <1>1, <1>2, <1>3, <3>1, <3>2, RustigeStap
    <3> QED BY <3>3 DEF VerzoekInv
  <2> QED BY <2>1, <2>2
<1>7. CASE WijsAf(r)
  <2>1. /\ pc[r] = "gelezen" /\ NaarStap(r, "afgewezen")
        /\ UNCHANGED <<traject, storing, schemas, kopie, gelezen, samenloop, aanvaard, uitgegeven>>
    <3>1. r \notin Schemas
      BY EenSoort
    <3> QED BY <1>7, <3>1 DEF WijsAf, ongelezen
  <2>2. pc[r] \notin Eind
    BY <2>1 DEF Eind
  <2> QED BY <1>1, <1>3, <2>1, <2>2, AlleenVerplaatst
<1> QED BY <1>4, <1>5, <1>6, <1>7 DEF WijzigTraject

\* A start asks for the contract, and may be refused.
LEMMA StartHoudt ==
  ASSUME VerzoekInv, NEW r \in Starts, verkeer' = verkeer, ControleerContract(r)
  PROVE  VerzoekInv'
<1>1. r \in Verzoeken /\ r \in Trajectverzoeken /\ r \notin Afrondingen /\ r \notin Meldingen /\ r \notin Diagnoses
      /\ r \notin Schemas
  BY EenSoort DEF Verzoeken, Trajectverzoeken
<1>2. pc[r] = "gepland" /\ UNCHANGED <<traject, storing, schemas, gelezen, samenloop, aanvaard, uitgegeven>>
  BY <1>1 DEF ControleerContract
<1>3. CASE contract = "actief" \/ Validatie = "soepel"
  <2>1. NaarStap(r, "gelezen") /\ kopie' \in {kopie, [kopie EXCEPT ![r].contract = TRUE]}
    BY <1>3 DEF ControleerContract
  <2> QED BY <1>2, <2>1, ControleerHoudt DEF VerzoekInv
<1>4. CASE ~(contract = "actief" \/ Validatie = "soepel")
  <2>1. NaarStap(r, "afgewezen") /\ kopie' = kopie
    BY <1>4 DEF ControleerContract
  <2>2. "afgewezen" \in Eind /\ "afgewezen" \notin Fase /\ pc[r] \notin Eind
    BY <1>2 DEF Eind, Fase, Gelezen
  <2> QED BY <1>1, <1>2, <2>1, <2>2, AlleenVerplaatst
<1> QED BY <1>3, <1>4

\* An afronding looks for the storing and handles it.
LEMMA HandelAfHoudt ==
  ASSUME VerzoekInv, NEW r \in Afrondingen, verkeer' = verkeer, ZoekStoring(r) \/ HandelAf(r)
  PROVE  VerzoekInv'
<1>1. r \in Verzoeken /\ r \in Trajectverzoeken /\ r \notin Meldingen /\ r \notin Diagnoses
  BY EenSoort DEF Verzoeken, Trajectverzoeken
<1>2. /\ "afgewikkeld" \in Bezig /\ "storing" \in Bezig /\ "afgewikkeld" \notin Fase /\ "storing" \notin Fase
      /\ "bewaard" \notin Eind /\ "storing" \notin Eind
  BY DEF Bezig, Eind, Fase, Gelezen
<1>3. CASE ZoekStoring(r)
  <2>1. PICK plaats \in {"afgewikkeld", "storing"} :
          /\ pc[r] = "bewaard" /\ NaarStap(r, plaats)
          /\ plaats = "afgewikkeld" => storing # "InBehandeling"
          /\ UNCHANGED <<traject, storing, schemas, kopie, gelezen, samenloop, aanvaard, uitgegeven>>
    BY <1>3 DEF ZoekStoring, ongelezen
  <2> QED BY <1>1, <1>2, <2>1, AlleenVerplaatst
<1>4. CASE HandelAf(r)
  <2>1. /\ pc[r] = "storing" /\ storing' = "Afgehandeld" /\ NaarStap(r, "afgewikkeld")
        /\ traject' = traject /\ schemas' = schemas /\ kopie' = kopie /\ gelezen' = gelezen
        /\ samenloop' = samenloop /\ aanvaard' = aanvaard /\ uitgegeven' = uitgegeven
    BY <1>4 DEF HandelAf, ongelezen
  <2>2. RijInv /\ AfloopInv /\ VerzoekTypeOK /\ schemas' \subseteq Schemas
    BY <2>1 DEF VerzoekInv, VerzoekTypeOK
  <2>3. RijInv' /\ AfloopInv' /\ VerzoekTypeOK'
    BY <1>1, <1>2, <2>1, <2>2, RustigeStap
  <2> QED BY <2>3 DEF VerzoekInv
<1> QED BY <1>3, <1>4

\* The event goes out, last of all.
LEMMA PubliceerHoudt ==
  ASSUME VerzoekInv, NEW r \in Meldingen \cup Starts \cup Afrondingen, verkeer' = verkeer, Publiceer(r)
  PROVE  VerzoekInv'
<1>1. r \in Verzoeken /\ (r \in Starts => r \notin Afrondingen /\ r \in Trajectverzoeken)
      /\ (r \in Afrondingen => r \in Trajectverzoeken) /\ Starts \subseteq Trajectverzoeken
  BY EenSoort DEF Verzoeken, Trajectverzoeken
<1>2. /\ pc[r] = "afgewikkeld" \/ (r \in Starts /\ pc[r] = "bewaard")
      /\ uitgegeven' = uitgegeven \cup {r} /\ NaarStap(r, "klaar")
      /\ traject' = traject /\ storing' = storing /\ schemas' = schemas /\ kopie' = kopie
      /\ gelezen' = gelezen /\ samenloop' = samenloop /\ aanvaard' = aanvaard
  BY DEF Publiceer, ongelezen
<1>3. /\ RijInv /\ AfloopInv /\ VerzoekTypeOK /\ schemas' \subseteq Schemas
      /\ storing' \in {"Ontbreekt", "Gemeld", "InBehandeling", "Afgehandeld"}
  BY <1>2 DEF VerzoekInv, VerzoekTypeOK
<1>4. "klaar" \in Eind /\ pc[r] \notin Eind /\ "klaar" \notin Fase /\ pc[r] # "nieuw"
  BY <1>2 DEF Eind, Fase, Gelezen
<1>5. r \in aanvaard
  BY <1>1, <1>2, <1>3 DEF RijInv, AanvaardInv
<1>6. r \in Afrondingen => pc[r] = "afgewikkeld"
  BY <1>1, <1>2
<1>7. RijInv' /\ AfloopInv' /\ VerzoekTypeOK'
  BY <1>1, <1>2, <1>3, <1>4, <1>5, <1>6, RustigeStap
<1> QED BY <1>7 DEF VerzoekInv

\* Every step of a request.
LEMMA VerzoekHoudt ==
  ASSUME VerzoekInv, NEW r \in Verzoeken, Verzoek(r), verkeer' = verkeer
  PROVE  VerzoekInv'
<1>1. RijInv /\ AfloopInv /\ VerzoekTypeOK
  BY DEF VerzoekInv
<1>2. /\ Starts \subseteq Trajectverzoeken /\ Inspecties \subseteq Trajectverzoeken
      /\ Afrondingen \subseteq Trajectverzoeken /\ Facturen \subseteq Trajectverzoeken
      /\ Keuringen \subseteq Trajectverzoeken
  BY DEF Trajectverzoeken
<1>3. CASE MeldStoring(r)
  <2>1. r \in Meldingen /\ (Meld(r) \/ BewaarTraject(r) \/ BewaarStoring(r) \/ Publiceer(r))
    BY <1>3 DEF MeldStoring
  <2>2. CASE BewaarTraject(r)
    BY <1>1, <2>2, MaakHoudt DEF VerzoekInv
  <2>3. CASE Publiceer(r)
    BY <2>1, <2>3, PubliceerHoudt
  <2> QED BY <2>1, <2>2, <2>3, MeldHoudt
<1>4. CASE StelDiagnose(r)
  BY <1>1, <1>4, MaakHoudt DEF VerzoekInv
<1>5. CASE MaakSchema(r)
  BY <1>5, SchemaHoudt DEF MaakSchema
<1>6. CASE StartOnderhoud(r)
  <2>1. r \in Starts /\ (WijzigTraject(r) \/ ControleerContract(r) \/ Publiceer(r))
    BY <1>6 DEF StartOnderhoud
  <2> QED BY <1>2, <2>1, WijzigTrajectHoudt, StartHoudt, PubliceerHoudt
<1>7. CASE RondOnderhoudAf(r)
  <2>1. r \in Afrondingen /\ (WijzigTraject(r) \/ ZoekStoring(r) \/ HandelAf(r) \/ Publiceer(r))
    BY <1>7 DEF RondOnderhoudAf
  <2> QED BY <1>2, <2>1, WijzigTrajectHoudt, HandelAfHoudt, PubliceerHoudt
<1>8. CASE RegistreerInspectie(r) \/ OntvangFactuur(r) \/ KeurFactuurGoed(r)
  <2>1. r \in Trajectverzoeken /\ WijzigTraject(r)
    BY <1>2, <1>8 DEF RegistreerInspectie, OntvangFactuur, KeurFactuurGoed
  <2> QED BY <2>1, WijzigTrajectHoudt
<1> QED BY <1>3, <1>4, <1>5, <1>6, <1>7, <1>8 DEF Verzoek

\* Steps of others, and the death of the process.
LEMMA VerzoekBreekt ==
  ASSUME VerzoekInv, NEW R \in SUBSET Verzoeken, \A r \in R : pc[r] \in Bezig, verkeer' = verkeer,
         pc' = [r \in Verzoeken |-> IF r \in R THEN "mislukt" ELSE pc[r]],
         UNCHANGED <<traject, storing, schemas, kopie, gelezen, samenloop, aanvaard, uitgegeven>>
  PROVE  VerzoekInv'
<1>1. /\ Trajectverzoeken \subseteq Verzoeken /\ Afrondingen \subseteq Trajectverzoeken
      /\ Meldingen \subseteq Verzoeken /\ Diagnoses \subseteq Verzoeken
  BY DEF Verzoeken, Trajectverzoeken
<1>2. RijInv /\ AfloopInv /\ VerzoekTypeOK
  BY DEF VerzoekInv
<1>3. \A r \in Verzoeken : pc'[r] = pc[r] \/ (pc'[r] = "mislukt" /\ pc[r] \notin {"nieuw", "klaar"})
  BY DEF Bezig, Gelezen
<1>4. "mislukt" \notin Fase /\ "mislukt" \in Eind
  BY DEF Eind, Fase, Gelezen
<1>5. Rustig
  BY <1>1, <1>3, <1>4 DEF Rustig
<1>6. RijInv'
  <2>1. storing' = "InBehandeling" => traject.status # "Ontbreekt"
    BY <1>2 DEF RijInv, DossierInv
  <2>2. \A m \in Meldingen : pc'[m] = "afgewikkeld" => m \in aanvaard'
    BY <1>1, <1>2, <1>3 DEF RijInv, AanvaardInv
  <2>3. /\ \A r \in Verzoeken : pc'[r] # "nieuw" => pc[r] # "nieuw" \/ r \in verkeer
        /\ \A r \in Trajectverzoeken :
             pc'[r] \in {"bewaard", "storing", "afgewikkeld"} => pc[r] \in {"bewaard", "storing", "afgewikkeld"}
        /\ \A m \in Meldingen \cup Diagnoses :
             /\ pc'[m] \in {"nieuw", "gepland"} => pc[m] \in {"nieuw", "gepland"}
             /\ pc'[m] = "bewaard" => pc[m] = "bewaard"
    BY <1>1, <1>3
  <2> QED BY <1>2, <1>5, <2>1, <2>2, <2>3, RijRustig
<1>7. AfloopInv'
  <2>1. ASSUME NEW r \in Afrondingen
        PROVE  /\ Onderweg(r) => Onderweg(r)'
               /\ pc'[r] \in {"afgewikkeld", "klaar", "bewaard", "storing"} => pc[r] = pc'[r]
               /\ r \in uitgegeven' => pc'[r] = "klaar"
    <3>1. pc'[r] = pc[r] \/ (pc'[r] = "mislukt" /\ pc[r] \notin {"nieuw", "klaar"})
      BY <1>1, <1>3
    <3>2. r \in uitgegeven => pc[r] = "klaar"
      BY <1>2 DEF AfloopInv, UitgegevenInv
    <3> QED BY <3>1, <3>2 DEF Onderweg
  <2>2. storing' = "InBehandeling" => storing = "InBehandeling" \/ aanvaard' \cap Meldingen # {}
    OBVIOUS
  <2>3. storing' = "Afgehandeld" => storing = "Afgehandeld" \/ samenloop \/ traject.status = "Afgerond"
    OBVIOUS
  <2> QED BY <1>2, <1>5, <2>1, <2>2, <2>3, AfloopRustig
<1>8. VerzoekTypeOK'
  <2>1. pc' \in [Verzoeken -> {"nieuw"} \cup Bezig \cup Eind]
    BY <1>2, <1>4 DEF VerzoekTypeOK
  <2> QED BY <1>2, <2>1 DEF VerzoekTypeOK
<1> QED BY <1>6, <1>7, <1>8 DEF VerzoekInv

LEMMA VerzoekStil ==
  ASSUME VerzoekInv, UNCHANGED verzoekVars, verkeer' = verkeer
  PROVE  VerzoekInv'
<1>1. /\ traject' = traject /\ storing' = storing /\ schemas' = schemas /\ pc' = pc /\ kopie' = kopie
      /\ gelezen' = gelezen /\ aanvaard' = aanvaard /\ uitgegeven' = uitgegeven /\ samenloop' = samenloop
  BY DEF verzoekVars
<1>2. pc = [r \in Verzoeken |-> IF r \in {} THEN "mislukt" ELSE pc[r]]
  BY DEF VerzoekInv, VerzoekTypeOK
<1>3. {} \in SUBSET Verzoeken /\ \A r \in {} : pc[r] \in Bezig
  OBVIOUS
<1>4. pc' = [r \in Verzoeken |-> IF r \in {} THEN "mislukt" ELSE pc[r]]
  BY <1>1, <1>2
<1> QED BY <1>1, <1>3, <1>4, VerzoekBreekt

-----------------------------------------------------------------------------
(* The read models *)

LeesTypeOK ==
  /\ inGebruik \in {"onbekend", "ja", "nee"}
  /\ eisen \in Berichten \cup {Geen}
  /\ contract \in {"onbekend", "actief", "afgerond"}
  /\ diagnoses \in [Berichten -> Nat]

LeesInv == LeveringInv /\ LeesTypeOK /\ VolgtDeVolgorde

\* The kind of a message decides its queue.
LEMMA Kopie ==
  ASSUME NEW b \in Berichten
  PROVE  /\ Soort[b] \in {"geregistreerd", "buitengebruik", "onderhoudseisen"} =>
              Queue[b] = "onderhoud.beheer" /\ Kopieen[b] = 1
         /\ Soort[b] \in {"gegund", "afgerond"} => Queue[b] = "onderhoud.contract"
         /\ Soort[b] = "incident" => Queue[b] = "onderhoud.monitoring-incident"
BY OnderhoudAssumption DEF QueueVan

\* The parts of VolgtDeVolgorde.
GebruikVolgt ==
  \A b \in Laatste({c \in toegepast : Soort[c] \in {"geregistreerd", "buitengebruik"}}) :
    inGebruik = IF Soort[b] = "geregistreerd" THEN "ja" ELSE "nee"

EisenVolgen == \A b \in Laatste({c \in toegepast : Soort[c] = "onderhoudseisen"}) : eisen = b

ContractVolgt ==
  \A b \in Laatste({c \in toegepast : Soort[c] \in {"gegund", "afgerond"}}) :
    (contract = "actief") <=> Soort[b] = "gegund"

LEMMA VolgordeDelen ==
  /\ VolgtDeVolgorde <=> (~overlap => GebruikVolgt /\ EisenVolgen /\ (GeenVerworpen => ContractVolgt))
  /\ VolgtDeVolgorde' <=> (~overlap' => GebruikVolgt' /\ EisenVolgen' /\ (GeenVerworpen' => ContractVolgt'))
<1>1. VolgtDeVolgorde <=> (~overlap => GebruikVolgt /\ EisenVolgen /\ (GeenVerworpen => ContractVolgt))
  BY DEF VolgtDeVolgorde, GebruikVolgt, EisenVolgen, ContractVolgt
<1>2. VolgtDeVolgorde' <=> (~overlap' => GebruikVolgt' /\ EisenVolgen' /\ (GeenVerworpen' => ContractVolgt'))
  BY DEF VolgtDeVolgorde, GebruikVolgt, EisenVolgen, ContractVolgt
<1> QED BY <1>1, <1>2


\* Where nothing is applied, the last message stays the last.
LEMMA LeesStil ==
  ASSUME LeesInv, LeveringInv', toegepast' = toegepast, UNCHANGED leesmodel,
         ~overlap' => ~overlap, GeenVerworpen' => GeenVerworpen
  PROVE  LeesInv'
<1>1. inGebruik' = inGebruik /\ eisen' = eisen /\ contract' = contract /\ diagnoses' = diagnoses
  BY DEF leesmodel
<1>2. LeesTypeOK'
  BY <1>1 DEF LeesInv, LeesTypeOK
<1>3. VolgtDeVolgorde'
  BY <1>1 DEF LeesInv, VolgtDeVolgorde, Laatste
<1> QED BY <1>2, <1>3 DEF LeesInv

\* Without overlap the message that a handler applies is the last of any set of kinds of
\* its queue.
LEMMA ToegepastIsLaatste ==
  ASSUME LeveringInv, ~overlap, NEW d \in Leveringen, levering[d] = "gecontroleerd",
         Kopieen[Bericht(d)] = 1 \/ GeenVerworpen,
         NEW S, Soort[Bericht(d)] \in S, toegepast' = toegepast \cup {Bericht(d)},
         \A c \in Berichten : Soort[c] \in S => Queue[c] = Queue[Bericht(d)]
  PROVE  Laatste({c \in toegepast' : Soort[c] \in S}) = {Bericht(d)}
<1> DEFINE B == {c \in toegepast' : Soort[c] \in S}
<1>1. B \subseteq toegepast \cup {Bericht(d)} /\ Bericht(d) \in B /\ B \subseteq Berichten
  BY LeveringIsKopie DEF LeveringInv, LeveringTypeOK
<1>2. \A c \in B : Queue[c] = Queue[Bericht(d)]
  BY <1>1
<1> HIDE DEF B
<1>3. Laatste(B) = {Bericht(d)}
  BY <1>1, <1>2, NieuwsteIsLaatste
<1> QED BY <1>3 DEF B

\* beheer.kunstwerk.*: the row says what the last message says.
LEMMA KunstwerkVolgt ==
  ASSUME LeesInv, NEW d \in Leveringen, UpsertKunstwerk(d) \/ MarkeerBuitenGebruik(d)
  PROVE  LeesInv'
<1> DEFINE S == {"geregistreerd", "buitengebruik"}
<1>1. PICK soort \in S :
        /\ PastToe(d, soort, "toegepast")
        /\ inGebruik' = IF soort = "geregistreerd" THEN "ja" ELSE "nee"
        /\ eisen' = eisen /\ contract' = contract /\ diagnoses' = diagnoses
  BY DEF UpsertKunstwerk, MarkeerBuitenGebruik
<1>2. /\ LeveringInv' /\ toegepast' = toegepast \cup {Bericht(d)} /\ Soort[Bericht(d)] = soort
      /\ overlap' = overlap /\ (GeenVerworpen' => GeenVerworpen)
  BY <1>1, PastToeHoudt DEF LeesInv
<1>3. LeesTypeOK'
  BY <1>1 DEF LeesInv, LeesTypeOK
<1>4. levering[d] = "gecontroleerd" /\ Bericht(d) \in Berichten
  BY <1>1, LeveringIsKopie DEF PastToe
<1>5. ASSUME ~overlap' PROVE GebruikVolgt'
  <2>1. LeveringInv /\ ~overlap /\ Kopieen[Bericht(d)] = 1 /\ Soort[Bericht(d)] \in S
        /\ \A c \in Berichten : Soort[c] \in S => Queue[c] = Queue[Bericht(d)]
    BY <1>2, <1>4, <1>5, Kopie DEF LeesInv
  <2>2. Laatste({c \in toegepast' : Soort[c] \in S}) = {Bericht(d)}
    <3> HIDE DEF S
    <3> QED BY <1>2, <1>4, <2>1, ToegepastIsLaatste
  <2> QED BY <1>1, <1>2, <2>2 DEF GebruikVolgt, Laatste
<1>6. (EisenVolgen => EisenVolgen') /\ (ContractVolgt => ContractVolgt')
  <2>1. /\ {c \in toegepast' : Soort[c] = "onderhoudseisen"} = {c \in toegepast : Soort[c] = "onderhoudseisen"}
        /\ {c \in toegepast' : Soort[c] \in {"gegund", "afgerond"}} = {c \in toegepast : Soort[c] \in {"gegund", "afgerond"}}
    BY <1>2
  <2> QED BY <1>1, <2>1 DEF EisenVolgen, ContractVolgt, Laatste
<1> QED BY <1>2, <1>3, <1>5, <1>6, VolgordeDelen DEF LeesInv

\* beheer.onderhoudseisen.vastgesteld: the row holds the last set of eisen.
LEMMA BewaarEisenVolgt ==
  ASSUME LeesInv, NEW d \in Leveringen, BewaarEisen(d)
  PROVE  LeesInv'
<1> DEFINE S == {"onderhoudseisen"}
<1>1. /\ PastToe(d, "onderhoudseisen", "toegepast")
      /\ eisen' = Bericht(d)
      /\ inGebruik' = inGebruik /\ contract' = contract /\ diagnoses' = diagnoses
  BY DEF BewaarEisen
<1>2. /\ LeveringInv' /\ toegepast' = toegepast \cup {Bericht(d)} /\ Soort[Bericht(d)] = "onderhoudseisen"
      /\ overlap' = overlap /\ (GeenVerworpen' => GeenVerworpen)
  BY <1>1, PastToeHoudt DEF LeesInv
<1>3. levering[d] = "gecontroleerd" /\ Bericht(d) \in Berichten
  BY <1>1, LeveringIsKopie DEF PastToe
<1>4. LeesTypeOK'
  BY <1>1, <1>3 DEF LeesInv, LeesTypeOK
<1>5. ASSUME ~overlap' PROVE EisenVolgen'
  <2>1. LeveringInv /\ ~overlap /\ Kopieen[Bericht(d)] = 1 /\ Soort[Bericht(d)] \in S
        /\ \A c \in Berichten : Soort[c] \in S => Queue[c] = Queue[Bericht(d)]
    BY <1>2, <1>3, <1>5, Kopie DEF LeesInv
  <2>2. Laatste({c \in toegepast' : Soort[c] \in S}) = {Bericht(d)}
    <3> HIDE DEF S
    <3> QED BY <1>2, <1>3, <2>1, ToegepastIsLaatste
  <2>3. {c \in toegepast' : Soort[c] \in S} = {c \in toegepast' : Soort[c] = "onderhoudseisen"}
    OBVIOUS
  <2> QED BY <1>1, <2>2, <2>3 DEF EisenVolgen, Laatste
<1>6. (GebruikVolgt => GebruikVolgt') /\ (ContractVolgt => ContractVolgt')
  <2>1. /\ {c \in toegepast' : Soort[c] \in {"geregistreerd", "buitengebruik"}}
             = {c \in toegepast : Soort[c] \in {"geregistreerd", "buitengebruik"}}
        /\ {c \in toegepast' : Soort[c] \in {"gegund", "afgerond"}} = {c \in toegepast : Soort[c] \in {"gegund", "afgerond"}}
    BY <1>2
  <2> QED BY <1>1, <2>1 DEF GebruikVolgt, ContractVolgt, Laatste
<1> QED BY <1>2, <1>4, <1>5, <1>6, VolgordeDelen DEF LeesInv

\* contract.onderhoudscontract.*: actief after a gegund, not after an afgerond, also when
\* that finds no row.
LEMMA ContractHoudt ==
  ASSUME LeesInv, NEW d \in Leveringen, UpsertGegund(d) \/ MarkeerAfgerond(d)
  PROVE  LeesInv'
<1> DEFINE S == {"gegund", "afgerond"}
<1>1. PICK soort \in S :
        /\ PastToe(d, soort, "toegepast")
        /\ contract' \in {"onbekend", "actief", "afgerond"}
        /\ (contract' = "actief") <=> (soort = "gegund")
        /\ eisen' = eisen /\ inGebruik' = inGebruik /\ diagnoses' = diagnoses
  <2>1. CASE UpsertGegund(d)
    BY <2>1 DEF UpsertGegund
  <2>2. CASE MarkeerAfgerond(d)
    BY <2>2 DEF MarkeerAfgerond
  <2> QED BY <2>1, <2>2
<1>2. /\ LeveringInv' /\ toegepast' = toegepast \cup {Bericht(d)} /\ Soort[Bericht(d)] = soort
      /\ overlap' = overlap /\ (GeenVerworpen' => GeenVerworpen)
  BY <1>1, PastToeHoudt DEF LeesInv
<1>3. LeesTypeOK'
  BY <1>1 DEF LeesInv, LeesTypeOK
<1>4. levering[d] = "gecontroleerd" /\ Bericht(d) \in Berichten
  BY <1>1, LeveringIsKopie DEF PastToe
<1>5. ASSUME ~overlap', GeenVerworpen' PROVE ContractVolgt'
  <2>1. LeveringInv /\ ~overlap /\ GeenVerworpen /\ Soort[Bericht(d)] \in S
        /\ \A c \in Berichten : Soort[c] \in S => Queue[c] = Queue[Bericht(d)]
    BY <1>2, <1>4, <1>5, Kopie DEF LeesInv
  <2>2. Laatste({c \in toegepast' : Soort[c] \in S}) = {Bericht(d)}
    <3> HIDE DEF S
    <3> QED BY <1>2, <1>4, <2>1, ToegepastIsLaatste
  <2> QED BY <1>1, <1>2, <2>2 DEF ContractVolgt, Laatste
<1>6. (EisenVolgen => EisenVolgen') /\ (GebruikVolgt => GebruikVolgt')
  <2>1. /\ {c \in toegepast' : Soort[c] = "onderhoudseisen"} = {c \in toegepast : Soort[c] = "onderhoudseisen"}
        /\ {c \in toegepast' : Soort[c] \in {"geregistreerd", "buitengebruik"}}
             = {c \in toegepast : Soort[c] \in {"geregistreerd", "buitengebruik"}}
    BY <1>2
  <2> QED BY <1>1, <2>1 DEF EisenVolgen, GebruikVolgt, Laatste
<1> QED BY <1>2, <1>3, <1>5, <1>6, VolgordeDelen DEF LeesInv

\* monitoring.incident.aangemaakt concerns none of the three.
LEMMA PlanLeest ==
  ASSUME LeesInv, NEW d \in Leveringen, PlanTraject(d)
  PROVE  LeesInv'
<1> DEFINE b == Bericht(d)
<1>1. /\ PastToe(d, "incident", "toegepast")
      /\ diagnoses' = IF b \in Zwaar THEN [diagnoses EXCEPT ![b] = @ + 1] ELSE diagnoses
      /\ eisen' = eisen /\ inGebruik' = inGebruik /\ contract' = contract
  BY DEF PlanTraject
<1>2. /\ LeveringInv' /\ toegepast' = toegepast \cup {b} /\ Soort[b] = "incident"
      /\ overlap' = overlap /\ (GeenVerworpen' => GeenVerworpen)
  BY <1>1, PastToeHoudt DEF LeesInv
<1>3. LeesTypeOK'
  <2>1. diagnoses \in [Berichten -> Nat] /\ b \in Berichten
    BY LeveringIsKopie DEF LeesInv, LeesTypeOK
  <2>2. diagnoses[b] + 1 \in Nat
    BY <2>1
  <2>3. diagnoses' \in [Berichten -> Nat]
    <3> HIDE DEF b
    <3> QED BY <1>1, <2>1, <2>2
  <2> QED BY <1>1, <2>3 DEF LeesInv, LeesTypeOK
<1>4. /\ {c \in toegepast' : Soort[c] = "onderhoudseisen"} = {c \in toegepast : Soort[c] = "onderhoudseisen"}
      /\ {c \in toegepast' : Soort[c] \in {"geregistreerd", "buitengebruik"}}
           = {c \in toegepast : Soort[c] \in {"geregistreerd", "buitengebruik"}}
      /\ {c \in toegepast' : Soort[c] \in {"gegund", "afgerond"}} = {c \in toegepast : Soort[c] \in {"gegund", "afgerond"}}
  BY <1>2
<1>5. (EisenVolgen => EisenVolgen') /\ (GebruikVolgt => GebruikVolgt') /\ (ContractVolgt => ContractVolgt')
  BY <1>1, <1>4 DEF EisenVolgen, GebruikVolgt, ContractVolgt, Laatste
<1> QED BY <1>2, <1>3, <1>5, VolgordeDelen DEF LeesInv

-----------------------------------------------------------------------------
(* The trajecten that are planned for an incident *)

LEMMA KansenEindig ==
  ASSUME NEW b \in Berichten
  PROVE  /\ IsFiniteSet(Kansen(b)) /\ Cardinality(Kansen(b)) \in Nat /\ Cardinality(Kansen(b)) <= 2
         /\ IsFiniteSet(Kansen(b)') /\ Cardinality(Kansen(b)') \in Nat /\ Cardinality(Kansen(b)') <= 2
<1> DEFINE K == {<<b, 1>>} \cup {<<b, 2>>}
<1>1. IsFiniteSet(K) /\ Cardinality(K) <= 2
  <2>1. IsFiniteSet({<<b, 1>>}) /\ Cardinality({<<b, 1>>}) = 1
    BY FS_Singleton
  <2>2. /\ IsFiniteSet(K)
        /\ Cardinality(K) = IF <<b, 2>> \in {<<b, 1>>} THEN Cardinality({<<b, 1>>}) ELSE Cardinality({<<b, 1>>}) + 1
    BY <2>1, FS_AddElement
  <2> HIDE DEF K
  <2> QED BY <2>1, <2>2
<1>2. Cardinality(K) \in Nat
  BY <1>1, FS_CardinalityType
<1>3. \A d \in Leveringen : Bericht(d) = b => d \in K
  <2> SUFFICES ASSUME NEW d \in Leveringen, Bericht(d) = b PROVE d \in K
    OBVIOUS
  <2>1. d = <<b, d[2]>> /\ d[2] \in 1 .. Kopieen[b] /\ Kopieen[b] \in 1 .. 2
    BY LeveringIsKopie, BerichtenAssumption
  <2>2. d[2] = 1 \/ d[2] = 2
    BY <2>1
  <2> QED BY <2>1, <2>2
<1>4. Kansen(b) \in SUBSET K /\ Kansen(b)' \in SUBSET K
  BY <1>3 DEF Kansen
<1> HIDE DEF K
<1>5. \A T \in SUBSET K : IsFiniteSet(T) /\ Cardinality(T) <= Cardinality(K)
  BY <1>1, FS_Subset
<1>6. /\ IsFiniteSet(Kansen(b)) /\ Cardinality(Kansen(b)) <= Cardinality(K)
      /\ IsFiniteSet(Kansen(b)') /\ Cardinality(Kansen(b)') <= Cardinality(K)
  BY <1>4, <1>5
<1>7. Cardinality(Kansen(b)) \in Nat /\ Cardinality(Kansen(b)') \in Nat
  BY <1>6, FS_CardinalityType
<1> QED BY <1>1, <1>2, <1>6, <1>7

\* A step that plans nothing.
LEMMA PlanVerder ==
  ASSUME PlanInv, LeesInv, fouten \in Nat, fouten' = fouten, diagnoses' = diagnoses,
         NEW d \in Leveringen, NEW naar, Stuur(d, naar),
         naar \in {"onderweg", "gecontroleerd"} => levering[d] \in {"onderweg", "gecontroleerd"},
         ~overlap' => ~overlap, verwerkt \subseteq verwerkt',
         levering[d] = "toegepast" => Bericht(d) \in verwerkt',
         \/ toegepast' = toegepast
         \/ toegepast' = toegepast \cup {Bericht(d)} /\ naar = "toegepast" /\ Bericht(d) \notin Zwaar
  PROVE  PlanInv'
<1>1. levering'[d] = naar /\ \A e \in Leveringen \ {d} : levering'[e] = levering[e]
  BY DEF Stuur, LeesInv, LeveringInv, LeveringTypeOK
<1> SUFFICES ASSUME NEW b \in Berichten
             PROVE  /\ diagnoses'[b] + Cardinality(Kansen(b)') <= 2 * (fouten' + 1)
                    /\ b \in toegepast' \cap Zwaar => diagnoses'[b] >= 1
                    /\ fouten' = 0 /\ b \in toegepast' \ verwerkt' =>
                         \E e \in Leveringen : Bericht(e) = b /\ levering'[e] = "toegepast"
                    /\ fouten' = 0 /\ ~overlap' => diagnoses'[b] <= (IF b \in toegepast' THEN 1 ELSE 0)
  BY DEF PlanInv, Kansen
<1>2. /\ diagnoses[b] + Cardinality(Kansen(b)) <= 2 * (fouten + 1)
      /\ b \in toegepast \cap Zwaar => diagnoses[b] >= 1
      /\ fouten = 0 /\ b \in toegepast \ verwerkt =>
           \E e \in Leveringen : Bericht(e) = b /\ levering[e] = "toegepast"
      /\ fouten = 0 /\ ~overlap => diagnoses[b] <= (IF b \in toegepast THEN 1 ELSE 0)
  BY DEF PlanInv
<1>3. Cardinality(Kansen(b)') <= Cardinality(Kansen(b))
  <2>1. Kansen(b)' \in SUBSET Kansen(b)
    BY <1>1 DEF Kansen
  <2> QED BY <2>1, KansenEindig, FS_Subset
<1>4. diagnoses[b] \in Nat
  BY DEF LeesInv, LeesTypeOK
<1>5. diagnoses'[b] + Cardinality(Kansen(b)') <= 2 * (fouten' + 1)
  BY <1>2, <1>3, <1>4, KansenEindig
<1>6. b \in toegepast' \cap Zwaar => diagnoses'[b] >= 1
  BY <1>2
<1>7. ASSUME fouten' = 0, b \in toegepast' \ verwerkt'
      PROVE  \E e \in Leveringen : Bericht(e) = b /\ levering'[e] = "toegepast"
  <2>1. CASE b \in toegepast
    <3>1. PICK e \in Leveringen : Bericht(e) = b /\ levering[e] = "toegepast"
      BY <1>2, <1>7, <2>1
    <3>2. e # d
      BY <1>7, <3>1
    <3> QED BY <1>1, <3>1, <3>2
  <2>2. CASE b \notin toegepast
    <3>1. b = Bericht(d) /\ naar = "toegepast"
      BY <1>7, <2>2
    <3> QED BY <1>1, <3>1
  <2> QED BY <2>1, <2>2
<1>8. fouten' = 0 /\ ~overlap' => diagnoses'[b] <= (IF b \in toegepast' THEN 1 ELSE 0)
  <2>1. b \in toegepast => b \in toegepast'
    OBVIOUS
  <2> QED BY <1>2, <1>4, <2>1
<1> QED BY <1>5, <1>6, <1>7, <1>8

\* A traject is planned: the handler that does it will not do it again, and without overlap
\* or fault no handler did it before.
LEMMA PlanHoudt ==
  ASSUME PlanInv, LeesInv, fouten \in Nat, fouten' = fouten, NEW d \in Leveringen, PlanTraject(d)
  PROVE  PlanInv'
<1> DEFINE z == Bericht(d)
<1>1. /\ levering[d] = "gecontroleerd" /\ Soort[z] = "incident" /\ Stuur(d, "toegepast")
      /\ toegepast' = toegepast \cup {z} /\ verwerkt' = verwerkt /\ overlap' = overlap
      /\ diagnoses' = IF z \in Zwaar THEN [diagnoses EXCEPT ![z] = @ + 1] ELSE diagnoses
  BY DEF PlanTraject, PastToe
<1>2. levering'[d] = "toegepast" /\ \A e \in Leveringen \ {d} : levering'[e] = levering[e]
  BY <1>1 DEF Stuur, LeesInv, LeveringInv, LeveringTypeOK
<1>3. CASE z \notin Zwaar
  BY <1>1, <1>3, PlanVerder
<1>4. CASE z \in Zwaar
  <2>1. /\ diagnoses \in [Berichten -> Nat] /\ z \in Berichten
    BY LeveringIsKopie DEF LeesInv, LeesTypeOK
  <2>2. /\ diagnoses'[z] = diagnoses[z] + 1 /\ diagnoses[z] \in Nat
        /\ \A b \in Berichten \ {z} : diagnoses'[b] = diagnoses[b]
    <3> HIDE DEF z
    <3> QED BY <1>1, <1>4, <2>1
  <2> SUFFICES ASSUME NEW b \in Berichten
               PROVE  /\ diagnoses'[b] + Cardinality(Kansen(b)') <= 2 * (fouten' + 1)
                      /\ b \in toegepast' \cap Zwaar => diagnoses'[b] >= 1
                      /\ fouten' = 0 /\ b \in toegepast' \ verwerkt' =>
                           \E e \in Leveringen : Bericht(e) = b /\ levering'[e] = "toegepast"
                      /\ fouten' = 0 /\ ~overlap' => diagnoses'[b] <= (IF b \in toegepast' THEN 1 ELSE 0)
    BY DEF PlanInv, Kansen
  <2>3. /\ diagnoses[b] + Cardinality(Kansen(b)) <= 2 * (fouten + 1)
        /\ b \in toegepast \cap Zwaar => diagnoses[b] >= 1
        /\ fouten = 0 /\ b \in toegepast \ verwerkt =>
             \E e \in Leveringen : Bericht(e) = b /\ levering[e] = "toegepast"
        /\ fouten = 0 /\ ~overlap => diagnoses[b] <= (IF b \in toegepast THEN 1 ELSE 0)
    BY DEF PlanInv
  <2>4. CASE b # z
    <3>1. diagnoses'[b] = diagnoses[b]
      BY <2>2, <2>4
    <3>2. Kansen(b)' = Kansen(b)
      BY <1>2, <2>4 DEF Kansen
    <3>3. fouten' = 0 /\ b \in toegepast' \ verwerkt' =>
            \E e \in Leveringen : Bericht(e) = b /\ levering'[e] = "toegepast"
      BY <1>1, <1>2, <2>3, <2>4
    <3>4. b \in toegepast' <=> b \in toegepast
      BY <1>1, <2>4
    <3> QED BY <1>1, <2>3, <3>1, <3>2, <3>3, <3>4
  <2>5. CASE b = z
    <3>1. diagnoses'[b] = diagnoses[b] + 1 /\ diagnoses[b] \in Nat
      BY <2>2, <2>5
    <3>2. Cardinality(Kansen(b)') = Cardinality(Kansen(b)) - 1
      <4>1. d \in Kansen(b)
        BY <1>1, <2>5 DEF Kansen
      <4>2. Kansen(b)' = Kansen(b) \ {d}
        BY <1>2 DEF Kansen
      <4>3. IsFiniteSet(Kansen(b))
        BY KansenEindig
      <4> QED BY <4>1, <4>2, <4>3, FS_RemoveElement
    <3>3. diagnoses'[b] + Cardinality(Kansen(b)') <= 2 * (fouten' + 1)
      BY <2>3, <3>1, <3>2, KansenEindig
    <3>4. \E e \in Leveringen : Bericht(e) = b /\ levering'[e] = "toegepast"
      BY <1>2, <2>5
    <3>5. ASSUME fouten' = 0, ~overlap' PROVE diagnoses[b] = 0
      <4>1. b \notin verwerkt
        BY <1>1, <2>5, <3>5 DEF LeesInv, LeveringInv, VolgordeKlopt, Lopend
      <4>2. b \notin toegepast
        <5> SUFFICES ASSUME b \in toegepast PROVE FALSE
          OBVIOUS
        <5>1. PICK e \in Leveringen : Bericht(e) = b /\ levering[e] = "toegepast"
          BY <2>3, <3>5, <4>1
        <5>2. e = d
          BY <1>1, <2>5, <3>5, <5>1 DEF LeesInv, LeveringInv, VolgordeKlopt, Lopend
        <5> QED BY <1>1, <5>1, <5>2
      <4> QED BY <1>1, <2>3, <3>1, <3>5, <4>2
    <3>6. b \in toegepast'
      BY <1>1, <2>5
    <3> QED BY <3>1, <3>3, <3>4, <3>5, <3>6
  <2> QED BY <2>4, <2>5
<1> QED BY <1>3, <1>4

\* A fault can bring back what was dispatched: two copies at most.
LEMMA PlanFout ==
  ASSUME PlanInv, LeesInv, fouten \in Nat, fouten' = fouten + 1, diagnoses' = diagnoses, toegepast' = toegepast
  PROVE  PlanInv'
<1> SUFFICES ASSUME NEW b \in Berichten
             PROVE  /\ diagnoses'[b] + Cardinality(Kansen(b)') <= 2 * (fouten' + 1)
                    /\ b \in toegepast' \cap Zwaar => diagnoses'[b] >= 1
                    /\ fouten' # 0
  BY DEF PlanInv, Kansen
<1>1. /\ diagnoses[b] + Cardinality(Kansen(b)) <= 2 * (fouten + 1) /\ diagnoses[b] \in Nat
      /\ b \in toegepast \cap Zwaar => diagnoses[b] >= 1
  BY DEF PlanInv, LeesInv, LeesTypeOK
<1> QED BY <1>1, KansenEindig

LEMMA PlanStil ==
  ASSUME PlanInv, UNCHANGED leveringVars, UNCHANGED leesmodel, fouten' = fouten
  PROVE  PlanInv'
BY DEF PlanInv, Kansen, leveringVars, leesmodel

BerichtInv == LeesInv /\ PlanInv

\* Every step of a handler.
LEMMA BehandelHoudt ==
  ASSUME BerichtInv, fouten \in Nat, fouten' = fouten, NEW d \in Leveringen, Behandel(d)
  PROVE  BerichtInv'
<1>1. LeesInv /\ PlanInv /\ LeveringInv /\ LeveringTypeOK
  BY DEF BerichtInv, LeesInv, LeveringInv
<1>2. CASE Bezorg(d)
  <2>1. UNCHANGED leesmodel /\ diagnoses' = diagnoses
    BY <1>2 DEF Bezorg, leesmodel
  <2>2. CASE Verwerk(d)
    <3>1. LeveringInv' /\ toegepast' = toegepast /\ (~overlap' => ~overlap) /\ (GeenVerworpen' => GeenVerworpen)
      BY <1>1, <2>2, VerwerkHoudt
    <3>2. LeesInv'
      BY <1>1, <2>1, <3>1, LeesStil
    <3>3. PICK naar \in {"bevestigd", "gecontroleerd"} :
            levering[d] = "onderweg" /\ Stuur(d, naar) /\ verwerkt' = verwerkt
      BY <2>2 DEF Verwerk, Ontvang
    <3>4. PlanInv'
      BY <1>1, <2>1, <3>1, <3>3, PlanVerder
    <3> QED BY <3>2, <3>4 DEF BerichtInv
  <2>3. CASE BewaarVerwerkt(d)
    <3>1. LeveringInv' /\ toegepast' = toegepast /\ overlap' = overlap /\ (GeenVerworpen' => GeenVerworpen)
      BY <1>1, <2>3, MarkeerHoudt
    <3>2. LeesInv'
      BY <1>1, <2>1, <3>1, LeesStil
    <3>3. PICK naar \in {"gemarkeerd", "verworpen"} :
            Stuur(d, naar) /\ verwerkt' = verwerkt \cup {Bericht(d)}
      BY <2>3 DEF BewaarVerwerkt
    <3>4. PlanInv'
      BY <1>1, <2>1, <3>1, <3>3, PlanVerder
    <3> QED BY <3>2, <3>4 DEF BerichtInv
  <2>4. CASE Ack(d)
    <3>1. LeveringInv' /\ toegepast' = toegepast /\ overlap' = overlap /\ (GeenVerworpen' => GeenVerworpen)
      BY <1>1, <2>4, AckHoudt
    <3>2. LeesInv'
      BY <1>1, <2>1, <3>1, LeesStil
    <3>3. levering[d] = "gemarkeerd" /\ Stuur(d, "bevestigd") /\ verwerkt' = verwerkt
      BY <2>4 DEF Ack, GaVerder
    <3>4. PlanInv'
      BY <1>1, <2>1, <3>1, <3>3, PlanVerder
    <3> QED BY <3>2, <3>4 DEF BerichtInv
  <2> QED BY <1>2, <2>2, <2>3, <2>4 DEF Bezorg
<1>3. ASSUME NEW soort \in {"geregistreerd", "buitengebruik", "onderhoudseisen", "gegund", "afgerond"},
             PastToe(d, soort, "toegepast"), diagnoses' = diagnoses
      PROVE  PlanInv'
  <2>1. /\ levering[d] = "gecontroleerd" /\ Soort[Bericht(d)] = soort /\ Stuur(d, "toegepast")
        /\ toegepast' = toegepast \cup {Bericht(d)} /\ verwerkt' = verwerkt /\ overlap' = overlap
    BY <1>3 DEF PastToe
  <2>2. Bericht(d) \notin Zwaar
    BY <2>1, OnderhoudAssumption
  <2> QED BY <1>1, <1>3, <2>1, <2>2, PlanVerder
<1>4. CASE UpsertKunstwerk(d) \/ MarkeerBuitenGebruik(d)
  <2>1. LeesInv'
    BY <1>1, <1>4, KunstwerkVolgt
  <2>2. PlanInv'
    BY <1>3, <1>4 DEF UpsertKunstwerk, MarkeerBuitenGebruik
  <2> QED BY <2>1, <2>2 DEF BerichtInv
<1>5. CASE BewaarEisen(d)
  <2>1. LeesInv'
    BY <1>1, <1>5, BewaarEisenVolgt
  <2>2. PlanInv'
    BY <1>3, <1>5 DEF BewaarEisen
  <2> QED BY <2>1, <2>2 DEF BerichtInv
<1>6. CASE UpsertGegund(d) \/ MarkeerAfgerond(d)
  <2>1. LeesInv'
    BY <1>1, <1>6, ContractHoudt
  <2>2. PlanInv'
    BY <1>3, <1>6 DEF UpsertGegund, MarkeerAfgerond
  <2> QED BY <2>1, <2>2 DEF BerichtInv
<1>7. CASE PlanTraject(d)
  <2>1. LeesInv'
    BY <1>1, <1>7, PlanLeest
  <2>2. PlanInv'
    BY <1>1, <1>7, PlanHoudt
  <2> QED BY <2>1, <2>2 DEF BerichtInv
<1> QED BY <1>2, <1>4, <1>5, <1>6, <1>7 DEF Behandel

\* Requests leave the read models alone, and a fault touches at most the deliveries.
LEMMA BerichtStil ==
  ASSUME BerichtInv, UNCHANGED leveringVars, UNCHANGED leesmodel, fouten' = fouten
  PROVE  BerichtInv'
<1>1. LeesInv /\ PlanInv /\ LeveringInv
  BY DEF BerichtInv, LeesInv
<1>2. /\ LeveringInv' /\ toegepast' = toegepast /\ overlap' = overlap /\ (GeenVerworpen' => GeenVerworpen)
  BY <1>1, LeveringStil
<1>3. LeesInv'
  BY <1>1, <1>2, LeesStil
<1>4. PlanInv'
  BY <1>1, PlanStil
<1> QED BY <1>3, <1>4 DEF BerichtInv

LEMMA BerichtFout ==
  ASSUME BerichtInv, fouten \in Nat, fouten' = fouten + 1, UNCHANGED leesmodel,
         \/ UNCHANGED leveringVars
         \/ LeverOpnieuw
         \/ \E d \in Leveringen : Nack(d)
  PROVE  BerichtInv'
<1>1. LeesInv /\ PlanInv /\ LeveringInv
  BY DEF BerichtInv, LeesInv
<1>2. /\ LeveringInv' /\ toegepast' = toegepast /\ overlap' = overlap /\ (GeenVerworpen' => GeenVerworpen)
  <2>1. CASE UNCHANGED leveringVars
    BY <1>1, <2>1, LeveringStil
  <2>2. CASE LeverOpnieuw
    BY <1>1, <2>2, LeverOpnieuwHoudt
  <2>3. CASE \E d \in Leveringen : Nack(d)
    BY <1>1, <2>3, NackHoudt
  <2> QED BY <2>1, <2>2, <2>3
<1>3. LeesInv'
  BY <1>1, <1>2, LeesStil
<1>4. PlanInv'
  <2>1. diagnoses' = diagnoses
    BY DEF leesmodel
  <2> QED BY <1>1, <1>2, <2>1, PlanFout
<1> QED BY <1>3, <1>4 DEF BerichtInv

-----------------------------------------------------------------------------
(* Every step keeps the invariant *)

Inv == BerichtInv /\ VerzoekInv /\ fouten \in 0 .. MaxFouten

LEMMA Begin == Init => Inv
<1> SUFFICES ASSUME Init PROVE Inv
  OBVIOUS
<1>1. /\ verkeer \subseteq Verzoeken \cup Leveringen
      /\ \A m, n \in verkeer \cap (Meldingen \cup Diagnoses) : m = n
      /\ \A d \in verkeer \cap Leveringen : <<Bericht(d), 1>> \in verkeer
      /\ LeveringInit(verkeer)
      /\ traject \in Beginstanden
      /\ storing \in CASE traject.status = "Ontbreekt" -> {"Ontbreekt"}
                       [] traject.status = "Afgerond"  -> {"Ontbreekt", "Afgehandeld"}
                       [] OTHER -> {"Ontbreekt", "InBehandeling"}
      /\ traject.status # "Ontbreekt" => verkeer \cap (Meldingen \cup Diagnoses) = {}
      /\ schemas = {} /\ diagnoses = [b \in Berichten |-> 0]
      /\ inGebruik \in {"onbekend", "ja"} /\ eisen = Geen /\ contract \in {"onbekend", "actief"}
      /\ pc = [r \in Verzoeken |-> "nieuw"]
      /\ kopie = [r \in Trajectverzoeken |-> Gepland] /\ gelezen = [r \in Trajectverzoeken |-> Gepland]
      /\ aanvaard = {} /\ uitgegeven = {} /\ fouten = 0 /\ samenloop = FALSE
  BY DEF Init
<1>2. toegepast = {} /\ verwerkt = {}
  BY <1>1 DEF LeveringInit
<1>3. LeesInv
  <2>1. LeveringInv
    BY <1>1, LeveringBegin
  <2>2. LeesTypeOK
    BY <1>1 DEF LeesTypeOK
  <2>3. VolgtDeVolgorde
    BY <1>2 DEF VolgtDeVolgorde, Laatste
  <2> QED BY <2>1, <2>2, <2>3 DEF LeesInv
<1>4. PlanInv
  <2> SUFFICES ASSUME NEW b \in Berichten
               PROVE  /\ diagnoses[b] + Cardinality(Kansen(b)) <= 2 * (fouten + 1)
                      /\ b \in toegepast \cap Zwaar => diagnoses[b] >= 1
                      /\ fouten = 0 /\ b \in toegepast \ verwerkt =>
                           \E d \in Leveringen : Bericht(d) = b /\ levering[d] = "toegepast"
                      /\ fouten = 0 /\ ~overlap => diagnoses[b] <= (IF b \in toegepast THEN 1 ELSE 0)
    BY DEF PlanInv
  <2>1. diagnoses[b] = 0
    BY <1>1
  <2> QED BY <1>1, <1>2, <2>1, KansenEindig
<1>5. /\ \A r \in Verzoeken : pc[r] = "nieuw"
      /\ Trajectverzoeken \subseteq Verzoeken /\ Meldingen \subseteq Verzoeken
      /\ InFase = {}
  <2>1. \A r \in Verzoeken : pc[r] = "nieuw"
    BY <1>1
  <2>2. Trajectverzoeken \subseteq Verzoeken /\ Meldingen \subseteq Verzoeken
    BY DEF Verzoeken
  <2>3. "nieuw" \notin Fase
    BY DEF Fase, Gelezen
  <2> QED BY <2>1, <2>2, <2>3 DEF InFase
<1>6. /\ storing \in {"Ontbreekt", "InBehandeling", "Afgehandeld"}
      /\ storing = "InBehandeling" => traject.status # "Ontbreekt" /\ traject.status # "Afgerond"
      /\ storing = "Afgehandeld" => traject.status = "Afgerond"
  <2>1. CASE traject.status = "Ontbreekt"
    BY <1>1, <2>1
  <2>2. CASE traject.status = "Afgerond"
    BY <1>1, <2>2
  <2>3. CASE traject.status # "Ontbreekt" /\ traject.status # "Afgerond"
    BY <1>1, <2>3
  <2> QED BY <2>1, <2>2, <2>3
<1>7. RijInv
  <2>1. MakerInv
    BY <1>1, <1>5 DEF MakerInv
  <2>2. AanvaardInv
    BY <1>1, <1>5 DEF AanvaardInv
  <2>3. DossierInv
    <3>1. Facturen \cap {Eerder} = {}
      BY OnderhoudAssumption DEF Verzoeken, Trajectverzoeken
    <3> QED BY <1>1, <1>6, <3>1, BeginstandenType DEF DossierInv
  <2>4. KopieInv
    BY <1>5 DEF KopieInv
  <2>5. GelezenInv
    BY <1>5 DEF GelezenInv
  <2> QED BY <2>1, <2>2, <2>3, <2>4, <2>5 DEF RijInv
<1>8. AfloopInv
  <2>1. Afrondingen \subseteq Verzoeken
    BY DEF Verzoeken, Trajectverzoeken
  <2>2. AfrondingInv
    BY <1>1, <1>5, <1>6, <2>1 DEF AfrondingInv, KentAfgerond
  <2>3. AlleenInv
    BY <1>1, <1>5, <1>6, <2>1 DEF AlleenInv
  <2>4. UitgegevenInv
    BY <1>1 DEF UitgegevenInv
  <2> QED BY <2>2, <2>3, <2>4 DEF AfloopInv
<1>9. VerzoekTypeOK
  <2>1. traject \in Trajecten /\ Gepland \in Trajecten
    BY <1>1, BeginstandenType, GeplandType
  <2> QED BY <1>1, <1>6, <2>1 DEF VerzoekTypeOK
<1>10. fouten \in 0 .. MaxFouten
  BY <1>1, OnderhoudAssumption
<1> QED BY <1>3, <1>4, <1>7, <1>8, <1>9, <1>10 DEF Inv, BerichtInv, VerzoekInv

LEMMA Stappen == Inv /\ [Next]_vars => Inv'
<1> SUFFICES ASSUME Inv, [Next]_vars PROVE Inv'
  OBVIOUS
<1>1. /\ BerichtInv /\ VerzoekInv /\ fouten \in 0 .. MaxFouten /\ MaxFouten \in Nat /\ fouten \in Nat
      /\ pc \in [Verzoeken -> {"nieuw"} \cup Bezig \cup Eind]
  BY OnderhoudAssumption DEF Inv, VerzoekInv, VerzoekTypeOK
<1>2. CASE \E x \in verkeer : Stap(x)
  <2>1. PICK x \in verkeer : Stap(x)
    BY <1>2
  <2>2. verkeer' = verkeer /\ fouten' = fouten
    BY <2>1 DEF Stap
  <2>3. CASE x \in Verzoeken /\ Verzoek(x) /\ UNCHANGED <<leveringVars, leesmodel>>
    <3>1. BerichtInv'
      BY <1>1, <2>2, <2>3, BerichtStil
    <3>2. VerzoekInv'
      BY <1>1, <2>2, <2>3, VerzoekHoudt
    <3> QED BY <1>1, <2>2, <3>1, <3>2 DEF Inv
  <2>4. CASE x \in Leveringen /\ Behandel(x) /\ UNCHANGED verzoekVars
    <3>1. BerichtInv'
      BY <1>1, <2>2, <2>4, BehandelHoudt
    <3>2. VerzoekInv'
      BY <1>1, <2>2, <2>4, VerzoekStil
    <3> QED BY <1>1, <2>2, <3>1, <3>2 DEF Inv
  <2> QED BY <2>1, <2>3, <2>4 DEF Stap
<1>3. ASSUME Fout PROVE fouten' = fouten + 1 /\ fouten' \in 0 .. MaxFouten /\ verkeer' = verkeer
  BY <1>1, <1>3 DEF Fout
<1>4. CASE BreekVerzoek
  <2>1. PICK r \in verkeer \cap Verzoeken : pc[r] \in Bezig /\ NaarStap(r, "mislukt")
    BY <1>4 DEF BreekVerzoek
  <2>2. /\ Fout /\ UNCHANGED leveringVars /\ UNCHANGED leesmodel
        /\ UNCHANGED <<traject, storing, schemas, ongelezen, aanvaard, uitgegeven>>
    BY <1>4 DEF BreekVerzoek
  <2>3. BerichtInv'
    BY <1>1, <1>3, <2>2, BerichtFout
  <2>4. pc' = [q \in Verzoeken |-> IF q \in {r} THEN "mislukt" ELSE pc[q]]
    BY <1>1, <2>1 DEF NaarStap
  <2>5. {r} \in SUBSET Verzoeken /\ \A q \in {r} : pc[q] \in Bezig
    BY <2>1
  <2>6. /\ traject' = traject /\ storing' = storing /\ schemas' = schemas /\ kopie' = kopie
        /\ gelezen' = gelezen /\ aanvaard' = aanvaard /\ uitgegeven' = uitgegeven
        /\ samenloop' = samenloop
    BY <2>2 DEF ongelezen
  <2>7. VerzoekInv'
    BY <1>1, <1>3, <2>2, <2>4, <2>5, <2>6, VerzoekBreekt
  <2> QED BY <1>3, <2>2, <2>3, <2>7 DEF Inv
<1>5. CASE WeigerBericht
  <2>1. PICK d \in Leveringen : Fout /\ Nack(d) /\ UNCHANGED leesmodel /\ UNCHANGED verzoekVars
    BY <1>5 DEF WeigerBericht
  <2>2. BerichtInv'
    BY <1>1, <1>3, <2>1, BerichtFout
  <2>3. VerzoekInv'
    BY <1>1, <1>3, <2>1, VerzoekStil
  <2> QED BY <1>3, <2>1, <2>2, <2>3 DEF Inv
<1>6. CASE Herstart
  <2> DEFINE R == {r \in Verzoeken : pc[r] \in Bezig}
  <2>1. /\ Fout /\ LeverOpnieuw /\ UNCHANGED leesmodel
        /\ pc' = [r \in Verzoeken |-> IF pc[r] \in Bezig THEN "mislukt" ELSE pc[r]]
        /\ UNCHANGED <<traject, storing, schemas, ongelezen, aanvaard, uitgegeven>>
    BY <1>6 DEF Herstart
  <2>2. BerichtInv'
    BY <1>1, <1>3, <2>1, BerichtFout
  <2>3. pc' = [q \in Verzoeken |-> IF q \in R THEN "mislukt" ELSE pc[q]]
    BY <2>1
  <2>4. R \in SUBSET Verzoeken /\ \A q \in R : pc[q] \in Bezig
    OBVIOUS
  <2>5. /\ traject' = traject /\ storing' = storing /\ schemas' = schemas /\ kopie' = kopie
        /\ gelezen' = gelezen /\ aanvaard' = aanvaard /\ uitgegeven' = uitgegeven
        /\ samenloop' = samenloop
    BY <2>1 DEF ongelezen
  <2> HIDE DEF R
  <2>6. VerzoekInv'
    BY <1>1, <1>3, <2>1, <2>3, <2>4, <2>5, VerzoekBreekt
  <2> QED BY <1>3, <2>1, <2>2, <2>6 DEF Inv
<1>7. CASE UNCHANGED vars
  <2>1. UNCHANGED leveringVars /\ UNCHANGED leesmodel /\ UNCHANGED verzoekVars /\ verkeer' = verkeer /\ fouten' = fouten
    BY <1>7 DEF vars
  <2>2. BerichtInv'
    BY <1>1, <2>1, BerichtStil
  <2>3. VerzoekInv'
    BY <1>1, <2>1, VerzoekStil
  <2> QED BY <1>1, <2>1, <2>2, <2>3 DEF Inv
<1> QED BY <1>2, <1>4, <1>5, <1>6, <1>7 DEF Next

LEMMA Altijd == Spec => []Inv
BY Begin, Stappen, PTL DEF Spec

-----------------------------------------------------------------------------

\* The tables, the read models and the requests have values of their types; no incident
\* plans more than two trajecten for every run of the process.
THEOREM TypeCorrect == Spec => []TypeOK
<1>1. Inv => TypeOK
  <2> SUFFICES ASSUME Inv PROVE TypeOK
    OBVIOUS
  <2>1. LeveringTypeOK /\ LeesTypeOK /\ VerzoekTypeOK /\ fouten \in 0 .. MaxFouten /\ PlanInv
    BY DEF Inv, BerichtInv, LeesInv, LeveringInv, VerzoekInv
  <2>2. diagnoses \in [Berichten -> 0 .. 2 * (MaxFouten + 1)]
    <3>1. ASSUME NEW b \in Berichten PROVE diagnoses[b] \in 0 .. 2 * (MaxFouten + 1)
      <4>1. diagnoses[b] + Cardinality(Kansen(b)) <= 2 * (fouten + 1) /\ diagnoses[b] \in Nat
        BY <2>1 DEF PlanInv, LeesTypeOK
      <4> QED BY <2>1, <4>1, KansenEindig, OnderhoudAssumption
    <3> QED BY <2>1, <3>1 DEF LeesTypeOK
  <2> QED BY <2>1, <2>2 DEF TypeOK, LeesTypeOK, VerzoekTypeOK
<1> QED BY Altijd, <1>1, PTL

\* Whatever requests overlap, crash or fail, the rows fit together, and no inspectie or
\* factuur that was accepted is lost.
THEOREM DossierBlijftKloppen == Spec => []DossierKlopt
<1>1. Inv => DossierKlopt
  <2> SUFFICES ASSUME Inv PROVE DossierKlopt
    OBVIOUS
  <2>1. DossierInv /\ traject \in Trajecten
    BY DEF Inv, VerzoekInv, RijInv, VerzoekTypeOK
  <2>2. DOMAIN traject.facturen = Facturen \cup {Eerder}
    BY <2>1 DEF Trajecten
  <2> QED BY <2>1, <2>2 DEF DossierInv, DossierKlopt, InGang, Goed
<1> QED BY Altijd, <1>1, PTL

\* A storing stays open beside its afgerond traject only for a reason that AfrondingVerklaard
\* names, and without overlap a storing is Afgehandeld only with its traject.
THEOREM AfrondingIsVerklaard == Spec => []AfrondingVerklaard
<1>1. Inv => AfrondingVerklaard
  <2> SUFFICES ASSUME Inv PROVE AfrondingVerklaard
    OBVIOUS
  <2>1. AfrondingInv /\ AlleenInv /\ UitgegevenInv
    BY DEF Inv, VerzoekInv, AfloopInv
  <2>2. /\ traject.status = "Afgerond" /\ storing = "InBehandeling" =>
             \/ \E r \in aanvaard \cap Afrondingen : pc[r] \in {"bewaard", "storing", "mislukt"}
             \/ aanvaard \cap Meldingen # {}
    BY <2>1 DEF AfrondingInv, Onderweg
  <2>3. uitgegeven \cap Afrondingen # {} /\ aanvaard \cap Meldingen = {} => storing # "InBehandeling"
    BY <2>1 DEF AfrondingInv, UitgegevenInv
  <2>4. storing = "Afgehandeld" /\ ~samenloop => traject.status = "Afgerond"
    BY <2>1 DEF AlleenInv
  <2> QED BY <2>2, <2>3, <2>4 DEF AfrondingVerklaard
<1> QED BY Altijd, <1>1, PTL

\* However often an incident is published, it plans one traject as long as no handlers
\* overlapped and nothing failed; one that was handled has planned one at least.
THEOREM EenTrajectBijEenIncident == Spec => []EenTrajectPerIncident
<1>1. Inv => EenTrajectPerIncident
  <2> SUFFICES ASSUME Inv, NEW b \in Zwaar
               PROVE  /\ fouten = 0 /\ ~overlap => diagnoses[b] <= 1
                      /\ (\E d \in Leveringen : Bericht(d) = b /\ levering[d] = "bevestigd") => diagnoses[b] >= 1
    BY DEF EenTrajectPerIncident
  <2>1. PlanInv /\ MarkeringKlopt /\ b \in Berichten /\ diagnoses \in [Berichten -> Nat]
    BY OnderhoudAssumption DEF Inv, BerichtInv, LeesInv, LeesTypeOK, LeveringInv
  <2>2. /\ b \in toegepast \cap Zwaar => diagnoses[b] >= 1
        /\ fouten = 0 /\ ~overlap => diagnoses[b] <= (IF b \in toegepast THEN 1 ELSE 0)
        /\ diagnoses[b] \in Nat
    BY <2>1 DEF PlanInv
  <2>3. ASSUME NEW d \in Leveringen, Bericht(d) = b, levering[d] = "bevestigd" PROVE b \in toegepast
    BY <2>1, <2>3 DEF MarkeringKlopt
  <2> QED BY <2>2, <2>3
<1> QED BY Altijd, <1>1, PTL

\* As long as no two handlers of a queue overlapped, the read models show the last message
\* in the order of the exchange.
THEOREM LeesmodellenVolgen == Spec => []VolgtDeVolgorde
<1>1. Inv => VolgtDeVolgorde
  BY DEF Inv, BerichtInv, LeesInv
<1> QED BY Altijd, <1>1, PTL

\* A step changes the rows of the traject by making it, or by a save.
LEMMA WieSchrijft ==
  ASSUME [Next]_vars
  PROVE  \/ traject' = traject
         \/ \E r \in Verzoeken : BewaarTraject(r) \/ StelDiagnose(r)
         \/ \E r \in Trajectverzoeken : Schrijf(r)
<1>1. CASE \E x \in verkeer : Stap(x)
  <2>1. PICK x \in verkeer : Stap(x)
    BY <1>1
  <2>2. ASSUME x \in Verzoeken, Verzoek(x)
        PROVE  traject' = traject \/ BewaarTraject(x) \/ StelDiagnose(x) \/ (x \in Trajectverzoeken /\ Schrijf(x))
    <3>1. Publiceer(x) \/ ControleerContract(x) \/ BewaarSchema(x) \/ WijsAf(x) => traject' = traject
      BY DEF Publiceer, ControleerContract, BewaarSchema, WijsAf
    <3>2. WijzigTraject(x) => traject' = traject \/ (x \in Trajectverzoeken /\ Schrijf(x))
      BY <3>1 DEF WijzigTraject, Zoek, Vergelijk, Schrijf
    <3>3. CASE MeldStoring(x)
      BY <3>1, <3>3 DEF MeldStoring, Meld, BewaarStoring
    <3>4. CASE RondOnderhoudAf(x)
      BY <3>1, <3>2, <3>4 DEF RondOnderhoudAf, ZoekStoring, HandelAf
    <3> QED BY <2>2, <3>1, <3>2, <3>3, <3>4 DEF Verzoek, MaakSchema, StartOnderhoud, RegistreerInspectie, OntvangFactuur, KeurFactuurGoed
  <2> QED BY <2>1, <2>2 DEF Stap, verzoekVars
<1>2. CASE BreekVerzoek \/ Herstart
  BY <1>2 DEF BreekVerzoek, Herstart
<1>3. CASE WeigerBericht \/ UNCHANGED vars
  BY <1>3 DEF WeigerBericht, vars, verzoekVars
<1> QED BY <1>1, <1>2, <1>3 DEF Next

\* Whatever overlaps, a traject that has started does not go back to Gepland and keeps its
\* inspecties and facturen: a save whose copy is behind inserts and never deletes.  Without
\* overlap it is not reopened.
THEOREM TrajectGaatVooruit == Spec => TrajectLooptNietTerug
<1> DEFINE vooruit ==
             /\ traject.status \in {"Gestart", "Afgerond"} => traject'.status \in {"Gestart", "Afgerond"}
             /\ traject.inspecties \subseteq traject'.inspecties
             /\ \A f \in DOMAIN traject.facturen : traject.facturen[f] # "geen" => traject'.facturen[f] # "geen"
             /\ traject.status = "Afgerond" /\ ~samenloop' => traject'.status = "Afgerond"
<1>1. ASSUME Inv, [Next]_vars PROVE vooruit
  <2>1. /\ RijInv /\ AfloopInv /\ VerzoekTypeOK
        /\ traject \in Trajecten /\ DOMAIN traject.facturen = Facturen \cup {Eerder}
    BY <1>1 DEF Inv, VerzoekInv, VerzoekTypeOK, Trajecten
  <2>2. CASE traject' = traject
    BY <2>2
  <2>3. ASSUME NEW r \in Verzoeken, BewaarTraject(r) \/ StelDiagnose(r) PROVE vooruit
    <3>1. traject.status = "Ontbreekt"
      BY <2>1, <2>3 DEF BewaarTraject, StelDiagnose, RijInv, MakerInv
    <3>2. traject.inspecties = {} /\ \A f \in Facturen \cup {Eerder} : traject.facturen[f] = "geen"
      BY <2>1, <3>1 DEF RijInv, DossierInv, InGang
    <3> QED BY <2>1, <3>1, <3>2
  <2>4. ASSUME NEW r \in Trajectverzoeken, Schrijf(r) PROVE vooruit
    <3>1. CASE KindOntbreekt(r)
      BY <2>4, <3>1 DEF Schrijf
    <3>2. CASE ~KindOntbreekt(r)
      <4>1. traject' = Samengevoegd(r) /\ samenloop' = samenloop /\ pc[r] = "vergeleken"
        BY <2>4, <3>2 DEF Schrijf
      <4>2. kopie[r] \in Trajecten /\ gelezen[r] \in Trajecten
        BY <2>1 DEF VerzoekTypeOK
      <4>3. /\ traject'.status = IF kopie[r].status # gelezen[r].status THEN kopie[r].status ELSE traject.status
            /\ traject.inspecties \subseteq traject'.inspecties
            /\ \A f \in Facturen \cup {Eerder} : traject.facturen[f] # "geen" => traject'.facturen[f] # "geen"
        BY <2>1, <3>2, <4>1, <4>2, SamengevoegdKlopt
      <4>4. kopie[r].status \in InGang
        BY <2>1, <4>1 DEF RijInv, GelezenInv
      <4>5. ~samenloop /\ traject.status = "Afgerond" => traject'.status = "Afgerond"
        <5>1. r \in InFase
          BY <4>1 DEF InFase, Fase, Gelezen
        <5>2. ~samenloop => gelezen[r].status = traject.status /\ (kopie[r].status = "Gestart" => traject.status # "Afgerond")
          BY <2>1, <4>1, <5>1 DEF AfloopInv, AlleenInv
        <5> QED BY <4>3, <4>4, <5>2 DEF InGang
      <4> QED BY <2>1, <4>1, <4>3, <4>4, <4>5 DEF InGang
    <3> QED BY <3>1, <3>2
  <2> QED BY <1>1, <2>2, <2>3, <2>4, WieSchrijft
<1>2. Inv /\ [Next]_vars => [vooruit]_vars
  BY <1>1
<1> QED BY Altijd, <1>2, PTL DEF Spec, TrajectLooptNietTerug
=============================================================================
