----------------------------- MODULE Beheer_proofs -----------------------------
(***************************************************************************)
(* Proofs about Beheer, for any number of requests, pakketten, rapporten   *)
(* with any entries, and any number of faults.                             *)
(***************************************************************************)
EXTENDS Beheer, FiniteSetTheorems, TLAPS

-----------------------------------------------------------------------------
(* What a step does to the lifecycle and to the consumers: the two halves of *)
(* the state, that only Herstart changes in one step.                      *)

Bezig == Open \cup {"gecommit"}

Breek(r) ==
  /\ pc[r] \in Bezig
  /\ NaarStap(r, "mislukt")
  /\ UNCHANGED <<rij, kopie, gelezen, gepubliceerd, verwacht, samenloop>>

BreekAlles ==
  /\ pc' = [r \in Verzoeken |-> IF pc[r] \in Bezig THEN "mislukt" ELSE pc[r]]
  /\ UNCHANGED <<rij, kopie, gelezen, gepubliceerd, verwacht, samenloop>>

RegisterStap ==
  \/ UNCHANGED registerVars
  \/ \E r \in Verzoeken :
       Lees(r) \/ Herlees(r) \/ Schrijf(r) \/ Voeg(r) \/ Publiceer(r) \/ Breek(r)
  \/ BreekAlles

Weiger(d) ==
  /\ levering[d] \in {"gecontroleerd", "beoordeeld"}
  /\ Naar(d, "verworpen")
  /\ fouten' > 0
  /\ UNCHANGED <<concept, beoordelingen, verwerkt, verbonden, begonnen, teVroeg, vastgesteld>>

Opnieuw ==
  /\ levering' = [d \in Leveringen |-> IF levering[d] \in Lopend THEN "onderweg" ELSE levering[d]]
  /\ verbonden' = Soorten
  /\ UNCHANGED <<concept, beoordelingen, verwerkt, begonnen, teVroeg, vastgesteld>>

RapportStap ==
  \/ UNCHANGED <<rapportVars, vastgesteld>>
  \/ \E p \in Pakketten : StelEisenVast(p) /\ UNCHANGED rapportVars
  \/ \E d \in Leveringen : VerwerkRapport(d) /\ UNCHANGED vastgesteld
  \/ \E d \in Leveringen : Weiger(d)
  \/ verbonden' \subseteq verbonden
     /\ UNCHANGED <<levering, concept, beoordelingen, verwerkt, begonnen, teVroeg, vastgesteld>>
  \/ Opnieuw

\* Every step is one of these on each side, and the faults only grow.
LEMMA Stappen ==
  ASSUME fouten \in 0 .. MaxFouten, [Next]_vars
  PROVE  /\ RegisterStap /\ RapportStap
         /\ verkeer' = verkeer /\ fouten' \in 0 .. MaxFouten /\ fouten' >= fouten
<1>1. CASE UNCHANGED vars
  BY <1>1 DEF vars, RegisterStap, RapportStap
<1>2. ASSUME NEW r \in verkeer \cap Verzoeken, Verzoek(r), UNCHANGED <<vastgesteld, rapportVars>>,
             UNCHANGED <<verkeer, fouten>>
      PROVE  RegisterStap /\ RapportStap
  BY <1>2 DEF RegisterStap, RapportStap, Verzoek, RegistreerKunstwerk, WijzigKunstwerkBasisgegevens,
              StelKunstwerkBuitenGebruik
<1>3. ASSUME NEW p \in verkeer \cap Pakketten, StelEisenVast(p), UNCHANGED <<registerVars, rapportVars>>
      PROVE  RegisterStap /\ RapportStap
  BY <1>3 DEF RegisterStap, RapportStap
<1>4. ASSUME NEW d \in verkeer \cap Leveringen, VerwerkRapport(d), UNCHANGED <<registerVars, vastgesteld>>
      PROVE  RegisterStap /\ RapportStap
  BY <1>4 DEF RegisterStap, RapportStap
<1>5. CASE Stap
  BY <1>2, <1>3, <1>4, <1>5 DEF Stap
<1>6. ASSUME Fout PROVE /\ verkeer' = verkeer /\ vastgesteld' = vastgesteld
                        /\ fouten' \in 0 .. MaxFouten /\ fouten' >= fouten /\ fouten' > 0
  BY <1>6, GrenzenAssumption DEF Fout
<1>7. CASE BreekVerzoek
  BY <1>6, <1>7 DEF BreekVerzoek, RegisterStap, RapportStap, Breek, Bezig, rapportVars
<1>8. CASE WeigerRapport
  BY <1>6, <1>8 DEF WeigerRapport, RegisterStap, RapportStap, Weiger
<1>9. CASE Verbreek
  <2>1. RegisterStap
    BY <1>9 DEF Verbreek, RegisterStap
  <2>2. verbonden' \subseteq verbonden
        /\ UNCHANGED <<levering, concept, beoordelingen, verwerkt, begonnen, teVroeg, vastgesteld>>
    BY <1>6, <1>9 DEF Verbreek
  <2> QED BY <1>6, <1>9, <2>1, <2>2 DEF Verbreek, RapportStap
<1>10. CASE Herstart
  <2>1. verkeer' = verkeer /\ vastgesteld' = vastgesteld /\ fouten' \in 0 .. MaxFouten /\ fouten' >= fouten
    BY <1>6, <1>10, GrenzenAssumption DEF Herstart
  <2>2. BreekAlles
    BY <1>10 DEF Herstart, BreekAlles, Bezig
  <2>3. Opnieuw
    BY <1>10, <2>1 DEF Herstart, Opnieuw
  <2> QED BY <2>1, <2>2, <2>3 DEF RegisterStap, RapportStap
<1> QED BY <1>1, <1>5, <1>6, <1>7, <1>8, <1>9, <1>10, GrenzenAssumption
        DEF Next, Stap, BreekVerzoek, WeigerRapport, Verbreek, vars

-----------------------------------------------------------------------------
(* The lifecycle: types *)

Plaatsen == {"nieuw", "gecommit", "klaar", "afgewezen", "mislukt"} \cup Open

\* A request at work has a copy with a status, a registratie saves without reading again,
\* and what was published is done.
RegisterTypeInv ==
  /\ rij \in Rijen
  /\ pc \in [Verzoeken -> Plaatsen]
  /\ kopie \in [Verzoeken -> Rijen]
  /\ gelezen \in [Verzoeken -> Rijen]
  /\ gepubliceerd \in Seq(Verzoeken \ Wijzigingen)
  /\ IsInjective(gepubliceerd)
  /\ \A i \in DOMAIN gepubliceerd : pc[gepubliceerd[i]] = "klaar"
  /\ \A r \in Verzoeken :
       /\ pc[r] \in Open => kopie[r].status # "Ontbreekt"
       /\ pc[r] = "gecommit" => r \notin Wijzigingen
       /\ pc[r] = "herlezen" => r \notin Registraties

LEMMA RegisterTypeInit == Init => RegisterTypeInv
<1> SUFFICES ASSUME Init PROVE RegisterTypeInv
  OBVIOUS
<1>1. Afwezig \in Rijen
  BY DEF Afwezig, Rijen
<1>2. rij \in Rijen
  BY <1>1 DEF Init, Rijen, Standen
<1> QED BY <1>1, <1>2 DEF Init, RegisterTypeInv, Plaatsen, Open, IsInjective

\* What a request makes of a row is a row, and one with a status if there was one.
LEMMA GewijzigdRij ==
  ASSUME NEW r \in Verzoeken, NEW oud \in Rijen, r \in Registraties \/ oud.status # "Ontbreekt"
  PROVE  Gewijzigd(r, oud) \in Rijen /\ Gewijzigd(r, oud).status # "Ontbreekt"
<1>1. CASE r \in Registraties
  <2>1. Opgave[r].status \in Standen /\ Opgave[r].naam \in Namen
    BY <1>1, VerzoekenAssumption DEF Namen
  <2>2. Gewijzigd(r, oud) = Geregistreerd(r)
    BY <1>1, VerzoekenAssumption DEF Gewijzigd
  <2> QED BY <2>1, <2>2 DEF Geregistreerd, Afwezig, Rijen, Standen
<1>2. CASE r \in Wijzigingen
  <2> DEFINE status == IF Opgave[r].status = Geen THEN oud.status ELSE Opgave[r].status
             naam   == IF Opgave[r].naam = Geen THEN oud.naam ELSE Opgave[r].naam
  <2>1. status \in Standen /\ naam \in Namen \cup {Geen}
    BY <1>2, VerzoekenAssumption DEF Namen, Rijen
  <2>2. Gewijzigd(r, oud) = [oud EXCEPT !.naam = naam, !.status = status]
    BY <1>2, VerzoekenAssumption DEF Gewijzigd
  <2> QED BY <2>1, <2>2 DEF Rijen, Standen
<1>3. CASE r \in Buitenstellingen
  <2>1. Gewijzigd(r, oud) = [oud EXCEPT !.status = "BuitenGebruik", !.reden = r]
    BY <1>3, VerzoekenAssumption DEF Gewijzigd
  <2> QED BY <1>3, <2>1 DEF Rijen, Standen
<1> QED BY <1>1, <1>2, <1>3 DEF Verzoeken

\* The UPDATE of the columns that differ leaves a row, and one with a status if the
\* row and the copy have one.
LEMMA Bijgewerkt ==
  ASSUME NEW oud \in Rijen, NEW mijn \in Rijen, NEW toen \in Rijen,
         NEW nieuw, nieuw = [k \in DOMAIN oud |-> IF mijn[k] # toen[k] THEN mijn[k] ELSE oud[k]]
  PROVE  /\ nieuw \in Rijen
         /\ mijn.status # "Ontbreekt" /\ oud.status # "Ontbreekt" => nieuw.status # "Ontbreekt"
         /\ toen = oud => nieuw = mijn
<1>1. DOMAIN oud = {"status", "naam", "reden"} /\ DOMAIN mijn = {"status", "naam", "reden"}
  BY DEF Rijen
<1>2. /\ nieuw.status \in {mijn.status, oud.status} /\ nieuw.naam \in {mijn.naam, oud.naam}
      /\ nieuw.reden \in {mijn.reden, oud.reden}
  BY <1>1
<1>3. nieuw = [status |-> nieuw.status, naam |-> nieuw.naam, reden |-> nieuw.reden]
  BY <1>1
<1>4. nieuw \in Rijen
  <2>1. nieuw.status \in Standen \cup {"Ontbreekt"} /\ nieuw.naam \in Namen \cup {Geen}
        /\ nieuw.reden \in Buitenstellingen \cup {Geen}
    BY <1>2 DEF Rijen
  <2> HIDE <1>3
  <2> QED BY <1>3, <2>1 DEF Rijen
<1>5. ASSUME toen = oud PROVE nieuw = mijn
  <2>1. mijn = [status |-> mijn.status, naam |-> mijn.naam, reden |-> mijn.reden]
    BY DEF Rijen
  <2>2. nieuw.status = mijn.status /\ nieuw.naam = mijn.naam /\ nieuw.reden = mijn.reden
    BY <1>1, <1>5
  <2> QED BY <1>3, <2>1, <2>2
<1> QED BY <1>2, <1>4, <1>5

LEMMA RegisterTypeStap == RegisterTypeInv /\ RegisterStap => RegisterTypeInv'
<1> SUFFICES ASSUME RegisterTypeInv, RegisterStap PROVE RegisterTypeInv'
  OBVIOUS
<1> USE DEF RegisterTypeInv
\* A request that was not yet done moves: what was published stays done.
<1>1. ASSUME NEW r \in Verzoeken, pc[r] # "klaar", NEW plaats \in Plaatsen, NaarStap(r, plaats)
      PROVE  /\ pc' \in [Verzoeken -> Plaatsen]
             /\ pc'[r] = plaats /\ \A q \in Verzoeken \ {r} : pc'[q] = pc[q]
             /\ \A i \in DOMAIN gepubliceerd : pc'[gepubliceerd[i]] = "klaar"
  <2>1. pc' \in [Verzoeken -> Plaatsen] /\ pc'[r] = plaats
        /\ \A q \in Verzoeken \ {r} : pc'[q] = pc[q]
    BY <1>1 DEF NaarStap
  <2>2. \A i \in DOMAIN gepubliceerd : gepubliceerd[i] \in Verzoeken \ {r}
    BY <1>1
  <2> QED BY <2>1, <2>2
<1>2. ASSUME NEW r \in Verzoeken, Lees(r) PROVE RegisterTypeInv'
  <2>1. CASE Toegestaan(r)
    <3>1. r \in Registraties \/ rij.status # "Ontbreekt"
      BY <2>1 DEF Toegestaan, Bekend
    <3>2. Gewijzigd(r, rij) \in Rijen /\ Gewijzigd(r, rij).status # "Ontbreekt"
      BY <3>1, GewijzigdRij
    <3>3. kopie' \in [Verzoeken -> Rijen] /\ kopie'[r].status # "Ontbreekt"
          /\ \A q \in Verzoeken \ {r} : kopie'[q] = kopie[q]
      BY <1>2, <2>1, <3>2 DEF Lees
    <3>4. NaarStap(r, "gelezen") /\ pc[r] # "klaar" /\ "gelezen" \in Plaatsen
      BY <1>2, <2>1 DEF Lees, Plaatsen, Open
    <3> QED BY <1>1, <1>2, <3>3, <3>4 DEF Lees
  <2>2. CASE ~Toegestaan(r)
    <3>1. NaarStap(r, "afgewezen") /\ pc[r] # "klaar" /\ "afgewezen" \in Plaatsen /\ UNCHANGED kopie
      BY <1>2, <2>2 DEF Lees, Plaatsen
    <3> QED BY <1>1, <1>2, <3>1 DEF Lees, Open
  <2> QED BY <2>1, <2>2
<1>3. ASSUME NEW r \in Verzoeken, Herlees(r) PROVE RegisterTypeInv'
  <2>1. NaarStap(r, "herlezen") /\ pc[r] = "gelezen" /\ "herlezen" \in Plaatsen /\ r \notin Registraties
    BY <1>3, VerzoekenAssumption DEF Herlees, Plaatsen, Open
  <2>2. gelezen' \in [Verzoeken -> Rijen]
    BY <1>3 DEF Herlees
  <2> QED BY <1>1, <1>3, <2>1, <2>2 DEF Herlees, Open
<1>4. ASSUME NEW r \in Verzoeken, Schrijf(r) PROVE RegisterTypeInv'
  <2>1. NaarStap(r, Ronde(r)) /\ pc[r] = "herlezen" /\ Ronde(r) \in Plaatsen
        /\ Ronde(r) \notin Open /\ (Ronde(r) = "gecommit" => r \notin Wijzigingen)
    BY <1>4 DEF Schrijf, Plaatsen, Ronde, Open
  <2>2. rij' \in Rijen
    BY <1>4, Bijgewerkt DEF Schrijf
  <2> QED BY <1>1, <1>4, <2>1, <2>2 DEF Schrijf, Open
<1>5. ASSUME NEW r \in Verzoeken, Voeg(r) PROVE RegisterTypeInv'
  <2>1. /\ pc[r] = "gelezen" /\ r \notin Wijzigingen
        /\ NaarStap(r, "mislukt") \/ NaarStap(r, "gecommit")
        /\ "mislukt" \in Plaatsen /\ "gecommit" \in Plaatsen
    BY <1>5, VerzoekenAssumption DEF Voeg, Plaatsen
  <2>2. rij' \in Rijen
    BY <1>5 DEF Voeg
  <2> QED BY <1>1, <1>5, <2>1, <2>2 DEF Voeg, Open
<1>6. ASSUME NEW r \in Verzoeken, Publiceer(r) PROVE RegisterTypeInv'
  <2>1. NaarStap(r, "klaar") /\ pc[r] = "gecommit" /\ "klaar" \in Plaatsen /\ r \in Verzoeken \ Wijzigingen
    BY <1>6 DEF Publiceer, Plaatsen
  <2>2. \A i \in DOMAIN gepubliceerd : gepubliceerd[i] # r
    BY <2>1
  <2>3. gepubliceerd' = Append(gepubliceerd, r)
    BY <1>6 DEF Publiceer
  <2>4. /\ gepubliceerd' \in Seq(Verzoeken \ Wijzigingen)
        /\ Len(gepubliceerd') = Len(gepubliceerd) + 1
        /\ gepubliceerd'[Len(gepubliceerd) + 1] = r
        /\ \A i \in 1 .. Len(gepubliceerd) : gepubliceerd'[i] = gepubliceerd[i]
        /\ DOMAIN gepubliceerd' = 1 .. Len(gepubliceerd) + 1
        /\ DOMAIN gepubliceerd = 1 .. Len(gepubliceerd) /\ Len(gepubliceerd) \in Nat
    BY <2>1, <2>3
  <2>5. IsInjective(gepubliceerd')
    BY <2>2, <2>4 DEF IsInjective
  <2>6. \A i \in DOMAIN gepubliceerd' : pc'[gepubliceerd'[i]] = "klaar"
    BY <1>1, <2>1, <2>4
  <2> QED BY <1>1, <1>6, <2>1, <2>4, <2>5, <2>6 DEF Publiceer, Open
<1>7. ASSUME NEW r \in Verzoeken, Breek(r) PROVE RegisterTypeInv'
  <2>1. NaarStap(r, "mislukt") /\ pc[r] # "klaar" /\ "mislukt" \in Plaatsen
    BY <1>7 DEF Breek, Bezig, Open, Plaatsen
  <2> QED BY <1>1, <1>7, <2>1 DEF Breek, Open
<1>8. CASE BreekAlles
  BY <1>8 DEF BreekAlles, Bezig, Open, Plaatsen
<1>9. CASE UNCHANGED registerVars
  BY <1>9 DEF registerVars
<1> QED BY <1>2, <1>3, <1>4, <1>5, <1>6, <1>7, <1>8, <1>9 DEF RegisterStap

-----------------------------------------------------------------------------
(* The lifecycle: what RegisterKlopt needs *)

\* A request whose event is at the broker or has to go there.
Aanvaard(r) == pc[r] = "gecommit" \/ r \in Range(gepubliceerd)

\* A kunstwerk that was accepted once stays, and only one registratie was.
EenRegistratie ==
  /\ \A r \in Verzoeken : Aanvaard(r) => Bekend
  /\ \A r \in Verzoeken \ Registraties : pc[r] \in Open => Bekend
  /\ \A r, q \in Registraties : Aanvaard(r) /\ Aanvaard(q) => r = q

Gesteld         == {b \in Buitenstellingen : Aanvaard(b)}
StatusGewijzigd == {w \in Wijzigingen : pc[w] = "klaar" /\ Opgave[w].status # Geen}

\* Every buitengebruikstelling but the first needed a PATCH of the status, and it is one
\* ahead of them only while the row says so.
BuitengebruikGeteld ==
  Cardinality(Gesteld) <=
    Cardinality(StatusGewijzigd) + (IF rij.status = "BuitenGebruik" THEN 1 ELSE 0)

\* Without overlap one request is at work at most, on a copy of the row as it is.
SerieKlopt ==
  /\ rij = verwacht
  /\ \A r, q \in Verzoeken : pc[r] \in Bezig /\ pc[q] \in Bezig => r = q
  /\ \A r \in Verzoeken : pc[r] \in Open =>
       /\ Toegestaan(r)
       /\ kopie[r] = Gewijzigd(r, rij)
       /\ pc[r] = "herlezen" => gelezen[r] = rij
  /\ \A r \in Registraties : pc[r] = "gecommit" => gepubliceerd = <<>>
  /\ \A i \in DOMAIN gepubliceerd : gepubliceerd[i] \in Registraties => i = 1
  /\ BuitengebruikGeteld

RegisterInv == RegisterTypeInv /\ EenRegistratie /\ (~samenloop => SerieKlopt)

\* A request that is not at work moves, or one at work is broken off: nobody else is accepted.
LEMMA AanvaardBlijft ==
  ASSUME NEW r \in Verzoeken, NEW plaats, RegisterTypeInv, NaarStap(r, plaats), UNCHANGED gepubliceerd
  PROVE  /\ \A q \in Verzoeken \ {r} : pc'[q] = pc[q] /\ (Aanvaard(q)' <=> Aanvaard(q))
         /\ pc'[r] = plaats
         /\ pc[r] # "klaar" => (Aanvaard(r)' <=> plaats = "gecommit")
<1>1. pc'[r] = plaats /\ \A q \in Verzoeken \ {r} : pc'[q] = pc[q]
  BY DEF NaarStap, RegisterTypeInv
<1>2. Range(gepubliceerd') = Range(gepubliceerd)
  OBVIOUS
<1>3. pc[r] # "klaar" => r \notin Range(gepubliceerd)
  BY DEF RegisterTypeInv, Range
<1> QED BY <1>1, <1>2, <1>3 DEF Aanvaard

LEMMA PublicatieBlijft ==
  ASSUME NEW r \in Verzoeken, RegisterTypeInv, Publiceer(r)
  PROVE  /\ \A q \in Verzoeken : Aanvaard(q)' <=> Aanvaard(q)
         /\ \A q \in Verzoeken \ {r} : pc'[q] = pc[q]
         /\ pc'[r] = "klaar" /\ Aanvaard(r)
         /\ gepubliceerd' = Append(gepubliceerd, r)
<1>1. pc'[r] = "klaar" /\ pc[r] = "gecommit" /\ \A q \in Verzoeken \ {r} : pc'[q] = pc[q]
  BY DEF Publiceer, NaarStap, RegisterTypeInv
<1>2. gepubliceerd \in Seq(Verzoeken) /\ gepubliceerd' = Append(gepubliceerd, r)
  BY DEF Publiceer, RegisterTypeInv
<1>3. /\ DOMAIN gepubliceerd' = 1 .. Len(gepubliceerd) + 1 /\ DOMAIN gepubliceerd = 1 .. Len(gepubliceerd)
      /\ gepubliceerd'[Len(gepubliceerd) + 1] = r /\ Len(gepubliceerd) \in Nat
      /\ \A i \in 1 .. Len(gepubliceerd) : gepubliceerd'[i] = gepubliceerd[i]
  BY <1>2
<1>4. Range(gepubliceerd') = Range(gepubliceerd) \cup {r}
  BY <1>3 DEF Range
<1> QED BY <1>1, <1>2, <1>4 DEF Aanvaard

\* Breaking off takes acceptance away and gives none.
LEMMA BreekAllesBlijft ==
  ASSUME RegisterTypeInv, BreekAlles
  PROVE  \A q \in Verzoeken : /\ Aanvaard(q)' => Aanvaard(q)
                              /\ pc'[q] \notin Bezig
                              /\ pc'[q] = "klaar" <=> pc[q] = "klaar"
<1>1. \A q \in Verzoeken : /\ pc'[q] \notin Bezig
                           /\ pc'[q] = "klaar" <=> pc[q] = "klaar"
  BY DEF BreekAlles, RegisterTypeInv, Bezig, Open
<1>2. Range(gepubliceerd') = Range(gepubliceerd)
  BY DEF BreekAlles
<1> QED BY <1>1, <1>2 DEF Aanvaard, Bezig

\* The row does not go back to what it was before the registratie.
LEMMA BekendBlijft ==
  ASSUME RegisterTypeInv, RegisterStap, Bekend
  PROVE  Bekend'
<1>1. ASSUME NEW r \in Verzoeken, Schrijf(r) PROVE Bekend'
  BY <1>1, Bijgewerkt DEF Schrijf, RegisterTypeInv, Bekend, Open
<1>2. ASSUME NEW r \in Verzoeken, Voeg(r) PROVE Bekend'
  BY <1>2 DEF Voeg, Bekend
<1>3. rij' = rij => Bekend'
  BY DEF Bekend
<1> QED BY <1>1, <1>2, <1>3 DEF RegisterStap, Lees, Herlees, Publiceer, Breek, BreekAlles, registerVars

LEMMA EenRegistratieStap ==
  ASSUME RegisterTypeInv, EenRegistratie, RegisterStap
  PROVE  EenRegistratie'
<1> USE DEF EenRegistratie
<1>1. Bekend => Bekend'
  BY BekendBlijft
\* A step of one request, which is not accepted by it.
<1>0. ASSUME NEW r \in Verzoeken, NEW plaats \in Plaatsen, NaarStap(r, plaats), UNCHANGED gepubliceerd,
             pc[r] # "klaar", plaats # "gecommit",
             plaats \in Open /\ r \notin Registraties => Bekend
      PROVE  EenRegistratie'
  <2>1. \A q \in Verzoeken \ {r} : pc'[q] = pc[q] /\ (Aanvaard(q)' <=> Aanvaard(q))
    BY <1>0, AanvaardBlijft
  <2>2. pc'[r] = plaats /\ ~Aanvaard(r)'
    BY <1>0, AanvaardBlijft
  <2>3. \A q \in Verzoeken : Aanvaard(q)' => Aanvaard(q)
    BY <2>1, <2>2
  <2>4. \A q \in Verzoeken \ Registraties : pc'[q] \in Open => Bekend'
    BY <1>1, <1>0, <2>1, <2>2
  <2> QED BY <1>1, <2>3, <2>4 DEF Verzoeken
<1>2. ASSUME NEW r \in Verzoeken, Lees(r) PROVE EenRegistratie'
  <2>1. PICK plaats \in {"gelezen", "afgewezen"} :
          NaarStap(r, plaats) /\ (plaats = "gelezen" => Toegestaan(r))
    BY <1>2 DEF Lees
  <2>2. pc[r] = "nieuw" /\ UNCHANGED gepubliceerd
    BY <1>2 DEF Lees
  <2>3. plaats \in Plaatsen /\ (plaats \in Open /\ r \notin Registraties => Bekend)
    BY <2>1 DEF Toegestaan, Open, Plaatsen
  <2> QED BY <1>0, <2>1, <2>2, <2>3
<1>3. ASSUME NEW r \in Verzoeken, Herlees(r) PROVE EenRegistratie'
  <2>1. pc[r] = "gelezen" /\ NaarStap(r, "herlezen") /\ UNCHANGED gepubliceerd
    BY <1>3 DEF Herlees
  <2>2. "herlezen" \in Plaatsen /\ (r \notin Registraties => Bekend)
    BY <2>1 DEF Plaatsen, Open
  <2> QED BY <1>0, <2>1, <2>2
<1>4. ASSUME NEW r \in Verzoeken, Schrijf(r) PROVE EenRegistratie'
  <2>1. r \notin Registraties /\ pc[r] = "herlezen" /\ NaarStap(r, Ronde(r)) /\ UNCHANGED gepubliceerd
    BY <1>4 DEF Schrijf, RegisterTypeInv
  <2>2. Bekend'
    BY <1>1, <2>1 DEF Open
  <2>3. \A q \in Registraties : Aanvaard(q)' => Aanvaard(q)
    BY <2>1, AanvaardBlijft DEF Verzoeken
  <2> QED BY <2>2, <2>3
<1>5. ASSUME NEW r \in Verzoeken, Voeg(r) PROVE EenRegistratie'
  <2>1. pc[r] = "gelezen" /\ UNCHANGED gepubliceerd /\ r \in Registraties
    BY <1>5 DEF Voeg
  <2>2. CASE Bekend
    <3>1. NaarStap(r, "mislukt") /\ "mislukt" \in Plaatsen /\ "mislukt" \notin Open
      BY <1>5, <2>2 DEF Voeg, Plaatsen, Open
    <3> QED BY <1>0, <2>1, <3>1
  <2>3. CASE ~Bekend
    <3>1. NaarStap(r, "gecommit") /\ rij' = kopie[r]
      BY <1>5, <2>3 DEF Voeg
    <3>2. Bekend'
      BY <2>1, <3>1 DEF RegisterTypeInv, Bekend, Open
    <3>3. \A q \in Registraties \ {r} : ~Aanvaard(q)'
      BY <2>1, <2>3, <3>1, AanvaardBlijft DEF Verzoeken
    <3> QED BY <3>2, <3>3
  <2> QED BY <2>2, <2>3
<1>6. ASSUME NEW r \in Verzoeken, Publiceer(r) PROVE EenRegistratie'
  <2>1. \A q \in Verzoeken : pc'[q] \in Open => pc[q] \in Open
    BY <1>6, PublicatieBlijft DEF Open
  <2> QED BY <1>1, <1>6, <2>1, PublicatieBlijft DEF Verzoeken
<1>7. ASSUME NEW r \in Verzoeken, Breek(r) PROVE EenRegistratie'
  <2>1. NaarStap(r, "mislukt") /\ pc[r] # "klaar" /\ UNCHANGED gepubliceerd
        /\ "mislukt" \in Plaatsen /\ "mislukt" \notin Open
    BY <1>7 DEF Breek, Bezig, Open, Plaatsen
  <2> QED BY <1>0, <2>1
<1>8. CASE BreekAlles
  BY <1>1, <1>8, BreekAllesBlijft DEF Bezig, Verzoeken
<1>9. CASE UNCHANGED registerVars
  BY <1>1, <1>9 DEF registerVars, Aanvaard, Range
<1> QED BY <1>2, <1>3, <1>4, <1>5, <1>6, <1>7, <1>8, <1>9 DEF RegisterStap

-----------------------------------------------------------------------------
(* The lifecycle: every step keeps SerieKlopt, as long as no requests overlap *)

LEMMA Eindig ==
  /\ IsFiniteSet(Gesteld) /\ IsFiniteSet(StatusGewijzigd)
  /\ Cardinality(Gesteld) \in Nat /\ Cardinality(StatusGewijzigd) \in Nat
<1>1. Gesteld \subseteq Verzoeken /\ StatusGewijzigd \subseteq Verzoeken
  BY DEF Gesteld, StatusGewijzigd, Verzoeken
<1> QED BY <1>1, VerzoekenAssumption, FS_Subset, FS_CardinalityType

\* Neither set grows but by the request that is written, and the PATCHes stay.
LEMMA TellingBlijft ==
  ASSUME BuitengebruikGeteld, rij'.status = rij.status,
         Gesteld' \subseteq Gesteld, StatusGewijzigd' = StatusGewijzigd
  PROVE  BuitengebruikGeteld'
<1>1. Cardinality(Gesteld') <= Cardinality(Gesteld) /\ Cardinality(Gesteld') \in Nat
  BY Eindig, FS_Subset, FS_CardinalityType
<1> QED BY <1>1, Eindig DEF BuitengebruikGeteld

LEMMA TellingVanSchrijf ==
  ASSUME NEW r \in Verzoeken, RegisterTypeInv, BuitengebruikGeteld, Schrijf(r),
         rij' = Gewijzigd(r, rij), rij.status # "BuitenGebruik" \/ r \notin Buitenstellingen
  PROVE  BuitengebruikGeteld'
<1>1. /\ pc[r] = "herlezen" /\ NaarStap(r, Ronde(r)) /\ UNCHANGED gepubliceerd /\ r \notin Registraties
  BY DEF Schrijf, RegisterTypeInv
<1>2. /\ pc'[r] = Ronde(r) /\ \A q \in Verzoeken \ {r} : pc'[q] = pc[q]
      /\ \A q \in Verzoeken \ {r} : Aanvaard(q)' <=> Aanvaard(q)
      /\ Aanvaard(r)' <=> Ronde(r) = "gecommit"
  BY <1>1, AanvaardBlijft
<1>3. ~Aanvaard(r)
  BY <1>1 DEF Aanvaard, Range, RegisterTypeInv
<1>4. CASE r \in Buitenstellingen
  <2>1. Gesteld' = Gesteld \cup {r} /\ r \notin Gesteld
    BY <1>2, <1>3, <1>4, VerzoekenAssumption DEF Gesteld, Ronde, Verzoeken
  <2>2. StatusGewijzigd' = StatusGewijzigd
    BY <1>2, <1>4, VerzoekenAssumption DEF StatusGewijzigd, Verzoeken
  <2>3. rij'.status = "BuitenGebruik"
    BY <1>4, VerzoekenAssumption DEF Gewijzigd, RegisterTypeInv, Rijen
  <2>4. Cardinality(Gesteld') = Cardinality(Gesteld) + 1
    BY <2>1, Eindig, FS_AddElement
  <2> QED BY <1>4, <2>2, <2>3, <2>4, Eindig DEF BuitengebruikGeteld
<1>5. CASE r \in Wijzigingen
  <2>1. Gesteld' = Gesteld
    BY <1>2, <1>5, VerzoekenAssumption DEF Gesteld, Verzoeken
  <2>2. CASE Opgave[r].status = Geen
    <3>1. rij'.status = rij.status
      BY <1>5, <2>2, VerzoekenAssumption DEF Gewijzigd, RegisterTypeInv, Rijen
    <3>2. StatusGewijzigd' = StatusGewijzigd
      BY <1>2, <2>2 DEF StatusGewijzigd, Verzoeken
    <3> QED BY <2>1, <3>1, <3>2, TellingBlijft
  <2>3. CASE Opgave[r].status # Geen
    <3>1. StatusGewijzigd' = StatusGewijzigd \cup {r} /\ r \notin StatusGewijzigd
      BY <1>1, <1>2, <1>5, <2>3 DEF StatusGewijzigd, Verzoeken, Ronde
    <3>2. Cardinality(StatusGewijzigd') = Cardinality(StatusGewijzigd) + 1
      BY <3>1, Eindig, FS_AddElement
    <3> QED BY <2>1, <3>2, Eindig DEF BuitengebruikGeteld
  <2> QED BY <2>2, <2>3
<1> QED BY <1>1, <1>4, <1>5 DEF Verzoeken

\* A request that was read alone is written as the next one of a series.
LEMMA SerieSchrijf ==
  ASSUME NEW r \in Verzoeken, RegisterTypeInv, SerieKlopt, Schrijf(r)
  PROVE  SerieKlopt'
<1>1. /\ pc[r] = "herlezen" /\ NaarStap(r, Ronde(r)) /\ UNCHANGED <<gepubliceerd, kopie, gelezen>>
      /\ r \notin Registraties /\ pc[r] \in Bezig /\ pc[r] \in Open
  BY DEF Schrijf, RegisterTypeInv, Bezig, Open
<1>2. pc'[r] = Ronde(r) /\ \A q \in Verzoeken \ {r} : pc'[q] = pc[q] /\ pc[q] \notin Bezig
  BY <1>1 DEF SerieKlopt, NaarStap, RegisterTypeInv
<1>3. rij' = Gewijzigd(r, rij) /\ Toegestaan(r)
  <2>1. kopie[r] = Gewijzigd(r, rij) /\ gelezen[r] = rij /\ Toegestaan(r)
    BY <1>1 DEF SerieKlopt
  <2>2. rij \in Rijen /\ kopie[r] \in Rijen /\ gelezen[r] \in Rijen
    BY DEF RegisterTypeInv
  <2>3. rij' = [k \in DOMAIN rij |-> IF kopie[r][k] # gelezen[r][k] THEN kopie[r][k] ELSE rij[k]]
    BY DEF Schrijf
  <2>4. rij' = kopie[r]
    BY <2>1, <2>2, <2>3, Bijgewerkt
  <2> QED BY <2>1, <2>4
<1>4. rij' = verwacht'
  BY <1>3 DEF SerieKlopt, Schrijf
<1>5. \A q \in Verzoeken : pc'[q] \notin Open /\ (pc'[q] \in Bezig => q = r)
  BY <1>2 DEF Bezig, Open, Ronde
<1>6. rij.status # "BuitenGebruik" \/ r \notin Buitenstellingen
  BY <1>1, <1>3 DEF Toegestaan
<1>7. BuitengebruikGeteld'
  BY <1>3, <1>6, TellingVanSchrijf DEF SerieKlopt
<1>8. \A q \in Registraties : pc'[q] # "gecommit"
  BY <1>1, <1>2 DEF Verzoeken, Bezig
<1> QED BY <1>1, <1>4, <1>5, <1>7, <1>8 DEF SerieKlopt

LEMMA SerieVoeg ==
  ASSUME NEW r \in Verzoeken, RegisterTypeInv, EenRegistratie, SerieKlopt, Voeg(r)
  PROVE  SerieKlopt'
<1>1. /\ pc[r] = "gelezen" /\ UNCHANGED <<gepubliceerd, kopie, gelezen>>
      /\ r \in Registraties /\ pc[r] \in Bezig /\ pc[r] \in Open
  BY DEF Voeg, Bezig, Open
<1>2. ~Bekend /\ kopie[r] = Gewijzigd(r, rij)
  BY <1>1 DEF SerieKlopt, Toegestaan
<1>3. NaarStap(r, "gecommit") /\ rij' = Gewijzigd(r, rij) /\ rij' = verwacht'
  BY <1>2 DEF Voeg, SerieKlopt
<1>4. pc'[r] = "gecommit" /\ \A q \in Verzoeken \ {r} : pc'[q] = pc[q] /\ pc[q] \notin Bezig
  BY <1>1, <1>3 DEF SerieKlopt, NaarStap, RegisterTypeInv
<1>5. \A q \in Verzoeken : pc'[q] \notin Open /\ (pc'[q] \in Bezig => q = r)
  BY <1>4 DEF Bezig, Open
<1>6. \A q \in Verzoeken : ~Aanvaard(q)
  BY <1>2 DEF EenRegistratie
<1>7. gepubliceerd = <<>>
  <2>1. \A i \in DOMAIN gepubliceerd : Aanvaard(gepubliceerd[i]) /\ gepubliceerd[i] \in Verzoeken
    BY DEF Aanvaard, Range, RegisterTypeInv
  <2>2. Len(gepubliceerd) = 0
    BY <1>6, <2>1 DEF RegisterTypeInv
  <2> QED BY <2>2 DEF RegisterTypeInv
<1>8. BuitengebruikGeteld'
  <2>1. \A q \in Verzoeken \ {r} : ~Aanvaard(q)'
    BY <1>1, <1>3, <1>6, AanvaardBlijft
  <2>2. Gesteld' = {}
    BY <1>1, <2>1, VerzoekenAssumption DEF Gesteld, Verzoeken
  <2>3. Cardinality(Gesteld') = 0
    BY <2>2, FS_EmptySet
  <2>4. StatusGewijzigd' = StatusGewijzigd
    BY <1>1, <1>4, VerzoekenAssumption DEF StatusGewijzigd, Verzoeken
  <2> QED BY <2>3, <2>4, Eindig DEF BuitengebruikGeteld
<1> QED BY <1>1, <1>3, <1>5, <1>7, <1>8 DEF SerieKlopt

LEMMA SerieStap ==
  ASSUME RegisterInv, RegisterStap, ~samenloop'
  PROVE  SerieKlopt'
<1>1. RegisterTypeInv /\ EenRegistratie /\ (~samenloop => SerieKlopt)
  BY DEF RegisterInv
\* A request that is not at work yet, or no longer, moves.
<1>2. ASSUME NEW r \in Verzoeken, NEW plaats \in Plaatsen, NaarStap(r, plaats), pc[r] # "klaar",
             plaats \notin Bezig, plaats # "klaar", SerieKlopt,
             UNCHANGED <<rij, kopie, gelezen, gepubliceerd, verwacht>>
      PROVE  SerieKlopt'
  <2>1. /\ \A q \in Verzoeken \ {r} : pc'[q] = pc[q] /\ (Aanvaard(q)' <=> Aanvaard(q))
        /\ pc'[r] = plaats /\ ~Aanvaard(r)'
    BY <1>1, <1>2, AanvaardBlijft DEF Bezig
  <2>2. Gesteld' \subseteq Gesteld /\ StatusGewijzigd' = StatusGewijzigd
    BY <1>2, <2>1 DEF Gesteld, StatusGewijzigd, Verzoeken
  <2>3. BuitengebruikGeteld'
    BY <1>2, <2>2, TellingBlijft DEF SerieKlopt
  <2>4. \A q \in Verzoeken : pc'[q] \in Bezig => pc'[q] = pc[q]
    BY <1>2, <2>1
  <2>5. \A q \in Verzoeken : pc'[q] \in Open => pc[q] \in Open /\ pc'[q] = pc[q] /\ Toegestaan(q)'
    BY <1>2, <2>4 DEF SerieKlopt, Toegestaan, Bekend, Bezig
  <2>6. \A q \in Registraties : pc'[q] = "gecommit" => pc[q] = "gecommit"
    BY <2>4 DEF Bezig, Verzoeken
  <2>7. \A q, s \in Verzoeken : pc'[q] \in Bezig /\ pc'[s] \in Bezig => q = s
    BY <1>2, <2>4 DEF SerieKlopt
  <2> QED BY <1>2, <2>3, <2>5, <2>6, <2>7 DEF SerieKlopt
<1>3. ASSUME NEW r \in Verzoeken, Lees(r) PROVE SerieKlopt'
  <2>1. UNCHANGED <<rij, gelezen, gepubliceerd, verwacht>> /\ pc[r] = "nieuw"
    BY <1>3 DEF Lees
  <2>2. CASE ~Toegestaan(r)
    <3>1. NaarStap(r, "afgewezen") /\ UNCHANGED <<kopie, samenloop>>
      BY <1>3, <2>2 DEF Lees
    <3>2. "afgewezen" \in Plaatsen /\ "afgewezen" \notin Bezig
      BY DEF Plaatsen, Bezig, Open
    <3> QED BY <1>1, <1>2, <2>1, <3>1, <3>2
  <2>3. CASE Toegestaan(r)
    <3>1. /\ NaarStap(r, "gelezen") /\ kopie' = [kopie EXCEPT ![r] = Gewijzigd(r, rij)]
          /\ ~samenloop /\ \A q \in Verzoeken : pc[q] \notin Bezig
      BY <1>3, <2>3 DEF Lees, Bezig
    <3>2. /\ \A q \in Verzoeken \ {r} : pc'[q] = pc[q] /\ pc'[q] \notin Bezig
                                        /\ (Aanvaard(q)' <=> Aanvaard(q))
          /\ pc'[r] = "gelezen" /\ ~Aanvaard(r)'
      BY <1>1, <2>1, <3>1, AanvaardBlijft
    <3>3. Gesteld' \subseteq Gesteld /\ StatusGewijzigd' = StatusGewijzigd
      BY <2>1, <3>2 DEF Gesteld, StatusGewijzigd, Verzoeken
    <3>4. BuitengebruikGeteld'
      BY <1>1, <2>1, <3>1, <3>3, TellingBlijft DEF SerieKlopt
    <3>5. kopie'[r] = Gewijzigd(r, rij) /\ Toegestaan(r)'
      BY <1>1, <2>1, <2>3, <3>1 DEF RegisterTypeInv, Toegestaan, Bekend
    <3>6. \A q \in Registraties : pc'[q] # "gecommit"
      BY <3>2 DEF Bezig, Verzoeken
    <3>7. \A q \in Verzoeken : pc'[q] \in Open => q = r
      BY <3>2 DEF Bezig
    <3>8. \A q, s \in Verzoeken : pc'[q] \in Bezig /\ pc'[s] \in Bezig => q = s
      BY <3>2
    <3> QED BY <1>1, <2>1, <3>1, <3>2, <3>4, <3>5, <3>6, <3>7, <3>8 DEF SerieKlopt
  <2> QED BY <2>2, <2>3
<1>4. ASSUME NEW r \in Verzoeken, Herlees(r) PROVE SerieKlopt'
  <2>1. /\ NaarStap(r, "herlezen") /\ gelezen' = [gelezen EXCEPT ![r] = rij] /\ pc[r] = "gelezen"
        /\ UNCHANGED <<rij, kopie, gepubliceerd, verwacht, samenloop>>
    BY <1>4 DEF Herlees
  <2>2. /\ \A q \in Verzoeken \ {r} : pc'[q] = pc[q] /\ (Aanvaard(q)' <=> Aanvaard(q))
        /\ pc'[r] = "herlezen" /\ ~Aanvaard(r)' /\ gelezen'[r] = rij
    BY <1>1, <2>1, AanvaardBlijft DEF RegisterTypeInv
  <2>3. pc[r] \in Bezig /\ pc[r] \in Open /\ SerieKlopt
    BY <1>1, <2>1 DEF Bezig, Open
  <2>4. \A q \in Verzoeken \ {r} : pc'[q] \notin Bezig
    BY <2>2, <2>3 DEF SerieKlopt
  <2>5. Gesteld' \subseteq Gesteld /\ StatusGewijzigd' = StatusGewijzigd
    BY <2>1, <2>2 DEF Gesteld, StatusGewijzigd, Verzoeken
  <2>6. BuitengebruikGeteld'
    BY <2>1, <2>3, <2>5, TellingBlijft DEF SerieKlopt
  <2>7. kopie'[r] = Gewijzigd(r, rij) /\ Toegestaan(r)'
    BY <2>1, <2>3 DEF SerieKlopt, Toegestaan, Bekend
  <2>8. \A q \in Registraties : pc'[q] # "gecommit"
    BY <2>2, <2>4 DEF Bezig, Verzoeken
  <2>9. \A q \in Verzoeken : pc'[q] \in Open => q = r
    BY <2>4 DEF Bezig
  <2>10. \A q, s \in Verzoeken : pc'[q] \in Bezig /\ pc'[s] \in Bezig => q = s
    BY <2>4
  <2> QED BY <2>1, <2>2, <2>3, <2>6, <2>7, <2>8, <2>9, <2>10 DEF SerieKlopt
<1>5. ASSUME NEW r \in Verzoeken, Schrijf(r) PROVE SerieKlopt'
  BY <1>1, <1>5, SerieSchrijf DEF Schrijf
<1>6. ASSUME NEW r \in Verzoeken, Voeg(r) PROVE SerieKlopt'
  BY <1>1, <1>6, SerieVoeg DEF Voeg
<1>7. ASSUME NEW r \in Verzoeken, Publiceer(r) PROVE SerieKlopt'
  <2>1. /\ pc[r] = "gecommit" /\ pc[r] \in Bezig /\ r \notin Wijzigingen
        /\ UNCHANGED <<rij, kopie, gelezen, verwacht, samenloop>> /\ SerieKlopt
    BY <1>1, <1>7 DEF Publiceer, RegisterTypeInv, Bezig
  <2>2. /\ \A q \in Verzoeken : Aanvaard(q)' <=> Aanvaard(q)
        /\ \A q \in Verzoeken \ {r} : pc'[q] = pc[q] /\ pc[q] \notin Bezig
        /\ pc'[r] = "klaar" /\ gepubliceerd' = Append(gepubliceerd, r)
    BY <1>1, <1>7, <2>1, PublicatieBlijft DEF SerieKlopt
  <2>3. \A q \in Verzoeken : pc'[q] \notin Bezig /\ pc'[q] \notin Open /\ pc'[q] # "gecommit"
    BY <2>2 DEF Bezig, Open
  <2>4. Gesteld' \subseteq Gesteld /\ StatusGewijzigd' = StatusGewijzigd
    BY <2>1, <2>2 DEF Gesteld, StatusGewijzigd, Verzoeken
  <2>5. BuitengebruikGeteld'
    BY <2>1, <2>4, TellingBlijft DEF SerieKlopt
  <2>6. \A i \in DOMAIN gepubliceerd' : gepubliceerd'[i] \in Registraties => i = 1
    <3>1. gepubliceerd \in Seq(Verzoeken) /\ \A i \in DOMAIN gepubliceerd : gepubliceerd[i] \in Registraties => i = 1
      BY <1>1, <2>1 DEF RegisterTypeInv, SerieKlopt
    <3>2. r \in Registraties => Len(gepubliceerd) = 0
      BY <2>1 DEF SerieKlopt
    <3> QED BY <2>2, <3>1, <3>2
  <2> QED BY <2>1, <2>3, <2>5, <2>6 DEF SerieKlopt, Verzoeken
<1>8. ASSUME NEW r \in Verzoeken, Breek(r) PROVE SerieKlopt'
  <2>1. NaarStap(r, "mislukt") /\ pc[r] # "klaar" /\ "mislukt" \in Plaatsen /\ "mislukt" \notin Bezig
        /\ UNCHANGED <<rij, kopie, gelezen, gepubliceerd, verwacht, samenloop>>
    BY <1>8 DEF Breek, Bezig, Open, Plaatsen
  <2> QED BY <1>1, <1>2, <2>1
<1>9. CASE BreekAlles
  <2>1. SerieKlopt /\ UNCHANGED <<rij, kopie, gelezen, gepubliceerd, verwacht, samenloop>>
    BY <1>1, <1>9 DEF BreekAlles
  <2>2. Gesteld' \subseteq Gesteld /\ StatusGewijzigd' = StatusGewijzigd
    BY <1>1, <1>9, BreekAllesBlijft DEF Gesteld, StatusGewijzigd, Verzoeken
  <2>3. BuitengebruikGeteld'
    BY <2>1, <2>2, TellingBlijft DEF SerieKlopt
  <2>4. \A q \in Verzoeken : pc'[q] \notin Bezig /\ pc'[q] \notin Open /\ pc'[q] # "gecommit"
    BY <1>1, <1>9, BreekAllesBlijft DEF Bezig
  <2> QED BY <2>1, <2>3, <2>4 DEF SerieKlopt, Verzoeken
<1>10. CASE UNCHANGED registerVars
  <2>1. SerieKlopt /\ UNCHANGED <<rij, pc, kopie, gelezen, gepubliceerd, verwacht, samenloop>>
    BY <1>1, <1>10 DEF registerVars
  <2> QED BY <2>1 DEF SerieKlopt, BuitengebruikGeteld, Gesteld, StatusGewijzigd, Aanvaard, Range,
                      Toegestaan, Bekend
<1> QED BY <1>3, <1>4, <1>5, <1>6, <1>7, <1>8, <1>9, <1>10 DEF RegisterStap

-----------------------------------------------------------------------------
(* The consumers: what EenBeoordelingPerRapport and BeoordelingKlopt need *)

\* A queue has one delivery at work, and a rapport that is being judged has no
\* beoordeling yet: so the one that is added is the only one.
RapportInv ==
  /\ verkeer \subseteq Verzoeken \cup Pakketten \cup Leveringen
  /\ levering \in [Leveringen -> {"onderweg", "bevestigd", "verworpen"} \cup Lopend]
  /\ concept \in [Leveringen -> Oordelen \cup {Geen}]
  /\ beoordelingen \subseteq Oordelen
  /\ verwerkt \subseteq Rapporten
  /\ verbonden \subseteq Soorten
  /\ fouten \in 0 .. MaxFouten
  /\ \A d, e \in Leveringen :
       levering[d] \in Lopend /\ levering[e] \in Lopend /\ Soort[d[1]] = Soort[e[1]] => d = e
  /\ \A d \in Leveringen :
       /\ levering[d] \in {"gecontroleerd", "beoordeeld"} => ~Beoordeeld(d[1])
       /\ levering[d] = "vastgelegd" => Beoordeeld(d[1])
       /\ levering[d] = "beoordeeld" => concept[d] \in Oordelen /\ concept[d].bron = d[1]
  /\ EenBeoordelingPerRapport

\* A delivery was begun under pakketten that are still there, in the same place.
PakketInv ==
  /\ vastgesteld \in Seq(Pakketten)
  /\ IsInjective(vastgesteld)
  /\ begonnen \in [Leveringen -> Nat]
  /\ \A d \in Leveringen : begonnen[d] <= Len(vastgesteld)
  /\ BeoordelingKlopt

BeheerInv == RegisterInv /\ RapportInv /\ PakketInv

-----------------------------------------------------------------------------
(* The last of a row of numbers, and get_current *)

LEMMA KleinsteGetal ==
  ASSUME NEW S, S \subseteq Nat, S # {}
  PROVE  \E n \in S : \A m \in S : n <= m
<1> DEFINE R == {nm \in Nat \X Nat : nm[1] < nm[2]}
<1>1. IsWellFoundedOn(R, Nat)
  BY NatLessThanWellFounded DEF OpToRel
<1> HIDE DEF R
<1>2. PICK n \in S : \A m \in S : ~ (<<m, n>> \in R)
  BY <1>1, WFMin
<1>3. \A m \in S : m \in Nat /\ (m < n => <<m, n>> \in R)
  BY DEF R
<1>4. ASSUME NEW m \in S PROVE n <= m
  <2>1. ~(m < n)
    BY <1>2, <1>3
  <2>2. m \in Nat /\ n \in Nat
    OBVIOUS
  <2> QED BY <2>1, <2>2
<1> QED BY <1>4

LEMMA GrootsteGetal ==
  ASSUME NEW n \in Nat, NEW S, S \subseteq 1 .. n, S # {}
  PROVE  \E i \in S : \A j \in S : j <= i
<1> DEFINE T == {n - i : i \in S}
<1>1. T \subseteq Nat /\ T # {}
  <2>1. \A i \in S : n - i \in Nat
    OBVIOUS
  <2> QED BY <2>1
<1> HIDE DEF T
<1>2. PICK m \in T : \A k \in T : m <= k
  BY <1>1, KleinsteGetal
<1>3. PICK i \in S : m = n - i
  BY <1>2 DEF T
<1>4. \A j \in S : j <= i
  BY <1>2, <1>3 DEF T
<1> QED BY <1>3, <1>4

\* get_current answers the newest pakket of the soort, or None if there is none.
LEMMA GetCurrentKlopt ==
  ASSUME vastgesteld \in Seq(Pakketten), NEW soort
  PROVE  \/ /\ \A i \in 1 .. Len(vastgesteld) : Soort[vastgesteld[i]] # soort
            /\ GetCurrent(soort) = Geen
         \/ \E i \in 1 .. Len(vastgesteld) :
              /\ GetCurrent(soort) = vastgesteld[i] /\ Soort[vastgesteld[i]] = soort
              /\ \A j \in 1 .. Len(vastgesteld) : Soort[vastgesteld[j]] = soort => j <= i
<1> DEFINE van == {i \in DOMAIN vastgesteld : Soort[vastgesteld[i]] = soort}
           laatste == CHOOSE i \in van : \A j \in van : j <= i
<1>1. DOMAIN vastgesteld = 1 .. Len(vastgesteld) /\ Len(vastgesteld) \in Nat
  OBVIOUS
<1>2. GetCurrent(soort) = IF van = {} THEN Geen ELSE vastgesteld[laatste]
  BY DEF GetCurrent
<1>3. ASSUME van # {} PROVE laatste \in van /\ \A j \in van : j <= laatste
  <2>1. van \subseteq 1 .. Len(vastgesteld)
    BY <1>1
  <2> HIDE DEF van
  <2>2. \E i \in van : \A j \in van : j <= i
    BY <1>1, <1>3, <2>1, GrootsteGetal
  <2> QED BY <2>2
<1> HIDE DEF laatste
<1> QED BY <1>1, <1>2, <1>3

-----------------------------------------------------------------------------
(* The consumers: every step keeps RapportInv *)

LEMMA RapportInit == Init => RapportInv
<1> SUFFICES ASSUME Init PROVE RapportInv
  OBVIOUS
<1>1. /\ levering = [d \in Leveringen |-> IF d \in verkeer THEN "onderweg" ELSE "bevestigd"]
      /\ concept = [d \in Leveringen |-> Geen]
      /\ beoordelingen = {} /\ verwerkt = {} /\ verbonden = Soorten /\ fouten = 0
      /\ verkeer \subseteq Verzoeken \cup Pakketten \cup Leveringen
  BY DEF Init
<1>2. EenBeoordelingPerRapport
  BY <1>1 DEF EenBeoordelingPerRapport, Beoordeeld
<1> QED BY <1>1, <1>2, GrenzenAssumption DEF RapportInv, Lopend

\* A delivery moves; the others stay where they are.
LEMMA NaarBeweegt ==
  ASSUME RapportInv, NEW d \in Leveringen, NEW plaats, Naar(d, plaats)
  PROVE  levering'[d] = plaats /\ \A e \in Leveringen \ {d} : levering'[e] = levering[e]
BY DEF RapportInv, Naar

LEMMA ControleerHoudt ==
  ASSUME RapportInv, NEW d \in Leveringen, Controleer(d), verkeer' = verkeer,
         fouten' \in 0 .. MaxFouten, fouten' >= fouten
  PROVE  RapportInv'
<1>1. /\ levering[d] = "onderweg" /\ \A e \in Rij(d) : levering[e] \notin Lopend
      /\ concept' = [concept EXCEPT ![d] = Geen]
      /\ UNCHANGED <<beoordelingen, verwerkt, verbonden>>
      /\ teVroeg' = IF d[1] \notin Ongeldig /\ ~Beoordeeld(d[1]) /\ ~Bekend
                    THEN teVroeg \cup {d[1]} ELSE teVroeg
  BY DEF Controleer, Ontvang
<1>2. PICK plaats \in {"verworpen", "vastgelegd", "gecontroleerd"} :
        /\ Naar(d, plaats)
        /\ plaats = "vastgelegd" => Beoordeeld(d[1])
        /\ plaats = "gecontroleerd" => ~Beoordeeld(d[1])
        /\ plaats = "verworpen" =>
             d[1] \in Ongeldig \/ (~Beoordeeld(d[1]) /\ (d[1] \in verwerkt \/ ~Bekend))
  BY DEF Controleer
<1>3. levering'[d] = plaats /\ \A e \in Leveringen \ {d} : levering'[e] = levering[e]
  BY <1>2, NaarBeweegt
<1>4. levering' \in [Leveringen -> {"onderweg", "bevestigd", "verworpen"} \cup Lopend]
  BY <1>2 DEF RapportInv, Naar, Lopend
<1>5. concept' \in [Leveringen -> Oordelen \cup {Geen}] /\ \A e \in Leveringen \ {d} : concept'[e] = concept[e]
  BY <1>1 DEF RapportInv
<1>6. \A e \in Rapporten : Beoordeeld(e)' <=> Beoordeeld(e)
  BY <1>1 DEF Beoordeeld
<1>7. \A e \in Leveringen : e[1] \in Rapporten
  BY DEF Leveringen
<1>8. \A e, f \in Leveringen :
        levering'[e] \in Lopend /\ levering'[f] \in Lopend /\ Soort[e[1]] = Soort[f[1]] => e = f
  BY <1>1, <1>3 DEF RapportInv, Rij
<1>9. \A e \in Leveringen :
        /\ levering'[e] \in {"gecontroleerd", "beoordeeld"} => ~Beoordeeld(e[1])'
        /\ levering'[e] = "vastgelegd" => Beoordeeld(e[1])'
        /\ levering'[e] = "beoordeeld" => concept'[e] \in Oordelen /\ concept'[e].bron = e[1]
  <2> SUFFICES ASSUME NEW e \in Leveringen
               PROVE  /\ levering'[e] \in {"gecontroleerd", "beoordeeld"} => ~Beoordeeld(e[1])
                      /\ levering'[e] = "vastgelegd" => Beoordeeld(e[1])
                      /\ levering'[e] = "beoordeeld" => concept'[e] \in Oordelen /\ concept'[e].bron = e[1]
    BY <1>6, <1>7
  <2>1. CASE e = d
    BY <1>2, <1>3, <2>1
  <2>2. CASE e # d
    BY <1>3, <1>5, <2>2 DEF RapportInv
  <2> QED BY <2>1, <2>2
<1>10. EenBeoordelingPerRapport'
  <2>1. /\ \A b, c \in beoordelingen' : b.bron = c.bron => b = c
        /\ verwerkt' = {b.bron : b \in beoordelingen'}
    BY <1>1 DEF RapportInv, EenBeoordelingPerRapport
  <2>2. ASSUME NEW e \in verkeer \cap Leveringen, levering'[e] = "bevestigd" PROVE Beoordeeld(e[1])'
    BY <1>2, <1>3, <1>6, <1>7, <2>2 DEF RapportInv, EenBeoordelingPerRapport
  <2>3. ASSUME NEW e \in verkeer \cap Leveringen, levering'[e] = "verworpen"
        PROVE  fouten' > 0 \/ e[1] \in Ongeldig \cup teVroeg'
    <3>1. CASE e = d
      <4>1. verwerkt = {b.bron : b \in beoordelingen}
        BY DEF RapportInv, EenBeoordelingPerRapport
      <4>2. ~Beoordeeld(d[1]) => d[1] \notin verwerkt
        BY <4>1 DEF Beoordeeld
      <4> QED BY <1>1, <1>2, <1>3, <2>3, <3>1, <4>2
    <3>2. CASE e # d
      <4>1. fouten > 0 \/ e[1] \in Ongeldig \cup teVroeg
        BY <1>3, <2>3, <3>2 DEF RapportInv, EenBeoordelingPerRapport
      <4> QED BY <1>1, <4>1, GrenzenAssumption DEF RapportInv
    <3> QED BY <3>1, <3>2
  <2> QED BY <2>1, <2>2, <2>3 DEF EenBeoordelingPerRapport
<1> QED BY <1>1, <1>4, <1>5, <1>8, <1>9, <1>10 DEF RapportInv

\* Faults and steps that add no beoordeling and refuse nothing without a fault: a delivery
\* goes on, or back, without a claim it did not have.
LEMMA VerplaatstHoudt ==
  ASSUME RapportInv, verkeer' = verkeer, fouten' \in 0 .. MaxFouten, fouten' >= fouten,
         UNCHANGED <<beoordelingen, verwerkt, teVroeg>>, verbonden' \subseteq Soorten,
         concept' \in [Leveringen -> Oordelen \cup {Geen}],
         levering' \in [Leveringen -> {"onderweg", "bevestigd", "verworpen"} \cup Lopend],
         \A e \in Leveringen :
           \/ levering'[e] = levering[e] /\ concept'[e] = concept[e]
           \/ levering'[e] = "onderweg"
           \/ levering'[e] = "verworpen" /\ fouten' > 0
           \/ levering'[e] = "bevestigd" /\ levering[e] = "vastgelegd"
           \/ /\ levering'[e] = "beoordeeld" /\ levering[e] = "gecontroleerd"
              /\ concept'[e] \in Oordelen /\ concept'[e].bron = e[1]
  PROVE  RapportInv'
<1>1. \A e \in Rapporten : Beoordeeld(e)' <=> Beoordeeld(e)
  BY DEF Beoordeeld
<1>2. \A e \in Leveringen : e[1] \in Rapporten
  BY DEF Leveringen
<1>3. \A e \in Leveringen : levering'[e] \in Lopend => levering[e] \in Lopend
  BY DEF Lopend
<1>4. \A e \in Leveringen :
        /\ levering'[e] \in {"gecontroleerd", "beoordeeld"} => ~Beoordeeld(e[1])
        /\ levering'[e] = "vastgelegd" => Beoordeeld(e[1])
        /\ levering'[e] = "beoordeeld" => concept'[e] \in Oordelen /\ concept'[e].bron = e[1]
  BY DEF RapportInv
<1>5. EenBeoordelingPerRapport'
  <2>1. /\ \A b, c \in beoordelingen' : b.bron = c.bron => b = c
        /\ verwerkt' = {b.bron : b \in beoordelingen'}
    BY DEF RapportInv, EenBeoordelingPerRapport
  <2>2. ASSUME NEW e \in verkeer \cap Leveringen, levering'[e] = "bevestigd" PROVE Beoordeeld(e[1])'
    BY <1>1, <1>2, <2>2 DEF RapportInv, EenBeoordelingPerRapport
  <2>3. ASSUME NEW e \in verkeer \cap Leveringen, levering'[e] = "verworpen"
        PROVE  fouten' > 0 \/ e[1] \in Ongeldig \cup teVroeg'
    <3>1. fouten' > 0 \/ levering[e] = "verworpen"
      BY <2>3
    <3>2. levering[e] = "verworpen" => fouten > 0 \/ e[1] \in Ongeldig \cup teVroeg
      BY DEF RapportInv, EenBeoordelingPerRapport
    <3> QED BY <3>1, <3>2, GrenzenAssumption DEF RapportInv
  <2> QED BY <2>1, <2>2, <2>3 DEF EenBeoordelingPerRapport
<1> QED BY <1>1, <1>2, <1>3, <1>4, <1>5 DEF RapportInv

LEMMA BeoordeelHoudt ==
  ASSUME RapportInv, NEW d \in Leveringen, Beoordeel(d), vastgesteld \in Seq(Pakketten),
         verkeer' = verkeer, fouten' \in 0 .. MaxFouten, fouten' >= fouten
  PROVE  RapportInv'
<1>1. \A e \in Leveringen : e[1] \in Rapporten
  BY DEF Leveringen
<1> DEFINE p == GetCurrent(Soort[d[1]])
           b == [bron |-> d[1], pakket |-> p, resultaat |-> Validator(p, Rapportwaarden(Bron[d[1]]))]
<1>2. p \in Pakketten \cup {Geen}
  BY GetCurrentKlopt
<1>3. b \in Oordelen /\ b.bron = d[1]
  BY <1>1, <1>2 DEF Oordelen, Validator
<1>4. /\ levering[d] = "gecontroleerd" /\ Naar(d, "beoordeeld") /\ concept' = [concept EXCEPT ![d] = b]
      /\ UNCHANGED <<beoordelingen, verwerkt, verbonden, teVroeg>>
  BY DEF Beoordeel
<1> HIDE DEF b
<1>5. levering' \in [Leveringen -> {"onderweg", "bevestigd", "verworpen"} \cup Lopend]
  BY <1>4 DEF RapportInv, Naar, Lopend
<1>6. concept' \in [Leveringen -> Oordelen \cup {Geen}] /\ concept'[d] = b
      /\ \A e \in Leveringen \ {d} : concept'[e] = concept[e]
  BY <1>3, <1>4 DEF RapportInv
<1>7. levering'[d] = "beoordeeld" /\ \A e \in Leveringen \ {d} : levering'[e] = levering[e]
  BY <1>4, NaarBeweegt
<1>8. verbonden' \subseteq Soorten
  BY <1>4 DEF RapportInv
<1> QED BY <1>3, <1>4, <1>5, <1>6, <1>7, <1>8, VerplaatstHoudt

\* The one beoordeling of a rapport that had none.
LEMMA LegVastHoudt ==
  ASSUME RapportInv, NEW d \in Leveringen, LegVast(d), verkeer' = verkeer,
         fouten' \in 0 .. MaxFouten, fouten' >= fouten
  PROVE  RapportInv'
<1>1. /\ levering[d] = "beoordeeld" /\ Naar(d, "vastgelegd")
      /\ beoordelingen' = beoordelingen \cup {concept[d]} /\ verwerkt' = verwerkt \cup {d[1]}
      /\ UNCHANGED <<concept, verbonden, teVroeg>>
  BY DEF LegVast
<1>2. concept[d] \in Oordelen /\ concept[d].bron = d[1] /\ ~Beoordeeld(d[1]) /\ d[1] \in Rapporten
  BY <1>1 DEF RapportInv, Leveringen
<1>3. levering'[d] = "vastgelegd" /\ \A e \in Leveringen \ {d} : levering'[e] = levering[e]
  BY <1>1, NaarBeweegt
<1>4. levering' \in [Leveringen -> {"onderweg", "bevestigd", "verworpen"} \cup Lopend]
  BY <1>1 DEF RapportInv, Naar, Lopend
<1>5. beoordelingen' \subseteq Oordelen /\ verwerkt' \subseteq Rapporten
  BY <1>1, <1>2 DEF RapportInv
<1>6. \A e \in Rapporten : Beoordeeld(e)' <=> Beoordeeld(e) \/ e = d[1]
  BY <1>1, <1>2 DEF Beoordeeld
<1>7. \A e \in Leveringen : e[1] \in Rapporten
  BY DEF Leveringen
<1>8. \A e, f \in Leveringen :
        levering'[e] \in Lopend /\ levering'[f] \in Lopend /\ Soort[e[1]] = Soort[f[1]] => e = f
  BY <1>1, <1>3 DEF RapportInv, Lopend
<1>9. \A e \in Leveringen :
        /\ levering'[e] \in {"gecontroleerd", "beoordeeld"} => ~Beoordeeld(e[1])'
        /\ levering'[e] = "vastgelegd" => Beoordeeld(e[1])'
        /\ levering'[e] = "beoordeeld" => concept'[e] \in Oordelen /\ concept'[e].bron = e[1]
  <2> SUFFICES ASSUME NEW e \in Leveringen
               PROVE  /\ levering'[e] \in {"gecontroleerd", "beoordeeld"} => ~(Beoordeeld(e[1]) \/ e[1] = d[1])
                      /\ levering'[e] = "vastgelegd" => Beoordeeld(e[1]) \/ e[1] = d[1]
                      /\ levering'[e] = "beoordeeld" => concept'[e] \in Oordelen /\ concept'[e].bron = e[1]
    BY <1>6, <1>7
  <2>1. CASE e = d
    BY <1>3, <2>1
  <2>2. CASE e # d
    <3>1. levering[e] \in {"gecontroleerd", "beoordeeld"} => e[1] # d[1]
      BY <1>1, <2>2 DEF RapportInv, Lopend
    <3> QED BY <1>1, <1>3, <2>2, <3>1 DEF RapportInv
  <2> QED BY <2>1, <2>2
<1>10. EenBeoordelingPerRapport'
  <2>1. \A b, c \in beoordelingen' : b.bron = c.bron => b = c
    BY <1>1, <1>2 DEF RapportInv, EenBeoordelingPerRapport, Beoordeeld
  <2>2. verwerkt' = {b.bron : b \in beoordelingen'}
    BY <1>1, <1>2 DEF RapportInv, EenBeoordelingPerRapport
  <2>3. ASSUME NEW e \in verkeer \cap Leveringen, levering'[e] = "bevestigd" PROVE Beoordeeld(e[1])'
    BY <1>3, <1>6, <1>7, <2>3 DEF RapportInv, EenBeoordelingPerRapport
  <2>4. ASSUME NEW e \in verkeer \cap Leveringen, levering'[e] = "verworpen"
        PROVE  fouten' > 0 \/ e[1] \in Ongeldig \cup teVroeg'
    <3>1. fouten > 0 \/ e[1] \in Ongeldig \cup teVroeg
      BY <1>3, <2>4 DEF RapportInv, EenBeoordelingPerRapport
    <3> QED BY <1>1, <3>1, GrenzenAssumption DEF RapportInv
  <2> QED BY <2>1, <2>2, <2>3, <2>4 DEF EenBeoordelingPerRapport
<1> QED BY <1>1, <1>4, <1>5, <1>8, <1>9, <1>10 DEF RapportInv

LEMMA RapportInvStap ==
  ASSUME RapportInv, RapportStap, vastgesteld \in Seq(Pakketten),
         verkeer' = verkeer, fouten' \in 0 .. MaxFouten, fouten' >= fouten
  PROVE  RapportInv'
<1>1. ASSUME NEW d \in Leveringen, VerwerkRapport(d) PROVE RapportInv'
  <2>1. CASE Ack(d)
    <3>1. /\ levering[d] = "vastgelegd"
          /\ Naar(d, "bevestigd") \/ Naar(d, "onderweg")
          /\ UNCHANGED <<concept, beoordelingen, verwerkt, verbonden, teVroeg>>
      BY <2>1 DEF Ack
    <3>2. /\ levering'[d] \in {"bevestigd", "onderweg"}
          /\ \A e \in Leveringen \ {d} : levering'[e] = levering[e]
          /\ levering' \in [Leveringen -> {"onderweg", "bevestigd", "verworpen"} \cup Lopend]
      BY <3>1 DEF RapportInv, Naar
    <3> QED BY <3>1, <3>2, VerplaatstHoudt DEF RapportInv
  <2> QED BY <1>1, <2>1, ControleerHoudt, BeoordeelHoudt, LegVastHoudt DEF VerwerkRapport
<1>2. ASSUME NEW d \in Leveringen, Weiger(d) PROVE RapportInv'
  <2>1. Naar(d, "verworpen") /\ fouten' > 0 /\ UNCHANGED <<concept, beoordelingen, verwerkt, verbonden, teVroeg>>
    BY <1>2 DEF Weiger
  <2>2. /\ levering'[d] = "verworpen" /\ \A e \in Leveringen \ {d} : levering'[e] = levering[e]
        /\ levering' \in [Leveringen -> {"onderweg", "bevestigd", "verworpen"} \cup Lopend]
    BY <2>1 DEF RapportInv, Naar
  <2> QED BY <2>1, <2>2, VerplaatstHoudt DEF RapportInv
<1>3. CASE Opnieuw
  <2>1. /\ levering' \in [Leveringen -> {"onderweg", "bevestigd", "verworpen"} \cup Lopend]
        /\ \A e \in Leveringen : levering'[e] = levering[e] \/ levering'[e] = "onderweg"
    BY <1>3 DEF Opnieuw, RapportInv
  <2> QED BY <1>3, <2>1, VerplaatstHoudt DEF Opnieuw, RapportInv
<1>4. CASE /\ verbonden' \subseteq verbonden
           /\ UNCHANGED <<levering, concept, beoordelingen, verwerkt, begonnen, teVroeg, vastgesteld>>
  <2>1. verbonden' \subseteq Soorten
    BY <1>4 DEF RapportInv
  <2> QED BY <1>4, <2>1, VerplaatstHoudt DEF RapportInv
<1>5. CASE UNCHANGED rapportVars
  <2>1. UNCHANGED <<levering, concept, beoordelingen, verwerkt, verbonden, teVroeg>>
    BY <1>5 DEF rapportVars
  <2> QED BY <2>1, VerplaatstHoudt DEF RapportInv
<1> QED BY <1>1, <1>2, <1>3, <1>4, <1>5 DEF RapportStap, rapportVars

-----------------------------------------------------------------------------
(* The values of a rapport.  Rapportwaarden is a recursion over the entries: *)
(* that it exists, and that it keeps the last value under every name.       *)

Posten == [soort : {"getal", "sensor", "tekst"}, naam : STRING, waarde : Int]

\* An entry gives a value under a name.
Geeft(post, naam) ==
  \/ post.soort \in {"getal", "sensor"} /\ post.naam = naam
  \/ post.soort = "sensor" /\ KleineLetters(post.naam) = naam

LEMMA ErbijKlopt ==
  ASSUME NEW post \in Posten, NEW w, NEW naam
  PROVE  /\ naam \in DOMAIN Erbij(w, post) <=> naam \in DOMAIN w \/ Geeft(post, naam)
         /\ Geeft(post, naam) => Erbij(w, post)[naam] = post.waarde
         /\ naam \in DOMAIN w /\ ~Geeft(post, naam) => Erbij(w, post)[naam] = w[naam]
<1>1. ASSUME NEW v, NEW n, NEW x
      PROVE  /\ naam \in DOMAIN Zet(v, n, x) <=> naam \in DOMAIN v \/ naam = n
             /\ naam = n => Zet(v, n, x)[naam] = x
             /\ naam \in DOMAIN v /\ naam # n => Zet(v, n, x)[naam] = v[naam]
  BY DEF Zet
<1>2. CASE post.soort = "getal"
  <2>1. Erbij(w, post) = Zet(w, post.naam, post.waarde)
    BY <1>2 DEF Erbij
  <2>2. Geeft(post, naam) <=> naam = post.naam
    BY <1>2 DEF Geeft
  <2> QED BY <1>1, <2>1, <2>2
<1>3. CASE post.soort = "sensor"
  <2> DEFINE klein == KleineLetters(post.naam)
             v == Zet(w, post.naam, post.waarde)
  <2>1. Erbij(w, post) = Zet(v, klein, post.waarde)
    BY <1>3 DEF Erbij
  <2>2. Geeft(post, naam) <=> naam = post.naam \/ naam = klein
    BY <1>3 DEF Geeft
  <2>3. /\ naam \in DOMAIN v <=> naam \in DOMAIN w \/ naam = post.naam
        /\ naam = post.naam => v[naam] = post.waarde
        /\ naam \in DOMAIN w /\ naam # post.naam => v[naam] = w[naam]
    BY <1>1
  <2> HIDE DEF v, klein
  <2>4. /\ naam \in DOMAIN Zet(v, klein, post.waarde) <=> naam \in DOMAIN v \/ naam = klein
        /\ naam = klein => Zet(v, klein, post.waarde)[naam] = post.waarde
        /\ naam \in DOMAIN v /\ naam # klein => Zet(v, klein, post.waarde)[naam] = v[naam]
    BY <1>1
  <2> QED BY <2>1, <2>2, <2>3, <2>4
<1>4. CASE post.soort = "tekst"
  <2>1. Erbij(w, post) = w
    BY <1>4 DEF Erbij
  <2>2. ~Geeft(post, naam)
    BY <1>4 DEF Geeft
  <2> QED BY <2>1, <2>2
<1> QED BY <1>2, <1>3, <1>4 DEF Posten

\* What the recursion says of its values g up to the n-th entry.
Loopt(g, bron, n) ==
  g = [k \in 0 .. n |-> IF k = 0 THEN <<>> ELSE Erbij(g[k - 1], bron[k])]

Verloop(bron) == CHOOSE g : Loopt(g, bron, Len(bron))

LEMMA RapportwaardenIsVerloop == \A bron : Rapportwaarden(bron) = Verloop(bron)[Len(bron)]
BY DEF Rapportwaarden, Verloop, Loopt

LEMMA VerloopBestaat ==
  ASSUME NEW bron \in Seq(Posten)
  PROVE  Loopt(Verloop(bron), bron, Len(bron))
<1> DEFINE T == {n \in 0 .. Len(bron) : ~ \E g : Loopt(g, bron, n)}
<1>1. SUFFICES ASSUME T # {} PROVE FALSE
  <2>1. Len(bron) \in 0 .. Len(bron)
    OBVIOUS
  <2> QED BY <2>1 DEF Verloop
<1>2. PICK n \in T : \A m \in T : n <= m
  <2>1. T \subseteq Nat
    OBVIOUS
  <2> HIDE DEF T
  <2> QED BY <1>1, <2>1, KleinsteGetal
<1>3. CASE n = 0
  <2> DEFINE g == [k \in 0 .. 0 |-> <<>>]
  <2>1. g = [k \in 0 .. 0 |-> IF k = 0 THEN <<>> ELSE Erbij(g[k - 1], bron[k])]
    OBVIOUS
  <2> HIDE DEF g
  <2> QED BY <1>2, <1>3, <2>1 DEF Loopt
<1>4. CASE n # 0
  <2>1. n - 1 \in 0 .. Len(bron) /\ n - 1 \notin T /\ n \in Nat
    BY <1>2, <1>4
  <2>2. PICK g : Loopt(g, bron, n - 1)
    BY <2>1
  <2> DEFINE h == [k \in 0 .. n |-> IF k = n THEN Erbij(g[n - 1], bron[n]) ELSE g[k]]
  <2>3. \A k \in 0 .. n - 1 : g[k] = IF k = 0 THEN <<>> ELSE Erbij(g[k - 1], bron[k])
    BY <2>2 DEF Loopt
  <2>4. ASSUME NEW k \in 0 .. n PROVE h[k] = IF k = 0 THEN <<>> ELSE Erbij(h[k - 1], bron[k])
    <3>1. CASE k = n
      <4>1. h[k - 1] = g[n - 1] /\ h[k] = Erbij(g[n - 1], bron[n]) /\ k # 0
        BY <1>4, <2>1, <3>1
      <4> QED BY <3>1, <4>1
    <3>2. CASE k # n /\ k # 0
      <4>1. k - 1 \in 0 .. n /\ k - 1 # n /\ k \in 0 .. n - 1
        BY <2>1, <3>2
      <4>2. h[k - 1] = g[k - 1] /\ h[k] = g[k]
        BY <3>2, <4>1
      <4> QED BY <2>3, <3>2, <4>1, <4>2
    <3>3. CASE k = 0
      <4>1. h[k] = g[k] /\ k \in 0 .. n - 1
        BY <1>4, <2>1, <3>3
      <4> QED BY <2>3, <3>3, <4>1
    <3> QED BY <3>1, <3>2, <3>3
  <2>5. h = [k \in 0 .. n |-> h[k]]
    OBVIOUS
  <2> HIDE DEF h
  <2>6. Loopt(h, bron, n)
    BY <2>4, <2>5 DEF Loopt
  <2> QED BY <1>2, <2>6
<1> QED BY <1>3, <1>4

\* The values w after k entries: under each name the last value that was given.
Bijgehouden(w, bron, k) ==
  \A naam :
    /\ naam \in DOMAIN w <=> \E i \in Genoemd(bron, naam) : i <= k
    /\ \A i \in Genoemd(bron, naam) :
         i <= k /\ (\A j \in Genoemd(bron, naam) : j <= k => j <= i) => w[naam] = bron[i].waarde

LEMMA BijgehoudenStap ==
  ASSUME NEW bron \in Seq(Posten), NEW k \in 1 .. Len(bron), NEW w, Bijgehouden(w, bron, k - 1)
  PROVE  Bijgehouden(Erbij(w, bron[k]), bron, k)
<1> DEFINE v == Erbij(w, bron[k])
<1>1. bron[k] \in Posten /\ k \in Nat /\ Len(bron) \in Nat
  OBVIOUS
<1> SUFFICES ASSUME NEW naam
             PROVE  /\ naam \in DOMAIN v <=> \E i \in Genoemd(bron, naam) : i <= k
                    /\ \A i \in Genoemd(bron, naam) :
                         i <= k /\ (\A j \in Genoemd(bron, naam) : j <= k => j <= i)
                           => v[naam] = bron[i].waarde
  BY DEF Bijgehouden
<1>2. \A i \in 1 .. Len(bron) : i \in Genoemd(bron, naam) <=> Geeft(bron[i], naam)
  BY DEF Genoemd, Geeft
<1>3. Genoemd(bron, naam) \subseteq 1 .. Len(bron)
  BY DEF Genoemd
<1>4. /\ naam \in DOMAIN v <=> naam \in DOMAIN w \/ Geeft(bron[k], naam)
      /\ Geeft(bron[k], naam) => v[naam] = bron[k].waarde
      /\ naam \in DOMAIN w /\ ~Geeft(bron[k], naam) => v[naam] = w[naam]
  BY <1>1, ErbijKlopt
<1> DEFINE G == Genoemd(bron, naam)
<1>5. /\ naam \in DOMAIN w <=> \E i \in G : i <= k - 1
      /\ \A i \in G : i <= k - 1 /\ (\A j \in G : j <= k - 1 => j <= i) => w[naam] = bron[i].waarde
  BY DEF Bijgehouden
<1>6. G \subseteq 1 .. Len(bron) /\ (k \in G <=> Geeft(bron[k], naam))
  BY <1>2, <1>3
<1> HIDE DEF v, G
<1>7. naam \in DOMAIN v <=> \E i \in G : i <= k
  BY <1>1, <1>4, <1>5, <1>6
<1>8. ASSUME NEW i \in G, i <= k, \A j \in G : j <= k => j <= i
      PROVE  v[naam] = bron[i].waarde
  <2>1. CASE k \in G
    <3>1. i = k
      BY <1>1, <1>6, <1>8, <2>1
    <3> QED BY <1>4, <1>6, <2>1, <3>1
  <2>2. CASE k \notin G
    <3>1. i <= k - 1 /\ \A j \in G : j <= k - 1 => j <= i
      BY <1>1, <1>6, <1>8, <2>2
    <3> QED BY <1>4, <1>5, <1>6, <2>2, <3>1
  <2> QED BY <2>1, <2>2
<1> QED BY <1>7, <1>8 DEF G

\* Under a name a rapport has the value that it gives last, or none if it gives none.
LEMMA RapportwaardenKlopt ==
  ASSUME NEW bron \in Seq(Posten), NEW naam
  PROVE  /\ naam \in DOMAIN Rapportwaarden(bron) <=> Genoemd(bron, naam) # {}
         /\ naam \in DOMAIN Rapportwaarden(bron) =>
              Rapportwaarden(bron)[naam] = LaatsteWaarde(bron, naam)
<1> DEFINE g == Verloop(bron)
           T == {k \in 0 .. Len(bron) : ~Bijgehouden(g[k], bron, k)}
<1>1. \A k \in 0 .. Len(bron) : g[k] = IF k = 0 THEN <<>> ELSE Erbij(g[k - 1], bron[k])
  BY VerloopBestaat DEF Loopt
<1> HIDE DEF g
<1>2. T = {}
  <2> SUFFICES ASSUME T # {} PROVE FALSE
    OBVIOUS
  <2>1. PICK k \in T : \A m \in T : k <= m
    <3>1. T \subseteq Nat
      OBVIOUS
    <3> HIDE DEF T
    <3> QED BY <3>1, KleinsteGetal
  <2>2. CASE k = 0
    <3>1. g[k] = <<>>
      BY <1>1, <2>2
    <3>2. \A n : \A i \in Genoemd(bron, n) : ~(i <= k)
      BY <2>2 DEF Genoemd
    <3>3. Bijgehouden(g[k], bron, k)
      BY <3>1, <3>2 DEF Bijgehouden
    <3> QED BY <2>1, <3>3
  <2>3. CASE k # 0
    <3>1. k \in 1 .. Len(bron) /\ k - 1 \in 0 .. Len(bron) /\ k - 1 \notin T
      BY <2>1, <2>3
    <3>2. Bijgehouden(g[k - 1], bron, k - 1) /\ g[k] = Erbij(g[k - 1], bron[k])
      BY <1>1, <3>1
    <3>3. Bijgehouden(g[k], bron, k)
      BY <3>1, <3>2, BijgehoudenStap
    <3> QED BY <2>1, <3>3
  <2> QED BY <2>2, <2>3
<1>3. Bijgehouden(Rapportwaarden(bron), bron, Len(bron))
  BY <1>2, RapportwaardenIsVerloop DEF g
<1> DEFINE G == Genoemd(bron, naam)
<1>4. G \subseteq 1 .. Len(bron) /\ Len(bron) \in Nat
  BY DEF Genoemd
<1>5. naam \in DOMAIN Rapportwaarden(bron) <=> G # {}
  BY <1>3, <1>4 DEF Bijgehouden
<1>6. ASSUME G # {} PROVE Rapportwaarden(bron)[naam] = LaatsteWaarde(bron, naam)
  <2> DEFINE laatste == CHOOSE i \in G : \A j \in G : j <= i
  <2>1. \E i \in G : \A j \in G : j <= i
    <3> HIDE DEF G
    <3> QED BY <1>4, <1>6, GrootsteGetal
  <2>2. laatste \in G /\ \A j \in G : j <= laatste
    <3> HIDE DEF G
    <3> QED BY <2>1
  <2>3. LaatsteWaarde(bron, naam) = bron[laatste].waarde
    BY DEF LaatsteWaarde
  <2> HIDE DEF laatste
  <2>4. laatste <= Len(bron)
    BY <1>4, <2>2
  <2>5. Rapportwaarden(bron)[naam] = bron[laatste].waarde
    BY <1>3, <2>2, <2>4 DEF Bijgehouden
  <2> QED BY <2>3, <2>5
<1> QED BY <1>5, <1>6

-----------------------------------------------------------------------------
(* The validator, and every step keeps PakketInv *)

\* An eis has a value exactly when the rapport gives one under the name that counts.
LEMMA WaardeKlopt ==
  ASSUME NEW e \in Rapporten, NEW eis
  PROVE  LET w == Rapportwaarden(Bron[e])
         IN  /\ Gemeten(eis, w) <=> ~Zonder(e, eis)
             /\ Gemeten(eis, w) => (Vergelijk(WaardeVoorEis(eis, w), eis) <=> Gehaald(e, eis))
<1> DEFINE w == Rapportwaarden(Bron[e])
           m == eis.meetwaarde
           c == eis.code
<1>1. Bron[e] \in Seq(Posten)
  BY RapportenAssumption DEF Posten
<1>2. /\ m \in DOMAIN w <=> Genoemd(Bron[e], m) # {}
      /\ m \in DOMAIN w => w[m] = LaatsteWaarde(Bron[e], m)
      /\ c \in DOMAIN w <=> Genoemd(Bron[e], c) # {}
      /\ c \in DOMAIN w => w[c] = LaatsteWaarde(Bron[e], c)
  BY <1>1, RapportwaardenKlopt
<1>3. Gemeten(eis, w) <=> m \in DOMAIN w \/ c \in DOMAIN w
  BY DEF Gemeten
<1>4. WaardeVoorEis(eis, w) = IF m \in DOMAIN w THEN w[m] ELSE w[c]
  BY DEF WaardeVoorEis
<1>5. NaamVoor(e, eis) = IF Genoemd(Bron[e], m) # {} THEN m ELSE c
  BY DEF NaamVoor
<1> HIDE DEF w, m, c
<1>6. Gemeten(eis, w) <=> ~Zonder(e, eis)
  BY <1>2, <1>3, <1>5 DEF Zonder
<1>7. Gemeten(eis, w) => WaardeVoorEis(eis, w) = LaatsteWaarde(Bron[e], NaamVoor(e, eis))
  BY <1>2, <1>3, <1>4, <1>5
<1>8. Gemeten(eis, w) => (Vergelijk(WaardeVoorEis(eis, w), eis) <=> Gehaald(e, eis))
  BY <1>6, <1>7 DEF Gehaald
<1> QED BY <1>6, <1>8 DEF w

\* The verdict is about all eisen of the pakket.
LEMMA ValidatorKlopt ==
  ASSUME NEW e \in Rapporten, NEW p \in Pakketten
  PROVE  LET oordeel == Validator(p, Rapportwaarden(Bron[e]))
         IN  /\ oordeel = "Voldoet" <=> \A eis \in EisenVan[p] : Gehaald(e, eis)
             /\ oordeel = "VoldoetNiet" <=> \E eis \in EisenVan[p] : ~Gehaald(e, eis) /\ ~Zonder(e, eis)
<1> DEFINE w == Rapportwaarden(Bron[e])
           gemeten == {eis \in EisenVan[p] : Gemeten(eis, w)}
           oordeel == Validator(p, w)
           faalt == \E eis \in gemeten : ~Vergelijk(WaardeVoorEis(eis, w), eis)
<1>1. p # Geen /\ EisenVan[p] # {}
  BY RapportenAssumption
<1>2. oordeel = IF gemeten = {} THEN "NietTeBeoordelen"
                ELSE IF faalt THEN "VoldoetNiet"
                ELSE IF gemeten # EisenVan[p] THEN "NietTeBeoordelen"
                ELSE "Voldoet"
  BY <1>1 DEF Validator
<1>3. \A eis \in EisenVan[p] : /\ eis \in gemeten <=> ~Zonder(e, eis)
                               /\ eis \in gemeten => (Vergelijk(WaardeVoorEis(eis, w), eis) <=> Gehaald(e, eis))
  BY WaardeKlopt
<1>4. \A eis : Gehaald(e, eis) => ~Zonder(e, eis)
  BY DEF Gehaald
<1>5. gemeten \subseteq EisenVan[p]
  OBVIOUS
<1>6. faalt <=> \E eis \in EisenVan[p] : ~Gehaald(e, eis) /\ ~Zonder(e, eis)
  BY <1>3, <1>5
<1> HIDE DEF faalt, oordeel, gemeten
<1>7. oordeel = "VoldoetNiet" <=> faalt /\ gemeten # {}
  BY <1>2
<1>8. faalt => gemeten # {}
  BY DEF faalt
<1>9. oordeel = "Voldoet" <=> gemeten = EisenVan[p] /\ ~faalt
  BY <1>1, <1>2
<1>10. gemeten = EisenVan[p] /\ ~faalt <=> \A eis \in EisenVan[p] : Gehaald(e, eis)
  BY <1>3, <1>4, <1>5, <1>6
<1> QED BY <1>6, <1>7, <1>8, <1>9, <1>10 DEF oordeel, w

\* What BeoordelingKlopt says of one delivery.
OordeelKlopt(d) ==
  LET e == d[1]
      b == concept[d]
      toen == {i \in 1 .. begonnen[d] : Soort[vastgesteld[i]] = Soort[e]}
  IN  IF b.pakket = Geen
      THEN toen = {} /\ b.resultaat = "NietTeBeoordelen"
      ELSE /\ \E i \in DOMAIN vastgesteld :
                vastgesteld[i] = b.pakket /\ \A j \in toen : j <= i
           /\ Soort[b.pakket] = Soort[e]
           /\ b.resultaat = "Voldoet" <=> \A eis \in EisenVan[b.pakket] : Gehaald(e, eis)
           /\ b.resultaat = "VoldoetNiet" <=>
                \E eis \in EisenVan[b.pakket] : ~Gehaald(e, eis) /\ ~Zonder(e, eis)

LEMMA BeoordelingIsOordeel ==
  /\ BeoordelingKlopt <=>
       \A d \in Leveringen :
         levering[d] \in {"beoordeeld", "vastgelegd"} /\ concept[d] # Geen => OordeelKlopt(d)
  /\ BeoordelingKlopt' <=>
       \A d \in Leveringen :
         levering'[d] \in {"beoordeeld", "vastgelegd"} /\ concept'[d] # Geen => OordeelKlopt(d)'
BY DEF BeoordelingKlopt, OordeelKlopt

\* It stays true while pakketten are added behind the others.
LEMMA OordeelBlijft ==
  ASSUME PakketInv, NEW d \in Leveringen, OordeelKlopt(d),
         concept'[d] = concept[d], begonnen'[d] = begonnen[d],
         vastgesteld' = vastgesteld \/ \E p \in Pakketten : vastgesteld' = Append(vastgesteld, p)
  PROVE  OordeelKlopt(d)'
<1>1. /\ \A i \in 1 .. Len(vastgesteld) : vastgesteld'[i] = vastgesteld[i]
      /\ DOMAIN vastgesteld \subseteq DOMAIN vastgesteld' /\ DOMAIN vastgesteld = 1 .. Len(vastgesteld)
  BY DEF PakketInv
<1>2. begonnen[d] \in Nat /\ begonnen[d] <= Len(vastgesteld) /\ Len(vastgesteld) \in Nat
  BY DEF PakketInv
<1>3. {i \in 1 .. begonnen'[d] : Soort[vastgesteld'[i]] = Soort[d[1]]}
        = {i \in 1 .. begonnen[d] : Soort[vastgesteld[i]] = Soort[d[1]]}
  BY <1>1, <1>2
<1> QED BY <1>1, <1>3 DEF OordeelKlopt, Gehaald, Zonder

LEMMA PakketInit == Init => PakketInv
<1> SUFFICES ASSUME Init PROVE PakketInv
  OBVIOUS
<1>1. /\ vastgesteld = <<>> /\ begonnen = [d \in Leveringen |-> 0]
      /\ \A d \in Leveringen : concept[d] = Geen
  BY DEF Init
<1>2. BeoordelingKlopt
  BY <1>1, BeoordelingIsOordeel
<1> QED BY <1>1, <1>2 DEF PakketInv, IsInjective

\* A delivery that is judged now is judged by the pakket in force.
LEMMA NieuwOordeel ==
  ASSUME PakketInv, RapportInv, NEW d \in Leveringen, Beoordeel(d), vastgesteld' = vastgesteld
  PROVE  OordeelKlopt(d)'
<1> DEFINE e == d[1]
           p == GetCurrent(Soort[e])
           b == [bron |-> e, pakket |-> p, resultaat |-> Validator(p, Rapportwaarden(Bron[e]))]
           toen == {i \in 1 .. begonnen[d] : Soort[vastgesteld[i]] = Soort[e]}
<1>1. e \in Rapporten
  BY DEF Leveringen
<1>2. concept'[d] = b /\ begonnen'[d] = begonnen[d]
  BY DEF Beoordeel, RapportInv
<1>3. /\ begonnen[d] \in Nat /\ begonnen[d] <= Len(vastgesteld) /\ Len(vastgesteld) \in Nat
      /\ vastgesteld \in Seq(Pakketten) /\ DOMAIN vastgesteld = 1 .. Len(vastgesteld)
  BY DEF PakketInv
<1>4. b.pakket = p /\ b.resultaat = Validator(p, Rapportwaarden(Bron[e]))
  OBVIOUS
<1>5. CASE /\ \A i \in 1 .. Len(vastgesteld) : Soort[vastgesteld[i]] # Soort[e]
           /\ p = Geen
  <2>1. toen = {}
    BY <1>3, <1>5
  <2>2. b.resultaat = "NietTeBeoordelen"
    BY <1>4, <1>5 DEF Validator
  <2> HIDE DEF b, p
  <2> QED BY <1>2, <1>4, <1>5, <2>1, <2>2 DEF OordeelKlopt
<1>6. CASE \E i \in 1 .. Len(vastgesteld) :
             /\ p = vastgesteld[i] /\ Soort[vastgesteld[i]] = Soort[e]
             /\ \A j \in 1 .. Len(vastgesteld) : Soort[vastgesteld[j]] = Soort[e] => j <= i
  <2>1. p \in Pakketten /\ p # Geen /\ Soort[p] = Soort[e]
    BY <1>3, <1>6, RapportenAssumption
  <2>2. \E i \in DOMAIN vastgesteld : vastgesteld[i] = p /\ \A j \in toen : j <= i
    BY <1>3, <1>6
  <2>3. /\ b.resultaat = "Voldoet" <=> \A eis \in EisenVan[p] : Gehaald(e, eis)
        /\ b.resultaat = "VoldoetNiet" <=> \E eis \in EisenVan[p] : ~Gehaald(e, eis) /\ ~Zonder(e, eis)
    BY <1>1, <1>4, <2>1, ValidatorKlopt
  <2> HIDE DEF b, p
  <2> QED BY <1>2, <1>4, <2>1, <2>2, <2>3 DEF OordeelKlopt, Gehaald, Zonder
<1> QED BY <1>3, <1>5, <1>6, GetCurrentKlopt

LEMMA PakketInvStap ==
  ASSUME PakketInv, RapportInv, RapportStap
  PROVE  PakketInv'
<1>1. vastgesteld \in Seq(Pakketten) /\ Len(vastgesteld) \in Nat /\ IsInjective(vastgesteld)
  BY DEF PakketInv
\* A step that judges nothing: what is left as a judged delivery was one.
<1>2. ASSUME vastgesteld' = vastgesteld \/ \E p \in Pakketten : vastgesteld' = Append(vastgesteld, p),
             begonnen' = begonnen, concept' = concept,
             \A d \in Leveringen : levering'[d] \in {"beoordeeld", "vastgelegd"} =>
                                     levering[d] \in {"beoordeeld", "vastgelegd"}
      PROVE  BeoordelingKlopt'
  <2>1. \A d \in Leveringen :
          levering'[d] \in {"beoordeeld", "vastgelegd"} /\ concept'[d] # Geen => OordeelKlopt(d)'
    BY <1>2, OordeelBlijft, BeoordelingIsOordeel DEF PakketInv
  <2> QED BY <2>1, BeoordelingIsOordeel
<1>3. CASE UNCHANGED <<rapportVars, vastgesteld>>
  <2>1. UNCHANGED <<vastgesteld, begonnen, concept, levering>>
    BY <1>3 DEF rapportVars
  <2> QED BY <1>2, <2>1 DEF PakketInv
<1>4. ASSUME NEW p \in Pakketten, StelEisenVast(p), UNCHANGED rapportVars PROVE PakketInv'
  <2>1. UNCHANGED <<begonnen, concept, levering>> /\ vastgesteld' = Append(vastgesteld, p)
        /\ p \notin Range(vastgesteld)
    BY <1>4 DEF rapportVars, StelEisenVast
  <2>2. /\ vastgesteld' \in Seq(Pakketten) /\ Len(vastgesteld') = Len(vastgesteld) + 1
        /\ DOMAIN vastgesteld' = 1 .. Len(vastgesteld) + 1 /\ DOMAIN vastgesteld = 1 .. Len(vastgesteld)
        /\ vastgesteld'[Len(vastgesteld) + 1] = p
        /\ \A i \in 1 .. Len(vastgesteld) : vastgesteld'[i] = vastgesteld[i]
    BY <1>1, <2>1
  <2>3. IsInjective(vastgesteld')
    <3>1. \A i \in 1 .. Len(vastgesteld) : vastgesteld[i] # p
      BY <2>1, <2>2 DEF Range
    <3> QED BY <1>1, <2>2, <3>1 DEF IsInjective
  <2>4. \A d \in Leveringen : begonnen[d] <= Len(vastgesteld')
    BY <1>1, <2>2 DEF PakketInv
  <2> QED BY <1>2, <2>1, <2>2, <2>3, <2>4 DEF PakketInv
<1>5. ASSUME NEW d \in Leveringen, Controleer(d), vastgesteld' = vastgesteld PROVE PakketInv'
  <2>1. /\ begonnen' = [begonnen EXCEPT ![d] = Len(vastgesteld)] /\ concept' = [concept EXCEPT ![d] = Geen]
        /\ \E plaats : Naar(d, plaats)
    BY <1>5 DEF Controleer
  <2>2. /\ begonnen' \in [Leveringen -> Nat] /\ \A e \in Leveringen : begonnen'[e] <= Len(vastgesteld)
        /\ concept'[d] = Geen
        /\ \A e \in Leveringen \ {d} : begonnen'[e] = begonnen[e] /\ concept'[e] = concept[e]
    BY <1>1, <2>1 DEF PakketInv, RapportInv
  <2>3. \A e \in Leveringen \ {d} : levering'[e] = levering[e]
    BY <2>1, NaarBeweegt
  <2>4. \A e \in Leveringen :
          levering'[e] \in {"beoordeeld", "vastgelegd"} /\ concept'[e] # Geen => OordeelKlopt(e)'
    BY <1>5, <2>2, <2>3, OordeelBlijft, BeoordelingIsOordeel DEF PakketInv
  <2>5. BeoordelingKlopt'
    BY <2>4, BeoordelingIsOordeel
  <2> QED BY <1>1, <1>5, <2>2, <2>5 DEF PakketInv
<1>6. ASSUME NEW d \in Leveringen, Beoordeel(d), vastgesteld' = vastgesteld PROVE PakketInv'
  <2>1. begonnen' = begonnen /\ \A e \in Leveringen \ {d} : concept'[e] = concept[e]
    BY <1>6 DEF Beoordeel, RapportInv
  <2>2. \A e \in Leveringen \ {d} : levering'[e] = levering[e]
    BY <1>6, NaarBeweegt DEF Beoordeel
  <2>3. OordeelKlopt(d)'
    BY <1>6, NieuwOordeel
  <2>4. \A e \in Leveringen :
          levering'[e] \in {"beoordeeld", "vastgelegd"} /\ concept'[e] # Geen => OordeelKlopt(e)'
    BY <1>6, <2>1, <2>2, <2>3, OordeelBlijft, BeoordelingIsOordeel DEF PakketInv
  <2>5. BeoordelingKlopt'
    BY <2>4, BeoordelingIsOordeel
  <2> QED BY <1>6, <2>1, <2>5 DEF PakketInv
<1>7. ASSUME NEW d \in Leveringen, LegVast(d) \/ Ack(d), vastgesteld' = vastgesteld PROVE PakketInv'
  <2>1. begonnen' = begonnen /\ concept' = concept
    BY <1>7 DEF LegVast, Ack
  <2>2. /\ \A e \in Leveringen \ {d} : levering'[e] = levering[e]
        /\ levering[d] \in {"beoordeeld", "vastgelegd"}
    BY <1>7, NaarBeweegt DEF LegVast, Ack
  <2>3. BeoordelingKlopt'
    BY <1>2, <1>7, <2>1, <2>2
  <2> QED BY <1>7, <2>1, <2>3 DEF PakketInv
<1>8. ASSUME NEW d \in Leveringen, Weiger(d) PROVE PakketInv'
  <2>1. UNCHANGED <<begonnen, concept, vastgesteld>> /\ Naar(d, "verworpen")
    BY <1>8 DEF Weiger
  <2>2. levering'[d] = "verworpen" /\ \A e \in Leveringen \ {d} : levering'[e] = levering[e]
    BY <2>1, NaarBeweegt
  <2>3. BeoordelingKlopt'
    BY <1>2, <2>1, <2>2
  <2> QED BY <2>1, <2>3 DEF PakketInv
<1>9. CASE UNCHANGED <<levering, concept, beoordelingen, verwerkt, begonnen, teVroeg, vastgesteld>>
  BY <1>2, <1>9 DEF PakketInv
<1>10. CASE Opnieuw
  <2>1. UNCHANGED <<begonnen, concept, vastgesteld>>
        /\ \A e \in Leveringen : levering'[e] = levering[e] \/ levering'[e] = "onderweg"
    BY <1>10 DEF Opnieuw
  <2>2. BeoordelingKlopt'
    BY <1>2, <2>1
  <2> QED BY <2>1, <2>2 DEF PakketInv
<1> QED BY <1>3, <1>4, <1>5, <1>6, <1>7, <1>8, <1>9, <1>10 DEF RapportStap, VerwerkRapport

-----------------------------------------------------------------------------
(* The theorems *)

LEMMA RegisterInit == Init => RegisterInv
<1> SUFFICES ASSUME Init PROVE RegisterInv
  OBVIOUS
<1>1. RegisterTypeInv
  BY RegisterTypeInit
<1>2. /\ \A r \in Verzoeken : pc[r] = "nieuw" /\ ~Aanvaard(r) /\ pc[r] \notin Bezig /\ pc[r] \notin Open
      /\ gepubliceerd = <<>> /\ rij = verwacht
  BY DEF Init, Aanvaard, Range, Bezig, Open
<1>3. Cardinality(Gesteld) = 0
  <2>1. Gesteld = {}
    BY <1>2 DEF Gesteld, Verzoeken
  <2> QED BY <2>1, FS_EmptySet
<1>4. BuitengebruikGeteld
  BY <1>3, Eindig DEF BuitengebruikGeteld
<1> QED BY <1>1, <1>2, <1>4 DEF RegisterInv, EenRegistratie, SerieKlopt, Verzoeken

LEMMA BeheerBegin == Init => BeheerInv
BY RegisterInit, RapportInit, PakketInit DEF BeheerInv

LEMMA BeheerStap == BeheerInv /\ [Next]_vars => BeheerInv'
<1> SUFFICES ASSUME BeheerInv, [Next]_vars PROVE BeheerInv'
  OBVIOUS
<1>1. RegisterInv /\ RapportInv /\ PakketInv /\ fouten \in 0 .. MaxFouten /\ vastgesteld \in Seq(Pakketten)
  BY DEF BeheerInv, RapportInv, PakketInv
<1>2. /\ RegisterStap /\ RapportStap
      /\ verkeer' = verkeer /\ fouten' \in 0 .. MaxFouten /\ fouten' >= fouten
  BY <1>1, Stappen
<1>3. RegisterInv'
  BY <1>1, <1>2, RegisterTypeStap, EenRegistratieStap, SerieStap DEF RegisterInv
<1>4. RapportInv'
  BY <1>1, <1>2, RapportInvStap
<1>5. PakketInv'
  BY <1>1, <1>2, PakketInvStap
<1> QED BY <1>3, <1>4, <1>5 DEF BeheerInv

LEMMA BeheerAltijd == Spec => []BeheerInv
BY BeheerBegin, BeheerStap, PTL DEF Spec

\* Every variable of Beheer keeps its type; no pakket is laid down twice and no event
\* reaches the broker twice.
THEOREM TypeCorrect == Spec => []TypeOK
<1>1. BeheerInv => TypeOK
  <2> SUFFICES ASSUME BeheerInv PROVE TypeOK
    OBVIOUS
  <2>1. \A i \in DOMAIN gepubliceerd : gepubliceerd[i] \in Verzoeken \ Wijzigingen
    BY DEF BeheerInv, RegisterInv, RegisterTypeInv
  <2> QED BY <2>1 DEF BeheerInv, RegisterInv, RegisterTypeInv, RapportInv, PakketInv, TypeOK, Plaatsen
<1> QED BY <1>1, BeheerAltijd, PTL

\* For any number of requests at most one registratie is accepted, and without overlap the
\* row, and the order in which the events reach the broker, are those of a series.
THEOREM RegisterBlijftKloppen == Spec => []RegisterKlopt
<1>1. BeheerInv => RegisterKlopt
  <2> SUFFICES ASSUME BeheerInv PROVE RegisterKlopt
    OBVIOUS
  <2>1. RegisterTypeInv /\ EenRegistratie /\ (~samenloop => SerieKlopt)
    BY DEF BeheerInv, RegisterInv
  <2>2. Cardinality({r \in Registraties : pc[r] = "gecommit" \/ r \in Range(gepubliceerd)}) <= 1
    <3> DEFINE A == {r \in Registraties : pc[r] = "gecommit" \/ r \in Range(gepubliceerd)}
    <3>1. \A r, q \in A : r = q
      BY <2>1 DEF EenRegistratie, Aanvaard
    <3>2. A = {} \/ \E r : A = {r}
      BY <3>1
    <3> HIDE DEF A
    <3>3. CASE A = {}
      BY <3>3, FS_EmptySet DEF A
    <3>4. CASE \E r : A = {r}
      <4>1. PICK r : A = {r}
        BY <3>4
      <4>2. Cardinality(A) = 1
        BY <4>1, FS_Singleton
      <4> QED BY <4>2 DEF A
    <3> QED BY <3>2, <3>3, <3>4
  <2>3. ASSUME ~samenloop
        PROVE  Cardinality(Range(gepubliceerd) \cap Buitenstellingen) <=
                 1 + Cardinality({w \in Wijzigingen : pc[w] = "klaar" /\ Opgave[w].status # Geen})
    <3>1. Range(gepubliceerd) \cap Buitenstellingen \subseteq Gesteld
      BY DEF Gesteld, Aanvaard
    <3>2. /\ Cardinality(Range(gepubliceerd) \cap Buitenstellingen) <= Cardinality(Gesteld)
          /\ Cardinality(Range(gepubliceerd) \cap Buitenstellingen) \in Nat
      BY <3>1, Eindig, FS_Subset, FS_CardinalityType
    <3>3. BuitengebruikGeteld
      BY <2>1, <2>3 DEF SerieKlopt
    <3>4. Cardinality(Gesteld) <= 1 + Cardinality(StatusGewijzigd)
      BY <3>3, Eindig DEF BuitengebruikGeteld
    <3> QED BY <3>2, <3>4, Eindig DEF StatusGewijzigd
  <2> QED BY <2>1, <2>2, <2>3 DEF RegisterKlopt, SerieKlopt
<1> QED BY <1>1, BeheerAltijd, PTL

\* Through repetition by the producer, lost connections, redelivery and restarts: a rapport
\* has one beoordeling at most, an acknowledged one has it, and none is refused without a
\* fault but for its envelope or for want of a kunstwerk.
THEOREM EenBeoordeling == Spec => []EenBeoordelingPerRapport
<1>1. BeheerInv => EenBeoordelingPerRapport
  BY DEF BeheerInv, RapportInv
<1> QED BY <1>1, BeheerAltijd, PTL

\* For any eisen and any entries of a rapport: the verdict is that of the values the rapport
\* gives, under a pakket of its soort that is not older than the delivery.
THEOREM BeoordelingBlijftKloppen == Spec => []BeoordelingKlopt
<1>1. BeheerInv => BeoordelingKlopt
  BY DEF BeheerInv, PakketInv
<1> QED BY <1>1, BeheerAltijd, PTL

GroeitAlleen ==
  /\ beoordelingen \subseteq beoordelingen'
  /\ Len(vastgesteld) <= Len(vastgesteld')
  /\ \A i \in 1 .. Len(vastgesteld) : vastgesteld'[i] = vastgesteld[i]

\* A beoordeling is never withdrawn or changed, and a pakket keeps its place.
THEOREM BeoordelingBlijft == Spec => [][GroeitAlleen]_vars
<1>1. BeheerInv /\ [Next]_vars => GroeitAlleen
  <2> SUFFICES ASSUME BeheerInv, [Next]_vars PROVE GroeitAlleen
    OBVIOUS
  <2>1. vastgesteld \in Seq(Pakketten) /\ RapportStap
    BY Stappen DEF BeheerInv, RapportInv, PakketInv
  <2>2. vastgesteld' = vastgesteld \/ \E p \in Pakketten : vastgesteld' = Append(vastgesteld, p)
    BY <2>1 DEF RapportStap, StelEisenVast, Weiger, Opnieuw
  <2>3. beoordelingen \subseteq beoordelingen'
    BY <2>1 DEF RapportStap, rapportVars, VerwerkRapport, Controleer, Beoordeel, LegVast, Ack, Weiger, Opnieuw
  <2> QED BY <2>1, <2>2, <2>3 DEF GroeitAlleen
<1> QED BY <1>1, BeheerAltijd, PTL DEF Spec
=============================================================================
