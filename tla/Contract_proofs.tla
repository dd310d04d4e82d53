---------------------------- MODULE Contract_proofs ----------------------------
(***************************************************************************)
(* Proofs about the tender and the outbox of the Contract service.         *)
(*                                                                         *)
(* Aanbesteding: for every set of inschrijvers and gunners, every offer    *)
(* and every pair of weights.                                              *)
(*                                                                         *)
(* OutboxRelay: for any number of events, calls of publiceer, overlapping  *)
(* batches and faults, and any batch size.  The safety part of the         *)
(* refinement is proved; that everything is delivered or lost in the end   *)
(* stays with TLC.                                                         *)
(***************************************************************************)
EXTENDS Aanbesteding, OutboxRelay, Integers, FiniteSetTheorems, TLAPS

-----------------------------------------------------------------------------
(* Aanbesteding *)

\* Until the tender exists nobody has read it.
PublicatieInv ==
  /\ pc[Publicatie] \in {"nieuw", "bewaard", "klaar", "mislukt"}
  /\ pc[Publicatie] = "nieuw" => status = "Ontbreekt"
  /\ status = "Ontbreekt" =>
       \A r \in Inschrijvers \cup Gunners : pc[r] \in {"nieuw", "afgewezen"}

\* How far a gunning is determines which of its two saves and its events are there.
GunningInv ==
  \A g \in Gunners :
    /\ winnaar[g] # Geen => winnaar[g] \in Winnaars(gezien[g])
    /\ contract[g] # Geen => contract[g] = winnaar[g]
    /\ pc[g] \in {"nieuw", "afgewezen"} \cup Geladen => winnaar[g] = Geen
    /\ pc[g] = "gegund" => winnaar[g] # Geen
    /\ pc[g] \in {"bewaard", "klaar"} => winnaar[g] # Geen /\ contract[g] = winnaar[g]
    /\ <<"aanbesteding.gegund", g>> \in outbox <=> pc[g] = "klaar"
    /\ <<"onderhoudscontract.gegund", g>> \in outbox <=> pc[g] = "klaar"

\* Only a gunning makes a tender Gegund, and it never forgets its winner.
StatusInv == status = "Gegund" => \E g \in Gunners : winnaar[g] # Geen

Inv == TypeOK /\ PublicatieInv /\ GunningInv /\ StatusInv

\* Without overlap, what a request has read is what the tables still hold.
SerieelInv ==
  ~samenloop =>
    /\ \A r, q \in Verzoeken : pc[r] \in Geladen /\ pc[q] \in Geladen => r = q
    /\ \A r \in Verzoeken : pc[r] \in Geladen => gelezen[r] = status
    /\ \A r \in Verzoeken : pc[r] \in {"geladen", "gecontroleerd"} => gezien[r] = inschr
    /\ \A g \in Gunners : winnaar[g] # Geen => status = "Gegund"
    /\ \A g, h \in Gunners : winnaar[g] # Geen /\ winnaar[h] # Geen => g = h
    /\ Aanvaard \subseteq inschr

-----------------------------------------------------------------------------
(* The EMVI score *)

\* A lower price gains something, and a higher quality gains something, as long as
\* one of the two counts: A weighs the price, D the quality.
LEMMA Afweging ==
  ASSUME NEW A \in Nat, NEW D \in Nat,
         NEW p \in Nat, NEW q \in Nat, NEW k \in Nat, NEW m \in Nat,
         q < p, k < m, A > 0 \/ D > 0
  PROVE  A * q + k * D < A * p + m * D
<1>1. \A x, y \in Int : /\ x >= 0 /\ y >= 0 => x * y >= 0
                        /\ x > 0 /\ y > 0 => x * y > 0
  BY SMT
<1>2. /\ A * (p - q) >= 0
      /\ D * (m - k) >= 0
      /\ A * (p - q) > 0 \/ D * (m - k) > 0
  BY <1>1
<1>3. A * (p - q) = A * p - A * q /\ D * (m - k) = m * D - k * D
  BY SMT
<1> QED
  BY <1>2, <1>3, SMT

\* Both sides of MinstensZoGoed, multiplied out.
LEMMA Uitgewerkt ==
  ASSUME NEW A \in Nat, NEW h \in Nat,
         NEW p \in Nat, NEW q \in Nat, NEW k \in Nat, NEW m \in Nat
  PROVE  /\ (A + k * h * p) * q = A * q + k * (h * (p * q))
         /\ (A + m * h * q) * p = A * p + m * (h * (p * q))
  BY SMT

\* Nobody in S is both cheaper and better than a winner of S, whatever the weights.
LEMMA WinnaarsLemma ==
  ASSUME NEW S \in SUBSET Inschrijvers, NEW w \in Winnaars(S), NEW b \in S,
         \A x \in S : Prijs[x] > 0,
         Prijs[b] < Prijs[w], Kwaliteit[b] > Kwaliteit[w]
  PROVE  FALSE
<1>1. w \in S /\ \E l \in S : MinstensZoGoed(w, b, Prijs[l])
  BY BodAssumption DEF Winnaars, Goedkoopste
<1>2. PICK l \in S : MinstensZoGoed(w, b, Prijs[l])
  BY <1>1
<1> DEFINE pw == Prijs[w]
           pb == Prijs[b]
           kw == Kwaliteit[w]
           kb == Kwaliteit[b]
           A == 100 * Prijs[l] * Prijsgewicht
           h == Kwaliteitsgewicht
           D == h * (pw * pb)
<1>3. /\ pw \in Nat /\ pb \in Nat /\ kw \in Nat /\ kb \in Nat
      /\ Prijs[l] \in Nat /\ Prijs[l] > 0
      /\ pb > 0 /\ pb < pw /\ kw < kb
  BY <1>1, BodAssumption
<1>4. Prijsgewicht \in Nat /\ h \in Nat /\ (Prijsgewicht > 0 \/ h > 0)
  BY CriteriaAssumption
<1>5. \A x, y \in Nat : /\ x * y \in Nat
                        /\ x > 0 /\ y > 0 => x * y > 0
  BY SMT
<1>6. A \in Nat /\ D \in Nat /\ (A > 0 \/ D > 0)
  <2>1. 100 * Prijs[l] \in Nat /\ 100 * Prijs[l] > 0
    BY <1>3
  <2>2. pw * pb \in Nat /\ pw * pb > 0
    BY <1>3, <1>5
  <2> HIDE DEF pw, pb, h
  <2> QED
    BY <2>1, <2>2, <1>4, <1>5
<1>7. (A + kw * h * pw) * pb >= (A + kb * h * pb) * pw
  BY <1>2 DEF MinstensZoGoed, A, h, pw, pb, kw, kb
<1> HIDE DEF pw, pb, kw, kb, h, A
<1>8. A * pb + kw * D >= A * pw + kb * D
  BY <1>3, <1>4, <1>6, <1>7, Uitgewerkt
<1>9. A * pb + kw * D < A * pw + kb * D
  <2> HIDE DEF D
  <2> QED
    BY <1>3, <1>6, Afweging
<1>10. kw * D \in Int /\ kb * D \in Int /\ A * pb \in Int /\ A * pw \in Int
  BY <1>3, <1>5, <1>6
<1> HIDE DEF D
<1> QED
  BY <1>8, <1>9, <1>10

\* A winner is one of the inschrijvingen the gunning saw, and not Geen.
LEMMA WinnaarGezien ==
  ASSUME NEW S \in SUBSET Inschrijvers
  PROVE  Winnaars(S) \subseteq S /\ Geen \notin Winnaars(S)
BY VerzoekenAssumption DEF Winnaars

-----------------------------------------------------------------------------
(* Types *)

\* Every variable starts in its type.
LEMMA TypeInit == Init => TypeOK
BY DEF Init, TypeOK, Statussen, Verzoeken

\* Every step keeps every variable in its type.
LEMMA TypeStap == TypeOK /\ [Next]_vars => TypeOK'
<1> SUFFICES ASSUME TypeOK, [Next]_vars
             PROVE  TypeOK'
  OBVIOUS
<1> USE DEF TypeOK, Statussen, Geladen, Eind, Bewaar
<1>1. CASE BewaarNieuweAanbesteding
  BY <1>1 DEF BewaarNieuweAanbesteding
<1>2. ASSUME NEW r \in Verzoeken, LeesRij(r)
      PROVE  TypeOK'
  BY <1>2 DEF LeesRij
<1>3. ASSUME NEW r \in Verzoeken, LeesInschrijvingen(r)
      PROVE  TypeOK'
  BY <1>3 DEF LeesInschrijvingen
<1>4. ASSUME NEW r \in Verzoeken, BewaarInschrijving(r)
      PROVE  TypeOK'
  BY <1>4 DEF BewaarInschrijving
<1>5. ASSUME NEW r \in Verzoeken, ControleerKunstwerk(r)
      PROVE  TypeOK'
  BY <1>5 DEF ControleerKunstwerk
<1>6. ASSUME NEW r \in Verzoeken, BewaarGunning(r)
      PROVE  TypeOK'
  <2>1. PICK w \in Winnaars(gezien[r]) : winnaar' = [winnaar EXCEPT ![r] = w]
    BY <1>6 DEF BewaarGunning
  <2>2. w \in Inschrijvers
    BY WinnaarGezien
  <2> QED
    BY <1>6, <2>1, <2>2 DEF BewaarGunning
<1>7. ASSUME NEW r \in Verzoeken, BewaarContract(r)
      PROVE  TypeOK'
  BY <1>7 DEF BewaarContract
<1>8. ASSUME NEW r \in Verzoeken, WijsAf(r)
      PROVE  TypeOK'
  BY <1>8 DEF WijsAf
<1>9. ASSUME NEW r \in Verzoeken, Publiceer(r)
      PROVE  TypeOK'
  BY <1>9 DEF Publiceer, EventsVan
<1>10. ASSUME NEW r \in Verzoeken, Breek(r)
       PROVE  TypeOK'
  BY <1>10 DEF Breek
<1>11. CASE UNCHANGED vars
  BY <1>11 DEF vars
<1> QED
  BY <1>1, <1>2, <1>3, <1>4, <1>5, <1>6, <1>7, <1>8, <1>9, <1>10, <1>11 DEF Next, Stap

\* Every variable always has its type (the TypeOK of the runs).
THEOREM TypeCorrect == Spec => []TypeOK
<1> QED
  BY TypeInit, TypeStap, PTL DEF Spec

-----------------------------------------------------------------------------
(* The inductive invariant *)

\* The invariant holds initially.
LEMMA InvInit == Init => Inv
<1> SUFFICES ASSUME Init
             PROVE  Inv
  OBVIOUS
<1>1. TypeOK
  BY TypeInit
<1>2. PublicatieInv /\ GunningInv /\ StatusInv
  BY VerzoekenAssumption DEF Init, PublicatieInv, GunningInv, StatusInv, Verzoeken, Geladen
<1> QED
  BY <1>1, <1>2 DEF Inv

\* No step lets a tender be read before it exists.
LEMMA PublicatieStap == Inv /\ [Next]_vars => PublicatieInv'
<1> SUFFICES ASSUME Inv, [Next]_vars
             PROVE  PublicatieInv'
  OBVIOUS
<1> USE VerzoekenAssumption DEF Inv, TypeOK, PublicatieInv, Verzoeken, Statussen, Geladen, Eind, Bewaar
<1>1. CASE BewaarNieuweAanbesteding
  BY <1>1 DEF BewaarNieuweAanbesteding
<1>2. ASSUME NEW r \in Verzoeken, LeesRij(r)
      PROVE  PublicatieInv'
  BY <1>2 DEF LeesRij
<1>3. ASSUME NEW r \in Verzoeken, LeesInschrijvingen(r)
      PROVE  PublicatieInv'
  BY <1>3 DEF LeesInschrijvingen
<1>4. ASSUME NEW r \in Verzoeken, BewaarInschrijving(r)
      PROVE  PublicatieInv'
  BY <1>4 DEF BewaarInschrijving
<1>5. ASSUME NEW r \in Verzoeken, ControleerKunstwerk(r)
      PROVE  PublicatieInv'
  BY <1>5 DEF ControleerKunstwerk
<1>6. ASSUME NEW r \in Verzoeken, BewaarGunning(r)
      PROVE  PublicatieInv'
  BY <1>6 DEF BewaarGunning
<1>7. ASSUME NEW r \in Verzoeken, BewaarContract(r)
      PROVE  PublicatieInv'
  BY <1>7 DEF BewaarContract
<1>8. ASSUME NEW r \in Verzoeken, WijsAf(r)
      PROVE  PublicatieInv'
  BY <1>8 DEF WijsAf
<1>9. ASSUME NEW r \in Verzoeken, Publiceer(r)
      PROVE  PublicatieInv'
  BY <1>9 DEF Publiceer
<1>10. ASSUME NEW r \in Verzoeken, Breek(r)
       PROVE  PublicatieInv'
  BY <1>10 DEF Breek
<1>11. CASE UNCHANGED vars
  BY <1>11 DEF vars
<1> QED
  BY <1>1, <1>2, <1>3, <1>4, <1>5, <1>6, <1>7, <1>8, <1>9, <1>10, <1>11 DEF Next, Stap

\* A step of one gunning leaves the saves and events of the others alone, and its
\* own saves and events come in the order of the code.
LEMMA GunningStap == Inv /\ [Next]_vars => GunningInv'
<1> SUFFICES ASSUME Inv, [Next]_vars
             PROVE  GunningInv'
  OBVIOUS
<1> USE VerzoekenAssumption DEF Inv, TypeOK, GunningInv, Verzoeken, Statussen, Geladen, Eind, Bewaar
<1>1. CASE BewaarNieuweAanbesteding
  BY <1>1 DEF BewaarNieuweAanbesteding
<1>2. ASSUME NEW r \in Verzoeken, LeesRij(r)
      PROVE  GunningInv'
  BY <1>2 DEF LeesRij
<1>3. ASSUME NEW r \in Verzoeken, LeesInschrijvingen(r)
      PROVE  GunningInv'
  BY <1>3 DEF LeesInschrijvingen
<1>4. ASSUME NEW r \in Verzoeken, BewaarInschrijving(r)
      PROVE  GunningInv'
  BY <1>4 DEF BewaarInschrijving
<1>5. ASSUME NEW r \in Verzoeken, ControleerKunstwerk(r)
      PROVE  GunningInv'
  BY <1>5 DEF ControleerKunstwerk
<1>6. ASSUME NEW r \in Verzoeken, BewaarGunning(r)
      PROVE  GunningInv'
  <2>1. PICK w \in Winnaars(gezien[r]) : winnaar' = [winnaar EXCEPT ![r] = w]
    BY <1>6 DEF BewaarGunning
  <2>2. w \in Inschrijvers /\ w # Geen
    BY WinnaarGezien
  <2> QED
    BY <1>6, <2>1, <2>2 DEF BewaarGunning
<1>7. ASSUME NEW r \in Verzoeken, BewaarContract(r)
      PROVE  GunningInv'
  BY <1>7 DEF BewaarContract
<1>8. ASSUME NEW r \in Verzoeken, WijsAf(r)
      PROVE  GunningInv'
  BY <1>8 DEF WijsAf
<1>9. ASSUME NEW r \in Verzoeken, Publiceer(r)
      PROVE  GunningInv'
  <2>1. \A g \in Gunners :
           /\ <<"aanbesteding.gegund", g>> \in EventsVan(r) <=> g = r
           /\ <<"onderhoudscontract.gegund", g>> \in EventsVan(r) <=> g = r
    BY DEF EventsVan, OutboxEvents
  <2> QED
    BY <1>9, <2>1 DEF Publiceer
<1>10. ASSUME NEW r \in Verzoeken, Breek(r)
       PROVE  GunningInv'
  BY <1>10 DEF Breek
<1>11. CASE UNCHANGED vars
  BY <1>11 DEF vars
<1> QED
  BY <1>1, <1>2, <1>3, <1>4, <1>5, <1>6, <1>7, <1>8, <1>9, <1>10, <1>11 DEF Next, Stap

\* Only BewaarGunning makes a tender Gegund, and no step forgets a winner.
LEMMA StatusStap == Inv /\ [Next]_vars => StatusInv'
<1> SUFFICES ASSUME Inv, [Next]_vars
             PROVE  StatusInv'
  OBVIOUS
<1> USE DEF Inv, TypeOK, StatusInv, Bewaar
<1>1. CASE BewaarNieuweAanbesteding
  BY <1>1 DEF BewaarNieuweAanbesteding
<1>2. ASSUME NEW r \in Verzoeken, BewaarInschrijving(r)
      PROVE  StatusInv'
  BY <1>2 DEF BewaarInschrijving
<1>3. ASSUME NEW r \in Verzoeken, BewaarGunning(r)
      PROVE  StatusInv'
  <2>1. PICK w \in Winnaars(gezien[r]) : winnaar' = [winnaar EXCEPT ![r] = w]
    BY <1>3 DEF BewaarGunning
  <2>2. r \in Gunners /\ w # Geen
    BY <1>3, WinnaarGezien DEF BewaarGunning
  <2> QED
    BY <2>1, <2>2
<1>4. CASE UNCHANGED <<status, winnaar>>
  BY <1>4
<1>5. ASSUME NEW r \in Verzoeken, Stap(r) \/ Breek(r),
             ~BewaarInschrijving(r), ~BewaarGunning(r)
      PROVE  UNCHANGED <<status, winnaar>>
  BY <1>5 DEF Stap, LeesRij, LeesInschrijvingen, ControleerKunstwerk, BewaarContract,
              WijsAf, Publiceer, Breek
<1> QED
  BY <1>1, <1>2, <1>3, <1>4, <1>5 DEF Next, vars

\* The invariant is inductive.
LEMMA InvStap == Inv /\ [Next]_vars => Inv'
BY TypeStap, PublicatieStap, GunningStap, StatusStap DEF Inv

\* The invariant holds in every reachable state.
LEMMA InvAltijd == Spec => []Inv
<1> QED
  BY InvInit, InvStap, PTL DEF Spec

-----------------------------------------------------------------------------
(* What Inv says about every gunning *)

\* Whatever interleaves or fails, the two events of a gunning are in the outbox
\* together, and then its contract is saved with the winner it computed.
THEOREM EventHeeftContract == Spec => []GegundEventHeeftContract
<1>1. Inv => GegundEventHeeftContract
  <2> SUFFICES ASSUME Inv, NEW g \in Gunners
               PROVE  /\ <<"aanbesteding.gegund", g>> \in outbox
                           <=> <<"onderhoudscontract.gegund", g>> \in outbox
                      /\ <<"onderhoudscontract.gegund", g>> \in outbox =>
                           g \in Contracten /\ contract[g] = winnaar[g]
                             /\ winnaar[g] \in gezien[g]
    BY DEF GegundEventHeeftContract
  <2>1. gezien[g] \in SUBSET Inschrijvers
    BY DEF Inv, TypeOK, Verzoeken
  <2>2. winnaar[g] # Geen => winnaar[g] \in gezien[g]
    BY <2>1, WinnaarGezien DEF Inv, GunningInv
  <2> QED
    BY <2>2 DEF Inv, GunningInv, Contracten
<1> QED
  BY <1>1, InvAltijd, PTL

\* A Gegund tender without a contract is always explained by a gunning that is
\* between its two saves or broke off there.
THEOREM GegundIsVerklaard == Spec => []GegundVerklaard
<1>1. Inv => GegundVerklaard
  <2> SUFFICES ASSUME Inv, status = "Gegund"
               PROVE  \E g \in Gunners :
                        winnaar[g] # Geen
                          /\ (contract[g] = winnaar[g] \/ pc[g] \in {"gegund", "mislukt"})
    BY DEF GegundVerklaard
  <2>1. PICK g \in Gunners : winnaar[g] # Geen
    BY DEF Inv, StatusInv
  <2>2. contract[g] = winnaar[g] \/ pc[g] \in {"gegund", "mislukt"}
    BY <2>1 DEF Inv, TypeOK, GunningInv, Verzoeken, Geladen, Eind
  <2> QED
    BY <2>1, <2>2
<1> QED
  BY <1>1, InvAltijd, PTL

\* EMVI never awards to an inschrijving that another one beats on price and quality.
THEOREM NietGedomineerd == Spec => []WinnaarNietGedomineerd
<1>1. Inv => WinnaarNietGedomineerd
  <2> SUFFICES ASSUME Inv, NEW g \in Gunners, NEW b \in gezien[g],
                      winnaar[g] # Geen, \A x \in gezien[g] : Prijs[x] > 0,
                      Prijs[b] < Prijs[winnaar[g]], Kwaliteit[b] > Kwaliteit[winnaar[g]]
               PROVE  FALSE
    BY DEF WinnaarNietGedomineerd
  <2>1. gezien[g] \in SUBSET Inschrijvers /\ winnaar[g] \in Winnaars(gezien[g])
    BY DEF Inv, TypeOK, Verzoeken, GunningInv
  <2> QED
    BY <2>1, WinnaarsLemma
<1> QED
  BY <1>1, InvAltijd, PTL

-----------------------------------------------------------------------------
(* Requests that do not overlap *)

\* SerieelInv holds initially.
LEMMA SerieelInit == Init => SerieelInv
BY VerzoekenAssumption DEF Init, SerieelInv, Aanvaard, Verzoeken, Geladen

\* Every step that is not the start of an overlap keeps SerieelInv.
LEMMA SerieelStap == Inv /\ SerieelInv /\ [Next]_vars => SerieelInv'
<1> SUFFICES ASSUME Inv, SerieelInv, [Next]_vars
             PROVE  SerieelInv'
  OBVIOUS
<1> USE VerzoekenAssumption
    DEF Inv, TypeOK, SerieelInv, Aanvaard, Verzoeken, Statussen, Geladen, Eind, Bewaar
<1>1. CASE BewaarNieuweAanbesteding
  BY <1>1 DEF BewaarNieuweAanbesteding, PublicatieInv, GunningInv
<1>2. ASSUME NEW r \in Verzoeken, LeesRij(r)
      PROVE  SerieelInv'
  <2>1. CASE status = "Ontbreekt"
    BY <1>2, <2>1 DEF LeesRij
  <2>2. CASE status # "Ontbreekt" /\ samenloop'
    BY <2>2
  <2>3. CASE status # "Ontbreekt" /\ ~samenloop'
    <3>1. ~samenloop /\ \A q \in Verzoeken : pc[q] \notin Geladen
      BY <1>2, <2>3 DEF LeesRij
    <3>2. /\ pc' = [pc EXCEPT ![r] = "rij"]
          /\ gelezen' = [gelezen EXCEPT ![r] = status]
          /\ UNCHANGED <<status, inschr, winnaar>>
      BY <1>2, <2>3 DEF LeesRij
    <3>3. \A q \in Verzoeken : pc'[q] \in Geladen => q = r /\ pc'[q] = "rij"
      BY <3>1, <3>2
    <3>4. gelezen'[r] = status
      BY <3>2
    <3>5. Aanvaard' \subseteq inschr'
      BY <3>1, <3>2
    <3> QED
      BY <3>1, <3>2, <3>3, <3>4, <3>5
  <2> QED
    BY <2>1, <2>2, <2>3
<1>3. ASSUME NEW r \in Verzoeken, LeesInschrijvingen(r)
      PROVE  SerieelInv'
  BY <1>3 DEF LeesInschrijvingen
<1>4. ASSUME NEW r \in Verzoeken, BewaarInschrijving(r)
      PROVE  SerieelInv'
  BY <1>4 DEF BewaarInschrijving
<1>5. ASSUME NEW r \in Verzoeken, ControleerKunstwerk(r)
      PROVE  SerieelInv'
  BY <1>5 DEF ControleerKunstwerk
<1>6. ASSUME NEW r \in Verzoeken, BewaarGunning(r)
      PROVE  SerieelInv'
  BY <1>6 DEF BewaarGunning
<1>7. ASSUME NEW r \in Verzoeken, BewaarContract(r)
      PROVE  SerieelInv'
  BY <1>7 DEF BewaarContract
<1>8. ASSUME NEW r \in Verzoeken, WijsAf(r)
      PROVE  SerieelInv'
  BY <1>8 DEF WijsAf
<1>9. ASSUME NEW r \in Verzoeken, Publiceer(r)
      PROVE  SerieelInv'
  BY <1>9 DEF Publiceer
<1>10. ASSUME NEW r \in Verzoeken, Breek(r)
       PROVE  SerieelInv'
  BY <1>10 DEF Breek
<1>11. CASE UNCHANGED vars
  BY <1>11 DEF vars
<1> QED
  BY <1>1, <1>2, <1>3, <1>4, <1>5, <1>6, <1>7, <1>8, <1>9, <1>10, <1>11 DEF Next, Stap

\* Both invariants hold in every reachable state.
LEMMA SerieelAltijd == Spec => [](Inv /\ SerieelInv)
<1>1. Init => Inv /\ SerieelInv
  BY InvInit, SerieelInit
<1>2. (Inv /\ SerieelInv) /\ [Next]_vars => (Inv /\ SerieelInv)'
  BY InvStap, SerieelStap
<1> QED
  BY <1>1, <1>2, PTL DEF Spec

\* Without overlap there is at most one contract, only for a Gegund tender, and no
\* accepted inschrijving is lost.
THEOREM SerieelIsConsistent == Spec => []SerieelConsistent
<1>1. Inv /\ SerieelInv => SerieelConsistent
  BY DEF Inv, GunningInv, SerieelInv, SerieelConsistent, Contracten
<1> QED
  BY <1>1, SerieelAltijd, PTL

\* Without overlap no step reopens an awarded tender or touches its inschrijvingen.
THEOREM BlijftGesloten == Spec => GeslotenNaGunning
<1>1. Inv /\ SerieelInv /\ [Next]_vars =>
        [status = "Gegund" /\ ~samenloop' => status' = "Gegund" /\ inschr' = inschr]_vars
  <2> SUFFICES ASSUME Inv, SerieelInv, Next, status = "Gegund", ~samenloop'
               PROVE  status' = "Gegund" /\ inschr' = inschr
    OBVIOUS
  <2>1. CASE BewaarNieuweAanbesteding
    BY <2>1 DEF BewaarNieuweAanbesteding, Inv, PublicatieInv
  <2>2. ASSUME NEW r \in Verzoeken, Stap(r) \/ Breek(r)
        PROVE  status' = "Gegund" /\ inschr' = inschr
    <3>1. CASE BewaarInschrijving(r)
      BY <2>2, <3>1 DEF BewaarInschrijving, Bewaar, SerieelInv, Geladen
    <3>2. CASE BewaarGunning(r)
      BY <2>2, <3>2 DEF BewaarGunning, Bewaar, SerieelInv, Geladen
    <3>3. CASE ~BewaarInschrijving(r) /\ ~BewaarGunning(r)
      BY <2>2, <3>3 DEF Stap, LeesRij, LeesInschrijvingen, ControleerKunstwerk,
                        BewaarContract, WijsAf, Publiceer, Breek
    <3> QED
      BY <3>1, <3>2, <3>3
  <2> QED
    BY <2>1, <2>2 DEF Next
<1> QED
  BY <1>1, SerieelAltijd, PTL DEF Spec, GeslotenNaGunning

-----------------------------------------------------------------------------
(* OutboxRelay: what the refinement needs is that a message in the         *)
(* buffer has everything that precedes it before it (BufferKlopt).  It     *)
(* comes there with a batch, so the same must hold of the rows a batch has *)
(* read; and it does because aangemaaktOp agrees with "eerder", which has  *)
(* the events of earlier milliseconds only (TijdKlopt)                     *)
(* and because the rows that are no longer read were put in the buffer     *)
(* (VerzondenKlopt).                                                       *)

\* A call of publiceer has not begun, or all of its rows wait for its commit, or none does.
GroepenKlopt ==
  /\ geroepen <= Len(Groepen)
  /\ \A n \in 1 .. Len(Groepen) :
       IF n > geroepen
       THEN \A e \in Groepen[n] : rij[e] = "Ontbreekt"
       ELSE \/ \A e \in Groepen[n] : rij[e] = "InTransactie"
            \/ \A e \in Groepen[n] : e \in Geschreven

\* What was committed when an event came about has an older row.
TijdKlopt ==
  /\ \A e \in Events : aangemaaktOp[e] <= klok
  /\ \A e \in Events : \A f \in eerder[e] : f \in Geschreven /\ aangemaaktOp[f] < aangemaaktOp[e]

\* A row that is marked was put in the buffer.
VerzondenKlopt ==
  /\ \A e \in Events : rij[e] = "Verzonden" => e \in bezorgd \cup kwijt \cup Elementen(buffer)
  /\ kwijt \subseteq Geschreven

\* The rows of a batch are committed, and what precedes one of them is marked or comes
\* earlier in the batch.
BatchKlopt(l) ==
  /\ verzonden[l] \subseteq Geschreven
  /\ \A i \in 1 .. Len(regels[l]) :
       /\ regels[l][i] \in Geschreven
       /\ \A f \in eerder[regels[l][i]] :
            rij[f] = "Verzonden" \/ \E j \in 1 .. Len(regels[l]) : j < i /\ regels[l][j] = f

\* What precedes a message in the buffer is at the exchange, lost, or ahead of it.
BufferKlopt ==
  \A i \in 1 .. Len(buffer) :
    /\ buffer[i] \in Geschreven
    /\ \A f \in eerder[buffer[i]] :
         f \in bezorgd \cup kwijt \/ \E j \in 1 .. Len(buffer) : j < i /\ buffer[j] = f

RelayInv ==
  /\ RelayTypeOK
  /\ GroepenKlopt
  /\ TijdKlopt
  /\ VerzondenKlopt
  /\ \A l \in Batches : BatchKlopt(l)
  /\ BufferKlopt

-----------------------------------------------------------------------------
(* What the query returns *)

\* A batch has at most Limiet different rows, none of which is committed after one it left.
LEMMA SelectieKlopt ==
  ASSUME RelayTypeOK, NEW s \in Selectie
  PROVE  /\ s \in Seq(Events)
         /\ \A i \in 1 .. Len(s) : rij[s[i]] = "Onverzonden"
         /\ \A i, j \in 1 .. Len(s) : i < j => aangemaaktOp[s[i]] <= aangemaaktOp[s[j]]
         /\ \A e \in Events : rij[e] = "Onverzonden" /\ (\A j \in 1 .. Len(s) : s[j] # e) =>
              \A i \in 1 .. Len(s) : aangemaaktOp[s[i]] <= aangemaaktOp[e]
<1> DEFINE n == IF Cardinality(Onverzonden) < Limiet THEN Cardinality(Onverzonden) ELSE Limiet
<1>1. IsFiniteSet(Onverzonden)
  <2>1. Onverzonden \subseteq Events
    BY DEF Onverzonden
  <2> QED BY <2>1, EindigAssumption, FS_Subset
<1>2. n \in Nat
  BY <1>1, FS_CardinalityType, GrenzenAssumption
<1>3. /\ s \in [1 .. n -> Onverzonden]
      /\ \A i, j \in 1 .. n : i < j => aangemaaktOp[s[i]] <= aangemaaktOp[s[j]]
      /\ \A e \in Onverzonden \ Elementen(s) : \A i \in 1 .. n : aangemaaktOp[s[i]] <= aangemaaktOp[e]
  BY DEF Selectie
<1> HIDE DEF n
<1>4. s \in Seq(Events) /\ Len(s) = n
  BY <1>2, <1>3 DEF Onverzonden
<1>5. \A e \in Events : rij[e] = "Onverzonden" /\ (\A j \in 1 .. Len(s) : s[j] # e) => e \in Onverzonden \ Elementen(s)
  BY DEF Onverzonden, Elementen
<1>6. \A i \in 1 .. n : rij[s[i]] = "Onverzonden"
  BY <1>3 DEF Onverzonden
<1> QED BY <1>3, <1>4, <1>5, <1>6

\* So what precedes a row of the batch is marked, or comes earlier in the batch.
LEMMA SelectieVolgtEerder ==
  ASSUME RelayTypeOK, TijdKlopt, NEW s \in Selectie, NEW i \in 1 .. Len(s), NEW f \in eerder[s[i]]
  PROVE  rij[f] = "Verzonden" \/ \E j \in 1 .. Len(s) : j < i /\ s[j] = f
<1>1. s \in Seq(Events) /\ s[i] \in Events /\ aangemaaktOp \in [Events -> Nat]
  BY SelectieKlopt DEF RelayTypeOK
<1>2. f \in Geschreven /\ f \in Events /\ aangemaaktOp[f] < aangemaaktOp[s[i]]
  BY <1>1 DEF TijdKlopt, Geschreven
<1>3. SUFFICES ASSUME rij[f] = "Onverzonden" PROVE \E j \in 1 .. Len(s) : j < i /\ s[j] = f
  BY <1>2 DEF Geschreven
<1>4. PICK j \in 1 .. Len(s) : s[j] = f
  <2> SUFFICES ASSUME \A j \in 1 .. Len(s) : s[j] # f PROVE FALSE
    OBVIOUS
  <2>1. aangemaaktOp[s[i]] <= aangemaaktOp[f]
    BY <1>2, <1>3, SelectieKlopt
  <2> QED BY <1>1, <1>2, <2>1
<1>5. j < i
  <2> SUFFICES ASSUME ~(j < i) PROVE FALSE
    OBVIOUS
  <2>1. aangemaaktOp[s[i]] <= aangemaaktOp[s[j]]
    BY <1>1, SelectieKlopt
  <2> QED BY <1>1, <1>2, <1>4, <2>1
<1> QED BY <1>4, <1>5

-----------------------------------------------------------------------------
(* Every step keeps the invariant *)

LEMMA RelayBegin == RelayInit => RelayInv
<1> SUFFICES ASSUME RelayInit PROVE RelayInv
  OBVIOUS
<1> USE DEF RelayInit
<1>1. RelayTypeOK
  BY GrenzenAssumption DEF RelayTypeOK
<1>2. GroepenKlopt
  BY GroepenAssumption DEF GroepenKlopt
<1>3. TijdKlopt /\ VerzondenKlopt
  BY DEF TijdKlopt, VerzondenKlopt
<1>4. BufferKlopt /\ \A l \in Batches : BatchKlopt(l)
  BY DEF BufferKlopt, BatchKlopt
<1> QED BY <1>1, <1>2, <1>3, <1>4 DEF RelayInv

\* Rows are only ever added to and marked.
RijenGroeien ==
  \A e \in Geschreven : /\ e \in Geschreven' /\ eerder'[e] = eerder[e]
                        /\ rij[e] = "Verzonden" => rij'[e] = "Verzonden"

LEMMA BatchBlijft ==
  ASSUME RelayInv, RijenGroeien, NEW l \in Batches, regels'[l] = regels[l], verzonden'[l] = verzonden[l]
  PROVE  BatchKlopt(l)'
<1>1. regels[l] \in Seq(Events) /\ BatchKlopt(l)
  BY DEF RelayInv, RelayTypeOK
<1>2. ASSUME NEW i \in 1 .. Len(regels[l]), NEW f \in eerder[regels[l][i]]
      PROVE  f \in Geschreven
  BY <1>1 DEF RelayInv, TijdKlopt
<1> QED BY <1>1, <1>2 DEF BatchKlopt, RijenGroeien

LEMMA BufferBlijft ==
  ASSUME RelayInv, RijenGroeien, buffer' = buffer, bezorgd \subseteq bezorgd', kwijt \subseteq kwijt'
  PROVE  BufferKlopt'
<1>1. buffer \in Seq(Events) /\ BufferKlopt
  BY DEF RelayInv, RelayTypeOK
<1> QED BY <1>1 DEF BufferKlopt, RijenGroeien

\* A batch that holds nothing keeps its part of the invariant.
LEMMA LegeBatch ==
  ASSUME NEW l \in Batches, regels'[l] = <<>>, verzonden'[l] = {}
  PROVE  BatchKlopt(l)'
BY DEF BatchKlopt

LEMMA BeginSchrijvenHoudt ==
  ASSUME RelayInv, BeginSchrijven
  PROVE  /\ RelayInv' /\ Geschreven' = Geschreven /\ geroepen' \in 1 .. Len(Groepen)
         /\ Groepen[geroepen'] \in SUBSET Events /\ Groepen[geroepen'] \cap Geschreven = {}
         /\ Gelijktijdig' = Gelijktijdig \cup Groepen[geroepen']
<1> USE DEF BeginSchrijven, relay, broker
<1>1. RelayTypeOK /\ geroepen \in Nat /\ geroepen' = geroepen + 1 /\ klok \in Nat /\ klok' = klok /\ geroepen' \in 1 .. Len(Groepen)
  BY GroepenAssumption DEF RelayInv, RelayTypeOK
<1>2. /\ Groepen[geroepen'] \in SUBSET Events
      /\ \A e \in Groepen[geroepen'] : rij[e] = "Ontbreekt"
      /\ \A n \in 1 .. Len(Groepen) : Groepen[n] \in SUBSET Events
  BY <1>1, GroepenAssumption DEF RelayInv, GroepenKlopt
<1>3. \A e \in Groepen[geroepen'] : e \notin Geschreven
  BY <1>2 DEF Geschreven
<1>4. Geschreven' = Geschreven /\ RijenGroeien
  BY <1>1, <1>2, <1>3 DEF Geschreven, RijenGroeien, RelayTypeOK
<1>5. RelayTypeOK'
  BY <1>1, <1>2 DEF RelayTypeOK, Geschreven
<1>6. GroepenKlopt'
  <2>1. geroepen' <= Len(Groepen)
    BY <1>1
  <2>2. ASSUME NEW n \in 1 .. Len(Groepen), n > geroepen' PROVE \A e \in Groepen[n] : rij'[e] = "Ontbreekt"
    BY <1>1, <1>2, <2>2, GroepenAssumption DEF RelayInv, GroepenKlopt, RelayTypeOK
  <2>3. ASSUME NEW n \in 1 .. Len(Groepen), ~(n > geroepen')
        PROVE  (\A e \in Groepen[n] : rij'[e] = "InTransactie") \/ (\A e \in Groepen[n] : e \in Geschreven')
    <3>1. CASE n = geroepen'
      BY <1>1, <1>2, <3>1
    <3>2. CASE n # geroepen'
      <4>1. n \in Nat /\ ~(n > geroepen) /\ Groepen[n] \cap Groepen[geroepen'] = {}
        BY <1>1, <2>3, <3>2, GroepenAssumption
      <4> QED BY <1>1, <1>2, <1>4, <4>1 DEF RelayInv, GroepenKlopt
    <3> QED BY <3>1, <3>2
  <2> QED BY <2>1, <2>2, <2>3 DEF GroepenKlopt
<1>7. TijdKlopt'
  <2>1. \A e \in Events : aangemaaktOp'[e] <= klok'
    BY <1>1, <1>2 DEF RelayInv, TijdKlopt, RelayTypeOK
  <2>2. ASSUME NEW e \in Events, NEW f \in eerder'[e]
        PROVE  f \in Geschreven /\ aangemaaktOp'[f] < aangemaaktOp'[e]
    <3>1. CASE e \in Groepen[geroepen']
      <4>1. f \in Geschreven /\ f \in Events /\ f \notin Groepen[geroepen'] /\ aangemaaktOp[f] # klok
        BY <1>3, <2>2, <3>1 DEF Geschreven, Gelijktijdig
      <4>2. aangemaaktOp'[f] = aangemaaktOp[f] /\ aangemaaktOp[f] <= klok /\ aangemaaktOp'[e] = klok
            /\ aangemaaktOp[f] \in Nat
        BY <1>1, <3>1, <4>1 DEF RelayInv, TijdKlopt, RelayTypeOK
      <4> QED BY <1>1, <4>1, <4>2
    <3>2. CASE e \notin Groepen[geroepen']
      <4>1. f \in eerder[e]
        BY <2>2, <3>2
      <4>2. f \in Geschreven /\ f \in Events /\ f \notin Groepen[geroepen'] /\ aangemaaktOp[f] < aangemaaktOp[e]
        BY <1>3, <4>1 DEF RelayInv, TijdKlopt, Geschreven
      <4> QED BY <3>2, <4>2
    <3> QED BY <3>1, <3>2
  <2> QED BY <1>4, <2>1, <2>2 DEF TijdKlopt
<1>8. VerzondenKlopt'
  BY <1>4 DEF RelayInv, VerzondenKlopt, RelayTypeOK, Elementen
<1>9. BufferKlopt' /\ \A l \in Batches : BatchKlopt(l)'
  BY <1>4, BatchBlijft, BufferBlijft
<1>10. Gelijktijdig' = Gelijktijdig \cup Groepen[geroepen']
  BY <1>1, <1>2 DEF Gelijktijdig, RelayTypeOK
<1> QED BY <1>10, <1>1, <1>2, <1>3, <1>4, <1>5, <1>6, <1>7, <1>8, <1>9 DEF RelayInv

LEMMA CommitSchrijvenHoudt ==
  ASSUME RelayInv, NEW n \in 1 .. geroepen, CommitSchrijven(n)
  PROVE  /\ RelayInv' /\ Groepen[n] \in SUBSET Events /\ Groepen[n] # {}
         /\ Groepen[n] \cap Geschreven = {} /\ Geschreven' = Geschreven \cup Groepen[n]
         /\ Gelijktijdig' = Gelijktijdig
<1> USE DEF CommitSchrijven, relay, broker
<1>1. RelayTypeOK /\ geroepen \in Nat /\ geroepen <= Len(Groepen) /\ n \in 1 .. Len(Groepen)
  BY GroepenAssumption DEF RelayInv, RelayTypeOK, GroepenKlopt
<1>2. Groepen[n] \in SUBSET Events /\ Groepen[n] # {} /\ \A m \in 1 .. Len(Groepen) : Groepen[m] \in SUBSET Events
  BY <1>1, GroepenAssumption
<1>3. \A e \in Groepen[n] : rij[e] = "InTransactie"
  BY <1>1 DEF RelayInv, GroepenKlopt, Geschreven
<1>4. Groepen[n] \cap Geschreven = {} /\ Geschreven' = Geschreven \cup Groepen[n] /\ RijenGroeien
  BY <1>1, <1>2, <1>3 DEF Geschreven, RijenGroeien, RelayTypeOK
<1>5. RelayTypeOK'
  BY <1>1 DEF RelayTypeOK
<1>6. GroepenKlopt'
  <2>1. ASSUME NEW m \in 1 .. Len(Groepen), m > geroepen PROVE \A e \in Groepen[m] : rij'[e] = "Ontbreekt"
    <3>1. Groepen[m] \cap Groepen[n] = {}
      BY <1>1, <2>1, GroepenAssumption
    <3> QED BY <1>2, <2>1, <3>1 DEF RelayInv, GroepenKlopt
  <2>2. ASSUME NEW m \in 1 .. Len(Groepen), ~(m > geroepen)
        PROVE  (\A e \in Groepen[m] : rij'[e] = "InTransactie") \/ (\A e \in Groepen[m] : e \in Geschreven')
    <3>1. CASE m = n
      BY <1>4, <3>1
    <3>2. CASE m # n
      <4>1. Groepen[m] \cap Groepen[n] = {}
        BY <1>1, <3>2, GroepenAssumption
      <4> QED BY <1>2, <1>4, <2>2, <4>1 DEF RelayInv, GroepenKlopt
    <3> QED BY <3>1, <3>2
  <2>3. geroepen' = geroepen /\ geroepen' <= Len(Groepen)
    BY <1>1
  <2> QED
    <3> HIDE DEF CommitSchrijven
    <3> QED BY <2>1, <2>2, <2>3 DEF GroepenKlopt
<1>7. TijdKlopt'
  BY <1>4 DEF RelayInv, TijdKlopt
<1>8. VerzondenKlopt'
  BY <1>1, <1>4 DEF RelayInv, VerzondenKlopt, RelayTypeOK, Elementen
<1>9. BufferKlopt' /\ \A l \in Batches : BatchKlopt(l)'
  BY <1>4, BatchBlijft, BufferBlijft
<1>10. Gelijktijdig' = Gelijktijdig
  BY <1>1, <1>2, <1>3 DEF Gelijktijdig, RelayTypeOK
<1> QED BY <1>10, <1>2, <1>4, <1>5, <1>6, <1>7, <1>8, <1>9 DEF RelayInv

LEMMA TikKlokHoudt ==
  ASSUME RelayInv, TikKlok
  PROVE  RelayInv' /\ Geschreven' = Geschreven /\ Gelijktijdig' = {}
<1> USE DEF TikKlok, relay, broker
<1>1. Geschreven' = Geschreven /\ RijenGroeien
  BY DEF Geschreven, RijenGroeien
<1>2. \A e \in Events : aangemaaktOp[e] \in Nat /\ aangemaaktOp[e] <= klok /\ klok \in Nat
  BY DEF RelayInv, RelayTypeOK, TijdKlopt
<1>3. RelayTypeOK'
  BY DEF RelayInv, RelayTypeOK
<1>4. GroepenKlopt'
  BY <1>1 DEF RelayInv, GroepenKlopt
<1>5. TijdKlopt'
  BY <1>1, <1>2 DEF RelayInv, TijdKlopt
<1>6. VerzondenKlopt'
  BY <1>1 DEF RelayInv, VerzondenKlopt
<1>7. BufferKlopt' /\ \A l \in Batches : BatchKlopt(l)'
  BY <1>1, BatchBlijft, BufferBlijft
<1>8. Gelijktijdig' = {}
  BY <1>2 DEF Gelijktijdig
<1> QED BY <1>1, <1>3, <1>4, <1>5, <1>6, <1>7, <1>8 DEF RelayInv

\* A step that does not touch the rows.
LEMMA TabelBlijft ==
  ASSUME RelayInv, UNCHANGED tabel
  PROVE  Geschreven' = Geschreven /\ Gelijktijdig' = Gelijktijdig /\ RijenGroeien /\ GroepenKlopt' /\ TijdKlopt'
<1>1. Geschreven' = Geschreven /\ Gelijktijdig' = Gelijktijdig
  BY DEF tabel, Geschreven, Gelijktijdig
<1> QED BY <1>1 DEF RelayInv, tabel, RijenGroeien, GroepenKlopt, TijdKlopt

\* The account of lost events.
LEMMA KwijtKlopt ==
  ASSUME RelayInv, HoudKwijtBij, Geschreven' = Geschreven, bezorgd' = bezorgd, rij' \in [Events -> {"Ontbreekt", "InTransactie", "Onverzonden", "Verzonden"}]
  PROVE  VerzondenKlopt' /\ kwijt \subseteq kwijt' /\ kwijt' \in SUBSET Events
         /\ kwijt' \ kwijt \subseteq Geschreven \ (bezorgd \cup kwijt)
<1>1. \A e \in Events : rij'[e] = "Verzonden" => e \in Geschreven
  BY DEF Geschreven
<1>2. kwijt \subseteq Geschreven /\ kwijt \subseteq Events
  BY DEF RelayInv, VerzondenKlopt, RelayTypeOK
<1> QED BY <1>1, <1>2 DEF HoudKwijtBij, VerzondenKlopt

LEMMA PakOnverzondenHoudt ==
  ASSUME RelayInv, NEW l \in Batches, PakOnverzonden(l)
  PROVE  RelayInv' /\ Geschreven' = Geschreven
<1> USE DEF PakOnverzonden, broker
<1>1. PICK s \in Selectie : regels' = [regels EXCEPT ![l] = s]
  OBVIOUS
<1>2. RelayTypeOK /\ TijdKlopt
  BY DEF RelayInv
<1>3. s \in Seq(Events) /\ regels'[l] = s /\ \A m \in Batches \ {l} : regels'[m] = regels[m]
  BY <1>1, <1>2, SelectieKlopt DEF RelayTypeOK
<1>4. RelayTypeOK'
  BY <1>1, <1>2, <1>3 DEF RelayTypeOK, tabel
<1>5. Geschreven' = Geschreven /\ RijenGroeien /\ GroepenKlopt' /\ TijdKlopt'
  BY TabelBlijft
<1>6. VerzondenKlopt' /\ BufferKlopt'
  BY <1>5, BufferBlijft DEF RelayInv, VerzondenKlopt, tabel, Elementen
<1>7. BatchKlopt(l)'
  <2>1. \A i \in 1 .. Len(s) : s[i] \in Geschreven
    BY <1>2, <1>3, SelectieKlopt DEF Geschreven
  <2>2. \A i \in 1 .. Len(s) : \A f \in eerder[s[i]] :
          rij[f] = "Verzonden" \/ \E j \in 1 .. Len(s) : j < i /\ s[j] = f
    BY <1>2, SelectieVolgtEerder
  <2>3. verzonden[l] \subseteq Geschreven
    BY DEF RelayInv, BatchKlopt
  <2> QED BY <1>3, <1>5, <2>1, <2>2, <2>3 DEF BatchKlopt, tabel
<1>8. \A m \in Batches : BatchKlopt(m)'
  BY <1>3, <1>5, <1>7, BatchBlijft
<1> QED BY <1>4, <1>5, <1>6, <1>8 DEF RelayInv

LEMMA PubliceerRegelsHoudt ==
  ASSUME RelayInv, NEW l \in Batches, PubliceerRegels(l)
  PROVE  RelayInv' /\ Geschreven' = Geschreven
<1>1. PICK k \in 0 .. Len(regels[l]) :
        verzonden' = [verzonden EXCEPT ![l] = Elementen(SubSeq(regels[l], 1, k))]
  BY DEF PubliceerRegels
<1>2. /\ buffer' = buffer \o regels[l] /\ batch' = [batch EXCEPT ![l] = "gepubliceerd"]
      /\ UNCHANGED <<tabel, regels, verbonden, bezorgd, kwijt>> /\ fouten' \in 0 .. MaxFouten
  BY GrenzenAssumption DEF PubliceerRegels, Fout, RelayInv, RelayTypeOK
<1>3. /\ RelayTypeOK /\ buffer \in Seq(Events) /\ regels[l] \in Seq(Events) /\ BatchKlopt(l) /\ BufferKlopt
      /\ VerzondenKlopt
  BY DEF RelayInv, RelayTypeOK
<1>4. Elementen(SubSeq(regels[l], 1, k)) \subseteq Elementen(regels[l])
  BY <1>1, <1>3 DEF Elementen
<1>5. Elementen(regels[l]) \subseteq Geschreven /\ Elementen(regels[l]) \subseteq Events
  BY <1>3 DEF BatchKlopt, Elementen
<1>6. verzonden'[l] \subseteq Geschreven /\ \A m \in Batches \ {l} : verzonden'[m] = verzonden[m]
  BY <1>1, <1>3, <1>4, <1>5 DEF RelayTypeOK
<1>7. RelayTypeOK'
  <2>1. verzonden' \in [Batches -> SUBSET Events]
    BY <1>1, <1>3, <1>4, <1>5 DEF RelayTypeOK
  <2>2. buffer' \in Seq(Events)
    BY <1>2, <1>3
  <2> QED BY <1>2, <1>3, <2>1, <2>2 DEF RelayTypeOK, tabel
<1>8. Geschreven' = Geschreven /\ RijenGroeien /\ GroepenKlopt' /\ TijdKlopt'
  BY <1>2, TabelBlijft
<1>9. /\ Len(buffer') = Len(buffer) + Len(regels[l])
      /\ \A i \in 1 .. Len(buffer) : buffer'[i] = buffer[i]
      /\ \A i \in 1 .. Len(regels[l]) : buffer'[Len(buffer) + i] = regels[l][i]
      /\ \A i \in 1 .. Len(buffer') : i <= Len(buffer) \/ i - Len(buffer) \in 1 .. Len(regels[l])
      /\ Len(buffer) \in Nat /\ Len(regels[l]) \in Nat
  BY <1>2, <1>3
<1>10. \A e \in Elementen(buffer) : \E j \in 1 .. Len(buffer) : buffer'[j] = e
  BY <1>9 DEF Elementen
<1>11. VerzondenKlopt'
  <2>1. Elementen(buffer) \subseteq Elementen(buffer')
    BY <1>3, <1>9 DEF Elementen
  <2> QED BY <1>2, <1>3, <1>8, <2>1 DEF VerzondenKlopt, tabel
<1>12. BufferKlopt'
  <2> SUFFICES ASSUME NEW i \in 1 .. Len(buffer')
               PROVE  /\ buffer'[i] \in Geschreven
                      /\ \A f \in eerder[buffer'[i]] :
                           f \in bezorgd \cup kwijt \/ \E j \in 1 .. Len(buffer') : j < i /\ buffer'[j] = f
    BY <1>2, <1>8 DEF BufferKlopt, tabel
  <2>1. CASE i <= Len(buffer)
    <3>1. i \in 1 .. Len(buffer) /\ buffer'[i] = buffer[i] /\ buffer[i] \in Geschreven
      BY <1>3, <1>9, <2>1 DEF BufferKlopt
    <3>2. ASSUME NEW f \in eerder[buffer[i]], NEW j \in 1 .. Len(buffer), j < i, buffer[j] = f
          PROVE  j \in 1 .. Len(buffer') /\ buffer'[j] = f
      BY <1>3, <1>9, <3>2
    <3> QED BY <1>3, <3>1, <3>2 DEF BufferKlopt
  <2>2. CASE ~(i <= Len(buffer))
    <3> DEFINE h == i - Len(buffer)
    <3>1. h \in 1 .. Len(regels[l]) /\ buffer'[i] = regels[l][h] /\ i = Len(buffer) + h
      BY <1>3, <1>9, <2>2
    <3> HIDE DEF h
    <3>2. ASSUME NEW f \in eerder[regels[l][h]], rij[f] = "Verzonden"
          PROVE  f \in bezorgd \cup kwijt \/ \E j \in 1 .. Len(buffer') : j < i /\ buffer'[j] = f
      <4>1. f \in Events
        BY <1>3, <3>1, <3>2 DEF RelayTypeOK
      <4>2. f \in bezorgd \cup kwijt \cup Elementen(buffer)
        BY <1>3, <3>2, <4>1 DEF VerzondenKlopt
      <4> QED BY <1>3, <1>9, <1>10, <2>2, <4>2
    <3>3. ASSUME NEW f \in eerder[regels[l][h]], NEW j \in 1 .. Len(regels[l]), j < h, regels[l][j] = f
          PROVE  \E j2 \in 1 .. Len(buffer') : j2 < i /\ buffer'[j2] = f
      <4>1. buffer'[Len(buffer) + j] = f
        BY <1>9, <3>3
      <4>2. Len(buffer) + j \in 1 .. Len(buffer') /\ Len(buffer) + j < i
        BY <1>9, <3>1, <3>3
      <4> QED BY <4>1, <4>2
    <3> QED BY <1>3, <3>1, <3>2, <3>3 DEF BatchKlopt
  <2> QED BY <2>1, <2>2
<1>13. \A m \in Batches : BatchKlopt(m)'
  <2>1. rij' = rij /\ eerder' = eerder /\ regels' = regels /\ verzonden'[l] \subseteq Geschreven'
    BY <1>2, <1>6, <1>8 DEF tabel
  <2>2. BatchKlopt(l)'
    BY <1>3, <1>8, <2>1 DEF BatchKlopt
  <2> QED BY <1>6, <1>8, <2>1, <2>2, BatchBlijft
<1> QED BY <1>7, <1>8, <1>11, <1>12, <1>13 DEF RelayInv

LEMMA MarkeerVerzondenHoudt ==
  ASSUME RelayInv, NEW l \in Batches, MarkeerVerzonden(l)
  PROVE  /\ RelayInv' /\ Geschreven' = Geschreven /\ Gelijktijdig' = Gelijktijdig
         /\ kwijt \subseteq kwijt' /\ kwijt' \in SUBSET Events
         /\ kwijt' \ kwijt \subseteq Geschreven \ (bezorgd \cup kwijt)
<1> USE DEF MarkeerVerzonden, broker
<1>1. RelayTypeOK /\ verzonden[l] \subseteq Geschreven
  BY DEF RelayInv, BatchKlopt
<1>2. Geschreven' = Geschreven /\ rij' \in [Events -> {"Ontbreekt", "InTransactie", "Onverzonden", "Verzonden"}]
      /\ RijenGroeien /\ Gelijktijdig' = Gelijktijdig
  BY <1>1 DEF Geschreven, Gelijktijdig, RelayTypeOK, RijenGroeien
<1>3. VerzondenKlopt' /\ kwijt \subseteq kwijt' /\ kwijt' \in SUBSET Events
      /\ kwijt' \ kwijt \subseteq Geschreven \ (bezorgd \cup kwijt)
  BY <1>2, KwijtKlopt
<1>4. RelayTypeOK'
  BY <1>1, <1>2, <1>3 DEF RelayTypeOK
<1>5. GroepenKlopt'
  <2>1. \A e \in Events : rij[e] \in {"Ontbreekt", "InTransactie"} => rij'[e] = rij[e]
    BY <1>1 DEF Geschreven
  <2> QED BY <1>2, <2>1, GroepenAssumption DEF RelayInv, GroepenKlopt
<1>6. TijdKlopt'
  BY <1>2 DEF RelayInv, TijdKlopt
<1>7. BufferKlopt'
  BY <1>2, <1>3, BufferBlijft
<1>8. ASSUME NEW m \in Batches PROVE BatchKlopt(m)'
  <2>1. CASE m = l
    BY <1>1, <2>1, LegeBatch DEF RelayTypeOK
  <2>2. CASE m # l
    BY <1>1, <1>2, <2>2, BatchBlijft DEF RelayTypeOK
  <2> QED BY <2>1, <2>2
<1> QED BY <1>2, <1>3, <1>4, <1>5, <1>6, <1>7, <1>8 DEF RelayInv

LEMMA StopBatchHoudt ==
  ASSUME RelayInv, NEW l \in Batches, StopBatch(l), fouten' \in 0 .. MaxFouten
  PROVE  RelayInv' /\ Geschreven' = Geschreven
<1> USE DEF StopBatch, broker
<1>1. RelayTypeOK
  BY DEF RelayInv
<1>2. RelayTypeOK'
  BY <1>1 DEF RelayTypeOK, tabel
<1>3. Geschreven' = Geschreven /\ RijenGroeien /\ GroepenKlopt' /\ TijdKlopt'
  BY TabelBlijft
<1>4. VerzondenKlopt' /\ BufferKlopt'
  BY <1>3, BufferBlijft DEF RelayInv, VerzondenKlopt, tabel, Elementen
<1>5. ASSUME NEW m \in Batches PROVE BatchKlopt(m)'
  <2>1. CASE m = l
    BY <1>1, <2>1, LegeBatch DEF RelayTypeOK
  <2>2. CASE m # l
    BY <1>1, <1>3, <2>2, BatchBlijft DEF RelayTypeOK
  <2> QED BY <2>1, <2>2
<1> QED BY <1>2, <1>3, <1>4, <1>5 DEF RelayInv

LEMMA BezorgHoudt ==
  ASSUME RelayInv, Bezorg
  PROVE  /\ RelayInv' /\ Geschreven' = Geschreven
         /\ Head(buffer) \in Geschreven /\ eerder[Head(buffer)] \subseteq bezorgd \cup kwijt
<1> USE DEF Bezorg, relay
<1>1. RelayTypeOK /\ buffer \in Seq(Events) /\ buffer # <<>> /\ BufferKlopt
  BY DEF RelayInv, RelayTypeOK
<1>2. /\ Len(buffer) \in Nat /\ 1 \in 1 .. Len(buffer) /\ Head(buffer) = buffer[1] /\ Head(buffer) \in Events
      /\ Tail(buffer) \in Seq(Events) /\ Len(Tail(buffer)) = Len(buffer) - 1
      /\ \A i \in 1 .. Len(Tail(buffer)) : i + 1 \in 1 .. Len(buffer) /\ Tail(buffer)[i] = buffer[i + 1]
  BY <1>1
<1>3. Head(buffer) \in Geschreven /\ eerder[Head(buffer)] \subseteq bezorgd \cup kwijt
  BY <1>1, <1>2 DEF BufferKlopt
<1>4. Geschreven' = Geschreven /\ RijenGroeien /\ GroepenKlopt' /\ TijdKlopt'
  BY TabelBlijft
<1>5. RelayTypeOK'
  BY <1>1, <1>2 DEF RelayTypeOK, tabel
<1>6. \A e \in Elementen(buffer) : e = Head(buffer) \/ \E j \in 1 .. Len(Tail(buffer)) : Tail(buffer)[j] = e
  <2> SUFFICES ASSUME NEW i \in 1 .. Len(buffer), i # 1
               PROVE  \E j \in 1 .. Len(Tail(buffer)) : Tail(buffer)[j] = buffer[i]
    BY <1>2 DEF Elementen
  <2>1. i - 1 \in 1 .. Len(Tail(buffer)) /\ (i - 1) + 1 = i
    BY <1>2
  <2>2. Tail(buffer)[i - 1] = buffer[i]
    BY <1>2, <2>1
  <2> QED BY <2>1, <2>2
<1>7. VerzondenKlopt'
  BY <1>4, <1>6 DEF RelayInv, VerzondenKlopt, tabel, Elementen
<1>8. BufferKlopt'
  <2> SUFFICES ASSUME NEW i \in 1 .. Len(Tail(buffer))
               PROVE  /\ Tail(buffer)[i] \in Geschreven
                      /\ \A f \in eerder[Tail(buffer)[i]] :
                           \/ f \in bezorgd' \cup kwijt
                           \/ \E j \in 1 .. Len(Tail(buffer)) : j < i /\ Tail(buffer)[j] = f
    BY <1>4 DEF BufferKlopt, tabel
  <2>1. i + 1 \in 1 .. Len(buffer) /\ Tail(buffer)[i] = buffer[i + 1]
    BY <1>2
  <2>2. ASSUME NEW f \in eerder[buffer[i + 1]]
        PROVE  \/ f \in bezorgd' \cup kwijt
               \/ \E j \in 1 .. Len(Tail(buffer)) : j < i /\ Tail(buffer)[j] = f
    <3>1. CASE f \in bezorgd \cup kwijt
      BY <3>1
    <3>2. CASE f \notin bezorgd \cup kwijt
      <4>1. PICK j \in 1 .. Len(buffer) : j < i + 1 /\ buffer[j] = f
        BY <1>1, <2>1, <3>2 DEF BufferKlopt
      <4>2. CASE j = 1
        BY <1>2, <4>1, <4>2
      <4>3. CASE j # 1
        <5>1. j - 1 \in 1 .. Len(Tail(buffer)) /\ j - 1 < i /\ (j - 1) + 1 = j
          BY <1>2, <4>1, <4>3
        <5>2. Tail(buffer)[j - 1] = f
          BY <1>2, <4>1, <5>1
        <5> QED BY <5>1, <5>2
      <4> QED BY <4>2, <4>3
    <3> QED BY <3>1, <3>2
  <2> QED BY <1>1, <2>1, <2>2 DEF BufferKlopt
<1>9. \A l \in Batches : BatchKlopt(l)'
  BY <1>4, BatchBlijft
<1> QED BY <1>3, <1>4, <1>5, <1>7, <1>8, <1>9 DEF RelayInv

LEMMA VerbindingWegHoudt ==
  ASSUME RelayInv, VerbindingWeg \/ Herstart
  PROVE  /\ RelayInv' /\ Geschreven' = Geschreven
         /\ kwijt \subseteq kwijt' /\ kwijt' \in SUBSET Events
         /\ kwijt' \ kwijt \subseteq Geschreven \ (bezorgd \cup kwijt)
<1>1. /\ buffer' = <<>> /\ HoudKwijtBij /\ UNCHANGED <<tabel, bezorgd>> /\ verbonden' \in BOOLEAN
      /\ fouten' \in 0 .. MaxFouten
      /\ UNCHANGED relay \/ (/\ batch' = [l \in Batches |-> "rust"] /\ regels' = [l \in Batches |-> <<>>]
                             /\ verzonden' = [l \in Batches |-> {}])
  <2>1. fouten \in 0 .. MaxFouten
    BY DEF RelayInv, RelayTypeOK
  <2>2. CASE VerbindingWeg
    <3>1. fouten' \in 0 .. MaxFouten
      BY <2>1, <2>2, GrenzenAssumption DEF VerbindingWeg, Fout
    <3>2. /\ buffer' = <<>> /\ HoudKwijtBij /\ verbonden' \in BOOLEAN
          /\ UNCHANGED tabel /\ UNCHANGED relay /\ UNCHANGED bezorgd
      BY <2>2 DEF VerbindingWeg
    <3> QED BY <3>1, <3>2
  <2>3. CASE Herstart
    <3>1. fouten' \in 0 .. MaxFouten
      <4>1. fouten' = fouten \/ (fouten < MaxFouten /\ fouten' = fouten + 1)
        BY <2>3 DEF Herstart, Fout
      <4> QED BY <2>1, <4>1, GrenzenAssumption
    <3>2. /\ batch' = [l \in Batches |-> "rust"] /\ regels' = [l \in Batches |-> <<>>]
          /\ verzonden' = [l \in Batches |-> {}]
      BY <2>3 DEF Herstart
    <3>3. buffer' = <<>> /\ HoudKwijtBij /\ UNCHANGED <<tabel, bezorgd>> /\ verbonden' \in BOOLEAN
      BY <2>3 DEF Herstart
    <3> QED BY <3>1, <3>2, <3>3
  <2> QED BY <2>2, <2>3
<1>2. RelayTypeOK
  BY DEF RelayInv
<1>3. Geschreven' = Geschreven /\ RijenGroeien /\ GroepenKlopt' /\ TijdKlopt'
  BY <1>1, TabelBlijft
<1>4. VerzondenKlopt' /\ kwijt \subseteq kwijt' /\ kwijt' \in SUBSET Events
      /\ kwijt' \ kwijt \subseteq Geschreven \ (bezorgd \cup kwijt)
  <2>1. rij' \in [Events -> {"Ontbreekt", "InTransactie", "Onverzonden", "Verzonden"}]
    BY <1>1, <1>2 DEF RelayTypeOK, tabel
  <2> QED BY <1>1, <1>3, <2>1, KwijtKlopt
<1>5. RelayTypeOK'
  <2>1. batch' \in [Batches -> {"rust", "geladen", "gepubliceerd"}] /\ regels' \in [Batches -> Seq(Events)]
        /\ verzonden' \in [Batches -> SUBSET Events]
    <3>1. CASE UNCHANGED relay
      BY <1>2, <3>1 DEF RelayTypeOK, relay
    <3>2. CASE /\ batch' = [l \in Batches |-> "rust"] /\ regels' = [l \in Batches |-> <<>>]
               /\ verzonden' = [l \in Batches |-> {}]
      BY <3>2
    <3> QED BY <1>1, <3>1, <3>2
  <2> QED BY <1>1, <1>2, <1>4, <2>1 DEF RelayTypeOK, tabel
<1>6. BufferKlopt'
  BY <1>1 DEF BufferKlopt
<1>7. \A l \in Batches : BatchKlopt(l)'
  BY <1>1, <1>3, BatchBlijft, LegeBatch DEF relay
<1> QED BY <1>3, <1>4, <1>5, <1>6, <1>7 DEF RelayInv

LEMMA StapHoudt == RelayInv /\ [RelayNext]_relayVars => RelayInv'
<1> SUFFICES ASSUME RelayInv, [RelayNext]_relayVars PROVE RelayInv'
  OBVIOUS
<1>1. CASE UNCHANGED relayVars
  BY <1>1 DEF relayVars, RelayInv, RelayTypeOK, GroepenKlopt, TijdKlopt, VerzondenKlopt, BatchKlopt, BufferKlopt,
              Geschreven, Elementen
<1>2. CASE BeginSchrijven
  BY <1>2, BeginSchrijvenHoudt
<1>3. CASE \E n \in 1 .. geroepen : CommitSchrijven(n)
  BY <1>3, CommitSchrijvenHoudt
<1>4. ASSUME NEW l \in Batches, BatchStap(l) \/ MarkerenMislukt(l) PROVE RelayInv'
  <2>1. CASE PakOnverzonden(l)
    BY <2>1, PakOnverzondenHoudt
  <2>2. CASE PubliceerRegels(l)
    BY <2>2, PubliceerRegelsHoudt
  <2>3. CASE MarkeerVerzonden(l)
    BY <2>3, MarkeerVerzondenHoudt
  <2>4. CASE KanaalDicht(l)
    BY <2>4, StopBatchHoudt DEF KanaalDicht, RelayInv, RelayTypeOK
  <2>5. CASE MarkerenMislukt(l)
    <3>1. fouten' \in 0 .. MaxFouten
      BY <2>5, GrenzenAssumption DEF MarkerenMislukt, Fout, RelayInv, RelayTypeOK
    <3> QED BY <2>5, <3>1, StopBatchHoudt DEF MarkerenMislukt
  <2> QED BY <1>4, <2>1, <2>2, <2>3, <2>4, <2>5 DEF BatchStap
<1>5. CASE Bezorg
  BY <1>5, BezorgHoudt
<1>6. CASE VerbindingWeg \/ Herstart
  BY <1>6, VerbindingWegHoudt
<1>7. CASE TikKlok
  BY <1>7, TikKlokHoudt
<1> QED BY <1>1, <1>2, <1>3, <1>4, <1>5, <1>6, <1>7 DEF RelayNext

LEMMA RelayAltijd == RelaySpec => []RelayInv
<1> QED
  BY RelayBegin, StapHoudt, PTL DEF RelaySpec

-----------------------------------------------------------------------------
(* The theorems *)

\* Every variable of OutboxRelay keeps its type.
THEOREM RelayTypeCorrect == RelaySpec => []RelayTypeOK
<1>1. RelayInv => RelayTypeOK
  BY DEF RelayInv
<1> QED
  BY <1>1, RelayAltijd, PTL

\* What is marked as sent was put on the connection: it reached the exchange, is on its way,
\* or is accounted for as lost with the process or the connection.
THEOREM GemarkeerdIsVerantwoord ==
  RelaySpec => [](\A e \in Events : rij[e] = "Verzonden" => e \in bezorgd \cup kwijt \cup Elementen(buffer))
<1>1. RelayInv => \A e \in Events : rij[e] = "Verzonden" => e \in bezorgd \cup kwijt \cup Elementen(buffer)
  BY DEF RelayInv, VerzondenKlopt
<1> QED
  BY <1>1, RelayAltijd, PTL

\* The safety part of ImplementeertBezorging: through every overlap of batch calls, repetition,
\* fault and restart, an event is delivered to the exchange only when it was committed and
\* every event of an earlier millisecond that was committed before it came about was delivered
\* before it or lost; what is lost was committed and not delivered.  Nothing is said of the
\* order of events of one millisecond, of the same call or of different ones.
THEOREM ImplementeertVeilig == RelaySpec => B!Veilig
<1>1. RelayInit => B!Init
  BY DEF RelayInit, B!Init, Geschreven, Gelijktijdig
<1>2. RelayInv /\ [RelayNext]_relayVars => [B!Next]_(B!vars)
  <2> SUFFICES ASSUME RelayInv, [RelayNext]_relayVars PROVE [B!Next]_(B!vars)
    OBVIOUS
  <2> USE DEF B!vars
  <2>1. CASE UNCHANGED relayVars
    BY <2>1 DEF relayVars, Geschreven, Gelijktijdig
  <2>2. CASE BeginSchrijven
    <3> DEFINE S == Groepen[geroepen']
    <3>1. /\ Geschreven' = Geschreven /\ S \in SUBSET Events /\ S \cap Geschreven = {}
          /\ eerder' = [e \in Events |-> IF e \in S THEN Geschreven \ Gelijktijdig ELSE eerder[e]]
          /\ Gelijktijdig' = Gelijktijdig \cup S /\ bezorgd' = bezorgd /\ kwijt' = kwijt
      BY <2>2, BeginSchrijvenHoudt DEF BeginSchrijven, broker
    <3> HIDE DEF S
    <3>2. CASE S = {}
      <4>1. eerder' = eerder /\ Gelijktijdig' = Gelijktijdig
        BY <3>1, <3>2 DEF RelayInv, RelayTypeOK
      <4> QED BY <3>1, <4>1
    <3>3. CASE S # {}
      <4>1. B!Ontstaat(S)
        BY <3>1, <3>3 DEF B!Ontstaat
      <4> QED BY <3>1, <4>1 DEF B!Next
    <3> QED BY <3>2, <3>3
  <2>3. ASSUME NEW n \in 1 .. geroepen, CommitSchrijven(n) PROVE B!Next
    <3>1. Groepen[n] \in SUBSET Events /\ B!Schrijf(Groepen[n])
      BY <2>3, CommitSchrijvenHoudt DEF CommitSchrijven, broker, B!Schrijf
    <3> QED BY <3>1 DEF B!Next
  <2>4. ASSUME Geschreven' = Geschreven, Gelijktijdig' = Gelijktijdig, eerder' = eerder, bezorgd' = bezorgd,
               kwijt \subseteq kwijt', kwijt' \in SUBSET Events,
               kwijt' \ kwijt \subseteq Geschreven \ (bezorgd \cup kwijt)
        PROVE  [B!Next]_(B!vars)
    <3> DEFINE S == kwijt' \ kwijt
    <3>1. CASE S = {}
      BY <2>4, <3>1
    <3>2. CASE S # {}
      <4>1. kwijt' = kwijt \cup S /\ S \in SUBSET Events
        BY <2>4
      <4>2. B!Verlies(S)
        BY <2>4, <3>2, <4>1 DEF B!Verlies
      <4> QED BY <4>1, <4>2 DEF B!Next
    <3> QED BY <3>1, <3>2
  <2>5. ASSUME NEW l \in Batches, BatchStap(l) \/ MarkerenMislukt(l) PROVE [B!Next]_(B!vars)
    <3>1. CASE PakOnverzonden(l)
      BY <3>1, PakOnverzondenHoudt DEF PakOnverzonden, tabel, broker, Gelijktijdig
    <3>2. CASE PubliceerRegels(l)
      BY <3>2, PubliceerRegelsHoudt DEF PubliceerRegels, tabel, Gelijktijdig
    <3>3. CASE MarkeerVerzonden(l)
      BY <2>4, <3>3, MarkeerVerzondenHoudt DEF MarkeerVerzonden, broker
    <3>4. CASE KanaalDicht(l) \/ MarkerenMislukt(l)
      BY <3>4 DEF KanaalDicht, MarkerenMislukt, StopBatch, tabel, broker, Geschreven, Gelijktijdig
    <3> QED BY <2>5, <3>1, <3>2, <3>3, <3>4 DEF BatchStap
  <2>6. CASE Bezorg
    <3> DEFINE e == Head(buffer)
    <3>1. /\ Geschreven' = Geschreven /\ Gelijktijdig' = Gelijktijdig /\ eerder' = eerder /\ kwijt' = kwijt
          /\ bezorgd' = bezorgd \cup {e} /\ e \in Geschreven /\ eerder[e] \subseteq bezorgd \cup kwijt
      BY <2>6, BezorgHoudt DEF Bezorg, tabel, Gelijktijdig
    <3> HIDE DEF e
    <3>2. CASE e \in bezorgd
      BY <3>1, <3>2
    <3>3. CASE e \notin bezorgd
      <4>1. B!Bezorg(e) /\ e \in Events
        BY <3>1, <3>3 DEF B!Bezorg, Geschreven
      <4> QED BY <4>1 DEF B!Next
    <3> QED BY <3>2, <3>3
  <2>7. CASE VerbindingWeg \/ Herstart
    BY <2>4, <2>7, VerbindingWegHoudt DEF VerbindingWeg, Herstart, tabel, Gelijktijdig
  <2>8. CASE TikKlok
    <3>1. B!Tik
      BY <2>8, TikKlokHoudt DEF TikKlok, broker, B!Tik
    <3> QED BY <3>1 DEF B!Next
  <2> QED BY <2>1, <2>2, <2>3, <2>5, <2>6, <2>7, <2>8 DEF RelayNext
<1> QED
  BY <1>1, <1>2, RelayAltijd, PTL DEF RelaySpec, B!Veilig
=============================================================================
