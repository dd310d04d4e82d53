-------------------------- MODULE BeheerEisen_proofs --------------------------
(***************************************************************************)
(* Proofs about BeheerEisen, for every set of requests.                     *)
(*                                                                         *)
(* VersiesAaneengesloten and NieuwsteGeldt are not inductive by themselves: *)
(* a request that has numbered its pakket may commit much later.  What      *)
(* makes its commit safe is that the number it holds has a row just below   *)
(* it (Genummerd), so that, the versions having no gap, either a row has    *)
(* the number already and the constraint refuses it, or it is higher than   *)
(* all of them (lemma CommitIsHoogste).                                     *)
(***************************************************************************)
EXTENDS BeheerEisen, TLAPS

\* The committed rows are those of the requests past their commit.
RijNaCommit ==
  \A r \in Verzoeken : r \in Rijen <=> pc[r] \in {"gecommit", "klaar", "onaangekondigd"}

\* A non-empty table has a highest version (the set of rows need not be finite).
ErIsEenHoogste == Rijen # {} => \E p \in Rijen : HoogsteVan(Rijen, p)

\* A number a request holds is 1 or follows the version of some row.
Genummerd ==
  \A r \in Verzoeken :
    pc[r] = "genummerd" =>
      /\ versie[r] >= 1
      /\ versie[r] = 1 \/ \E p \in Rijen : versie[p] + 1 = versie[r]

\* A request replaces a pakket only if it is a committed row.
HuidigIsRij == \A r \in Verzoeken : huidig[r] = Geen \/ huidig[r] \in Rijen

VersieInv ==
  /\ TypeOK
  /\ RijNaCommit
  /\ HuidigIsRij
  /\ ErIsEenHoogste
  /\ Genummerd
  /\ VersiesAaneengesloten
  /\ NieuwsteGeldt

\* Without overlap there is one open transaction at most, and it has read the one
\* pakket that is Vastgesteld.
SerieelInv ==
  ~samenloop =>
    /\ \A p, q \in Vastgestelde : p = q
    /\ \A r, q \in Verzoeken : pc[r] \in Open /\ pc[q] \in Open => r = q
    /\ \A r \in Verzoeken : pc[r] \in Open => \A p \in Vastgestelde : p = huidig[r]

USE DEF tabel, lokaal   \* groups of variables

-----------------------------------------------------------------------------
(* Lemmas about the queries *)

\* get_current answers None exactly when no pakket is Vastgesteld, and otherwise
\* one whose version no Vastgesteld pakket exceeds.
LEMMA GetCurrentLemma ==
  ASSUME VersieInv
  PROVE  /\ Vastgestelde = {} => GetCurrent = Geen
         /\ Vastgestelde # {} => GetCurrent \in Vastgestelde
<1>1. ASSUME Vastgestelde # {} PROVE GetCurrent \in Vastgestelde
  <2>1. PICK p \in Rijen : HoogsteVan(Rijen, p)
    BY <1>1 DEF Vastgestelde, VersieInv, ErIsEenHoogste
  <2>2. p \in Vastgestelde
    BY <2>1 DEF VersieInv, NieuwsteGeldt, Vastgestelde
  <2>3. HoogsteVan(Vastgestelde, p)
    BY <2>1, <2>2 DEF HoogsteVan, Vastgestelde
  <2> QED BY <1>1, <2>2, <2>3 DEF GetCurrent
<1> QED BY <1>1 DEF GetCurrent

\* next_version is 1 or one more than the version of some row.
LEMMA NextVersionLemma ==
  ASSUME VersieInv
  PROVE  /\ NextVersion \in Nat
         /\ NextVersion >= 1
         /\ NextVersion = 1 \/ \E p \in Rijen : versie[p] + 1 = NextVersion
<1>1. CASE Rijen = {}
  BY <1>1 DEF NextVersion
<1>2. CASE Rijen # {}
  <2> DEFINE h == CHOOSE p \in Rijen : HoogsteVan(Rijen, p)
  <2>1. h \in Rijen
    BY <1>2 DEF VersieInv, ErIsEenHoogste
  <2>2. versie[h] \in Nat
    BY <2>1 DEF Rijen, VersieInv, TypeOK
  <2>3. NextVersion = versie[h] + 1
    BY <1>2 DEF NextVersion
  <2> HIDE DEF h
  <2>4. \E p \in Rijen : versie[p] + 1 = NextVersion
    BY <2>1, <2>3
  <2> QED BY <2>2, <2>3, <2>4
<1> QED BY <1>1, <1>2

\* A number the constraint does not refuse is higher than every committed version.
LEMMA CommitIsHoogste ==
  ASSUME VersieInv, NEW r \in Verzoeken, pc[r] = "genummerd", ~VersieBezet(versie[r])
  PROVE  \A q \in Rijen : versie[q] < versie[r]
<1> SUFFICES ASSUME NEW q \in Rijen, ~(versie[q] < versie[r]) PROVE FALSE
  OBVIOUS
<1>1. versie[q] \in Nat /\ versie[r] \in Nat /\ versie[r] >= 1
  BY DEF VersieInv, TypeOK, Genummerd, Rijen
<1>2. versie[r] \in 1 .. versie[q]
  BY <1>1
<1>3. \E p \in Rijen : versie[p] = versie[r]
  BY <1>2 DEF VersieInv, VersiesAaneengesloten
<1> QED BY <1>3 DEF VersieBezet

\* The new pakket is not the one it replaces, and comes into force.
LEMMA CommitGeldt ==
  ASSUME VersieInv, NEW r \in Verzoeken, Commit(r)
  PROVE  r \notin Rijen /\ status'[r] = "Vastgesteld"
<1>1. r \notin Rijen
  BY DEF Commit, StatusNa, VersieInv, RijNaCommit
<1>2. huidig[r] # r
  BY <1>1, GeenAssumption DEF VersieInv, HuidigIsRij
<1> QED BY <1>1, <1>2 DEF Commit, StatusNa

\* What concerns the table alone survives every step that leaves it alone.
LEMMA TabelOngewijzigd ==
  ASSUME VersieInv, status' = status, \A p \in Rijen : versie'[p] = versie[p]
  PROVE  Rijen' = Rijen /\ ErIsEenHoogste' /\ VersiesAaneengesloten' /\ NieuwsteGeldt'
<1>1. Rijen' = Rijen
  BY DEF Rijen
<1>2. \A p : HoogsteVan(Rijen, p)' <=> HoogsteVan(Rijen, p)
  BY <1>1 DEF HoogsteVan
<1>3. ErIsEenHoogste'
  BY <1>1, <1>2 DEF VersieInv, ErIsEenHoogste
<1>4. VersiesAaneengesloten'
  BY <1>1 DEF VersieInv, VersiesAaneengesloten
<1>5. NieuwsteGeldt'
  BY <1>1, <1>2 DEF VersieInv, NieuwsteGeldt
<1> QED BY <1>1, <1>3, <1>4, <1>5

-----------------------------------------------------------------------------
(* The versions *)

LEMMA VersieInit == Init => VersieInv
<1> SUFFICES ASSUME Init PROVE VersieInv
  OBVIOUS
<1>1. Rijen = {}
  BY DEF Init, Rijen
<1> QED
  BY <1>1 DEF Init, VersieInv, TypeOK, RijNaCommit, HuidigIsRij, ErIsEenHoogste,
              Genummerd, VersiesAaneengesloten, NieuwsteGeldt, Open, Eind, Statussen

\* The step in which a pakket comes into force.
LEMMA VersieCommit ==
  ASSUME VersieInv, NEW r \in Verzoeken, Commit(r)
  PROVE  VersieInv'
<1>1. TypeOK'
  BY DEF Commit, StatusNa, EisenNa, VersieInv, TypeOK, Open, Eind, Statussen
<1>2. r \notin Rijen /\ status'[r] = "Vastgesteld"
  BY CommitGeldt
<1>3. Rijen' = Rijen \cup {r}
  BY GeenAssumption DEF Commit, StatusNa, VersieInv, TypeOK, HuidigIsRij, Rijen
<1>4. \A q \in Rijen : versie[q] < versie[r]
  BY CommitIsHoogste DEF Commit, StatusNa
<1>5. \A q \in Rijen' : versie'[q] = versie[q] /\ versie[q] \in Nat
  BY DEF Commit, StatusNa, VersieInv, TypeOK, Rijen
<1>6. HoogsteVan(Rijen, r)'
  BY <1>3, <1>4, <1>5 DEF HoogsteVan
<1>7. \A p \in Rijen' : HoogsteVan(Rijen, p)' => p = r
  BY <1>3, <1>4, <1>5 DEF HoogsteVan
<1>8. RijNaCommit' /\ HuidigIsRij'
  BY <1>3 DEF Commit, StatusNa, VersieInv, TypeOK, RijNaCommit, HuidigIsRij
<1>9. ErIsEenHoogste'
  BY <1>3, <1>6 DEF ErIsEenHoogste
<1>10. Genummerd'
  BY <1>3, <1>5 DEF Commit, StatusNa, VersieInv, TypeOK, Genummerd
<1>11. VersiesAaneengesloten'
  <2>1. \A p, q \in Rijen' : versie'[p] = versie'[q] => p = q
    BY <1>3, <1>4, <1>5 DEF VersieInv, VersiesAaneengesloten
  <2>2. \A p \in Rijen : versie[p] >= 1 /\ \A n \in 1 .. versie[p] : \E q \in Rijen : versie[q] = n
    BY DEF VersieInv, VersiesAaneengesloten
  <2>3. versie[r] >= 1 /\ (versie[r] = 1 \/ \E p \in Rijen : versie[p] + 1 = versie[r])
    BY DEF Commit, StatusNa, VersieInv, Genummerd
  <2>4. ASSUME NEW n \in 1 .. versie[r] PROVE \E q \in Rijen' : versie[q] = n
    <3>1. CASE n = versie[r]
      BY <3>1, <1>3
    <3>2. CASE n # versie[r]
      <4>1. PICK p \in Rijen : versie[p] + 1 = versie[r]
        BY <2>3, <2>4, <3>2, <1>3, <1>5
      <4>2. n \in 1 .. versie[p]
        BY <4>1, <2>4, <3>2, <1>3, <1>5
      <4> QED BY <4>2, <2>2, <1>3
    <3> QED BY <3>1, <3>2
  <2> QED BY <2>1, <2>2, <2>3, <2>4, <1>3, <1>5 DEF VersiesAaneengesloten
<1>12. NieuwsteGeldt'
  BY <1>2, <1>7 DEF NieuwsteGeldt
<1> QED BY <1>1, <1>8, <1>9, <1>10, <1>11, <1>12 DEF VersieInv

LEMMA VersieStap == VersieInv /\ [Next]_vars => VersieInv'
<1> SUFFICES ASSUME VersieInv, [Next]_vars PROVE VersieInv'
  OBVIOUS
<1> USE DEF VersieInv
<1>1. CASE RegistreerKunstwerk
  <2>1. Rijen' = Rijen /\ ErIsEenHoogste' /\ VersiesAaneengesloten' /\ NieuwsteGeldt'
    BY <1>1, TabelOngewijzigd DEF RegistreerKunstwerk
  <2> QED BY <1>1, <2>1 DEF RegistreerKunstwerk, TypeOK, RijNaCommit, HuidigIsRij, Genummerd
<1>2. ASSUME NEW r \in Verzoeken,
             WijsAf(r) \/ LeesEisen(r) \/ MarkeerVervangen(r) \/ DraaiTerug(r) \/ Publiceer(r)
               \/ PubliceerMislukt(r)
      PROVE  VersieInv'
  <2>1. Rijen' = Rijen /\ ErIsEenHoogste' /\ VersiesAaneengesloten' /\ NieuwsteGeldt'
    BY <1>2, TabelOngewijzigd
    DEF WijsAf, LeesEisen, MarkeerVervangen, DraaiTerug, Publiceer, PubliceerMislukt
  <2>2. TypeOK'
    BY <1>2 DEF WijsAf, LeesEisen, MarkeerVervangen, DraaiTerug, Publiceer, PubliceerMislukt,
                TypeOK, Open, Eind
  <2>3. RijNaCommit' /\ HuidigIsRij'
    BY <1>2, <2>1 DEF WijsAf, LeesEisen, MarkeerVervangen, DraaiTerug, Publiceer, PubliceerMislukt,
                      TypeOK, RijNaCommit, HuidigIsRij, Open
  <2>4. Genummerd'
    BY <1>2, <2>1 DEF WijsAf, LeesEisen, MarkeerVervangen, DraaiTerug, Publiceer, PubliceerMislukt,
                      TypeOK, Genummerd
  <2> QED BY <2>1, <2>2, <2>3, <2>4
<1>3. ASSUME NEW r \in Verzoeken, LeesHuidig(r) PROVE VersieInv'
  <2>1. Rijen' = Rijen /\ ErIsEenHoogste' /\ VersiesAaneengesloten' /\ NieuwsteGeldt'
    BY <1>3, TabelOngewijzigd DEF LeesHuidig
  <2>2. GetCurrent \in Rijen \cup {Geen}
    BY GetCurrentLemma DEF Vastgestelde
  <2>3. samenloop' \in BOOLEAN
    BY <1>3 DEF LeesHuidig
  <2>4. TypeOK'
    BY <1>3, <2>2, <2>3 DEF LeesHuidig, TypeOK, Open, Rijen
  <2>5. RijNaCommit' /\ Genummerd'
    BY <1>3, <2>1 DEF LeesHuidig, TypeOK, RijNaCommit, Genummerd
  <2>6. HuidigIsRij'
    BY <1>3, <2>1, <2>2 DEF LeesHuidig, TypeOK, HuidigIsRij
  <2> QED BY <2>1, <2>4, <2>5, <2>6
<1>4. ASSUME NEW r \in Verzoeken, NeemVersie(r) PROVE VersieInv'
  <2>1. r \notin Rijen
    BY <1>4 DEF NeemVersie, RijNaCommit
  <2>2. Rijen' = Rijen /\ ErIsEenHoogste' /\ VersiesAaneengesloten' /\ NieuwsteGeldt'
    BY <1>4, <2>1, TabelOngewijzigd DEF NeemVersie, TypeOK, Rijen
  <2>3. TypeOK'
    BY <1>4, NextVersionLemma DEF NeemVersie, TypeOK, Open
  <2>4. RijNaCommit' /\ HuidigIsRij'
    BY <1>4, <2>2 DEF NeemVersie, TypeOK, RijNaCommit, HuidigIsRij
  <2>5. \A p \in Verzoeken \ {r} : versie'[p] = versie[p]
    BY <1>4 DEF NeemVersie, TypeOK
  <2>6. versie'[r] = NextVersion
    BY <1>4 DEF NeemVersie, TypeOK
  <2>7. \A p \in Rijen : p \in Verzoeken \ {r}
    BY <2>1 DEF Rijen
  <2>8. ASSUME NEW q \in Verzoeken, pc'[q] = "genummerd", q # r
        PROVE  pc[q] = "genummerd"
    BY <1>4, <2>8 DEF NeemVersie, TypeOK
  <2>9. Genummerd'
    BY <2>2, <2>5, <2>6, <2>7, <2>8, NextVersionLemma DEF Genummerd
  <2> QED BY <2>2, <2>3, <2>4, <2>9
<1>5. ASSUME NEW r \in Verzoeken, Commit(r) PROVE VersieInv'
  BY <1>5, VersieCommit
<1>6. CASE UNCHANGED vars
  BY <1>6 DEF vars, TypeOK, RijNaCommit, HuidigIsRij, ErIsEenHoogste, Genummerd,
              VersiesAaneengesloten, NieuwsteGeldt, Rijen, HoogsteVan
<1> QED
  BY <1>1, <1>2, <1>3, <1>4, <1>5, <1>6 DEF Next, Stap

\* Along every behaviour, the types of the columns and local variables hold.
THEOREM TypeCorrect == Spec => []TypeOK
<1>1. VersieInv => TypeOK
  BY DEF VersieInv
<1> QED BY <1>1, VersieInit, VersieStap, PTL DEF Spec

\* Whatever transactions interleave, abort or die, the committed versions are
\* distinct and have no gap.
THEOREM VersiesKloppen == Spec => []VersiesAaneengesloten
<1>1. VersieInv => VersiesAaneengesloten
  BY DEF VersieInv
<1> QED BY <1>1, VersieInit, VersieStap, PTL DEF Spec

\* The pakket with the highest version is in force, so the one get_current returns
\* is the last one that was committed.
THEOREM NieuwstePakketGeldt == Spec => []NieuwsteGeldt
<1>1. VersieInv => NieuwsteGeldt
  BY DEF VersieInv
<1> QED BY <1>1, VersieInit, VersieStap, PTL DEF Spec

-----------------------------------------------------------------------------
(* At most one, in sequence *)

LEMMA SerieelInit == Init => SerieelInv
BY DEF Init, SerieelInv, Vastgestelde, Rijen, Open

LEMMA SerieelStap == VersieInv /\ SerieelInv /\ [Next]_vars => SerieelInv'
<1> SUFFICES ASSUME VersieInv, SerieelInv, [Next]_vars, ~samenloop' PROVE SerieelInv'
  BY DEF SerieelInv
<1> USE DEF VersieInv
<1>1. ASSUME status' = status, huidig' = huidig, samenloop' = samenloop,
             \A r \in Verzoeken : pc'[r] \in Open => pc[r] \in Open
      PROVE  SerieelInv'
  <2>1. Vastgestelde' = Vastgestelde
    BY <1>1 DEF Vastgestelde, Rijen
  <2> QED BY <1>1, <2>1 DEF SerieelInv
<1>2. CASE RegistreerKunstwerk
  BY <1>2, <1>1 DEF RegistreerKunstwerk
<1>3. ASSUME NEW r \in Verzoeken,
             WijsAf(r) \/ LeesEisen(r) \/ MarkeerVervangen(r) \/ NeemVersie(r)
               \/ DraaiTerug(r) \/ Publiceer(r) \/ PubliceerMislukt(r)
      PROVE  SerieelInv'
  BY <1>3, <1>1 DEF WijsAf, LeesEisen, MarkeerVervangen, NeemVersie, DraaiTerug, Publiceer,
                    PubliceerMislukt, TypeOK, Open
<1>4. ASSUME NEW r \in Verzoeken, LeesHuidig(r) PROVE SerieelInv'
  <2>1. ~samenloop /\ \A q \in Verzoeken : pc[q] \notin Open
    BY <1>4 DEF LeesHuidig, TypeOK
  <2>2. Vastgestelde' = Vastgestelde
    BY <1>4 DEF LeesHuidig, Vastgestelde, Rijen
  <2>3. \A q \in Verzoeken : pc'[q] \in Open => q = r
    BY <1>4, <2>1 DEF LeesHuidig, TypeOK
  <2>4. \A p, q \in Vastgestelde : p = q
    BY <2>1 DEF SerieelInv
  <2>5. \A p \in Vastgestelde : p = huidig'[r]
    BY <1>4, <2>4, GetCurrentLemma DEF LeesHuidig, TypeOK
  <2> QED BY <2>2, <2>3, <2>4, <2>5 DEF SerieelInv
<1>5. ASSUME NEW r \in Verzoeken, Commit(r) PROVE SerieelInv'
  <2>1. ~samenloop /\ pc[r] \in Open
    BY <1>5 DEF Commit, StatusNa, Open
  <2>2. \A p \in Vastgestelde : p = huidig[r]
    BY <2>1 DEF SerieelInv
  <2>3. Vastgestelde' \subseteq {r}
    BY <1>5, <2>2 DEF Commit, StatusNa, Vastgestelde, Rijen, TypeOK
  <2>4. \A q \in Verzoeken : pc'[q] \notin Open
    BY <1>5, <2>1 DEF Commit, StatusNa, SerieelInv, TypeOK, Open
  <2> QED BY <2>3, <2>4 DEF SerieelInv
<1>6. CASE UNCHANGED vars
  BY <1>6, <1>1 DEF vars
<1> QED
  BY <1>2, <1>3, <1>4, <1>5, <1>6 DEF Next, Stap

\* As long as the requests for a kunstwerk and soort do not overlap, at most one
\* of their pakketten is Vastgesteld.
THEOREM InSerieHoogstensEen == Spec => []SerieelHoogstensEen
<1>1. SerieelInv => SerieelHoogstensEen
  BY DEF SerieelInv, SerieelHoogstensEen
<1>2. Init => VersieInv /\ SerieelInv
  BY VersieInit, SerieelInit
<1>3. VersieInv /\ SerieelInv /\ [Next]_vars => (VersieInv /\ SerieelInv)'
  BY VersieStap, SerieelStap
<1> QED BY <1>1, <1>2, <1>3, PTL DEF Spec

-----------------------------------------------------------------------------
(* Replacement is final *)

LEMMA VervangingStap ==
  ASSUME VersieInv, [Next]_vars, NEW p \in Rijen
  PROVE  /\ p \in Rijen'
         /\ status[p] = "Vervangen" => status'[p] = "Vervangen"
         /\ status'[p] # status[p] =>
              \E q \in Rijen' \ Rijen : status'[q] = "Vastgesteld" /\ versie'[q] > versie[p]
<1>1. CASE status' = status
  BY <1>1 DEF Rijen
<1>2. ASSUME NEW r \in Verzoeken, Commit(r)
      PROVE  /\ p \in Rijen'
             /\ status[p] = "Vervangen" => status'[p] = "Vervangen"
             /\ status'[p] # status[p] =>
                  \E q \in Rijen' \ Rijen : status'[q] = "Vastgesteld" /\ versie'[q] > versie[p]
  <2>1. r \in Rijen' \ Rijen
    BY <1>2, CommitGeldt DEF Rijen
  <2>2. status'[r] = "Vastgesteld"
    BY <1>2, CommitGeldt
  <2>3. versie'[r] > versie[p]
    BY <1>2, CommitIsHoogste DEF Commit, StatusNa, VersieInv, TypeOK, Rijen
  <2>4. p \in Rijen' /\ (status[p] = "Vervangen" => status'[p] = "Vervangen")
    BY <1>2, <2>1 DEF Commit, StatusNa, Rijen
  <2> QED BY <2>1, <2>2, <2>3, <2>4
<1> QED
  BY <1>1, <1>2 DEF Next, Stap, vars, RegistreerKunstwerk, WijsAf, LeesHuidig, LeesEisen,
                    MarkeerVervangen,
                    NeemVersie, DraaiTerug, Publiceer, PubliceerMislukt

\* A pakket is replaced only by a newer one that comes into force in the same step,
\* and stays replaced.
THEOREM VervangingBlijft == Spec => VervangingIsDefinitief
<1>1. VersieInv /\ [Next]_vars =>
        [\A p \in Rijen :
           /\ p \in Rijen'
           /\ status[p] = "Vervangen" => status'[p] = "Vervangen"
           /\ status'[p] # status[p] =>
                \E q \in Rijen' \ Rijen : status'[q] = "Vastgesteld" /\ versie'[q] > versie[p]]_vars
  BY VervangingStap
<1> QED BY <1>1, VersieInit, VersieStap, PTL DEF Spec, VervangingIsDefinitief
-----------------------------------------------------------------------------
(* The eis rows *)

\* Only a committed row has eis rows, and without overlap a request that is about
\* to replace a pakket has read all of them.
EisenInv ==
  /\ \A p \in Verzoeken \ Rijen : eisrijen[p] = {}
  /\ ~samenloop =>
       \A r \in Verzoeken :
         pc[r] \in Open \ {"gelezen"} /\ huidig[r] # Geen => eisgelezen[r] = eisrijen[huidig[r]]
  /\ EisenBewaard

\* A request that replaces a pakket has passed LeesEisen.
GeladenHeeftHuidig == \A r \in Verzoeken : pc[r] \in {"geladen", "gemarkeerd"} => huidig[r] # Geen

LEMMA EisenInit == Init => EisenInv
BY DEF Init, EisenInv, EisenBewaard, Vastgestelde, Rijen, Open

\* The eis rows of the table after a commit.
LEMMA EisenCommit ==
  ASSUME VersieInv, SerieelInv, EisenInv, NEW r \in Verzoeken, Commit(r)
  PROVE  EisenInv'
<1>1. r \notin Rijen /\ status'[r] = "Vastgesteld"
  BY CommitGeldt
<1>2. Rijen' = Rijen \cup {r}
  BY GeenAssumption DEF Commit, StatusNa, VersieInv, TypeOK, HuidigIsRij, Rijen
<1>3. Vastgestelde' = (Vastgestelde \ {huidig[r]}) \cup {r}
  BY <1>1, <1>2 DEF Commit, StatusNa, Vastgestelde, Rijen
<1>4. eisrijen'[r] = {r}
  BY <1>1 DEF Commit, EisenNa, EisenInv
<1>5. \A p \in Rijen' \ {r} :
        eisrijen'[p] = IF p = huidig[r] THEN (eisrijen[p] \ eisgelezen[r]) \cup {r} ELSE eisrijen[p]
  BY <1>2 DEF Commit, EisenNa, Rijen
<1>6. \A p \in Verzoeken \ Rijen' : eisrijen'[p] = {}
  BY <1>2, GeenAssumption DEF Commit, EisenNa, VersieInv, HuidigIsRij, EisenInv
<1>7. \A p \in Rijen' : eisrijen'[p] # {}
  BY <1>2, <1>4, <1>5 DEF EisenInv, EisenBewaard
<1>8. \A p \in Vastgestelde' : eisrijen'[p] = {p}
  BY <1>2, <1>3, <1>4, <1>5 DEF EisenInv, EisenBewaard, Vastgestelde
<1>9. ASSUME ~samenloop'
      PROVE  /\ \A p \in Rijen' : \A c, d \in eisrijen'[p] : c = d
             /\ \A q \in Verzoeken : pc'[q] \notin Open
  <2>1. ~samenloop /\ pc[r] \in Open \ {"gelezen"}
    BY <1>9 DEF Commit, Open
  <2>2. huidig[r] \in Rijen => eisgelezen[r] = eisrijen[huidig[r]]
    BY <2>1, GeenAssumption DEF EisenInv, Rijen
  <2>3. \A q \in Verzoeken : pc'[q] \notin Open
    BY <2>1 DEF Commit, SerieelInv, VersieInv, TypeOK, Open
  <2>4. ASSUME NEW p \in Rijen' \ {r} PROVE \A c, d \in eisrijen'[p] : c = d
    <3>1. p \in Rijen /\ \A c, d \in eisrijen[p] : c = d
      BY <1>2, <2>1 DEF EisenInv, EisenBewaard
    <3>2. CASE p = huidig[r]
      <4>1. eisrijen'[p] = {r}
        BY <1>5, <2>2, <3>1, <3>2
      <4> QED BY <4>1
    <3>3. CASE p # huidig[r]
      BY <1>5, <3>1, <3>3
    <3> QED BY <3>2, <3>3
  <2> QED BY <1>4, <2>3, <2>4
<1> QED BY <1>6, <1>7, <1>8, <1>9 DEF EisenInv, EisenBewaard

LEMMA EisenStap ==
  VersieInv /\ SerieelInv /\ GeladenHeeftHuidig /\ EisenInv /\ [Next]_vars
    => GeladenHeeftHuidig' /\ EisenInv'
<1> SUFFICES ASSUME VersieInv, SerieelInv, GeladenHeeftHuidig, EisenInv, [Next]_vars
             PROVE  GeladenHeeftHuidig' /\ EisenInv'
  OBVIOUS
<1> USE DEF VersieInv, GeladenHeeftHuidig
<1>1. ASSUME tabel' = tabel, ~samenloop' => ~samenloop,
             \A r \in Verzoeken :
               pc'[r] \in Open \ {"gelezen"} =>
                 /\ pc[r] \in Open \ {"gelezen"} \/ huidig[r] = Geen
                 /\ eisgelezen'[r] = eisgelezen[r]
                 /\ huidig'[r] = huidig[r]
      PROVE  EisenInv'
  <2>1. Rijen' = Rijen /\ Vastgestelde' = Vastgestelde
    BY <1>1 DEF Vastgestelde, Rijen
  <2> QED BY <1>1, <2>1 DEF EisenInv, EisenBewaard
<1>2. ASSUME NEW r \in Verzoeken,
             WijsAf(r) \/ LeesHuidig(r) \/ MarkeerVervangen(r) \/ NeemVersie(r)
               \/ DraaiTerug(r) \/ Publiceer(r) \/ PubliceerMislukt(r)
      PROVE  GeladenHeeftHuidig' /\ EisenInv'
  <2>1. GeladenHeeftHuidig'
    BY <1>2 DEF WijsAf, LeesHuidig, MarkeerVervangen, NeemVersie, DraaiTerug, Publiceer,
                PubliceerMislukt, TypeOK
  <2>2. EisenInv'
    BY <1>2, <1>1 DEF WijsAf, LeesHuidig, MarkeerVervangen, NeemVersie, DraaiTerug, Publiceer,
                      PubliceerMislukt, TypeOK, Open
  <2> QED BY <2>1, <2>2
<1>3. ASSUME NEW r \in Verzoeken, LeesEisen(r) PROVE GeladenHeeftHuidig' /\ EisenInv'
  <2>1. GeladenHeeftHuidig'
    BY <1>3 DEF LeesEisen, TypeOK
  <2>2. Rijen' = Rijen /\ Vastgestelde' = Vastgestelde
    BY <1>3 DEF LeesEisen, Vastgestelde, Rijen
  <2>3. eisgelezen'[r] = eisrijen[huidig[r]]
    BY <1>3 DEF LeesEisen, TypeOK
  <2>4. \A q \in Verzoeken \ {r} : pc'[q] = pc[q] /\ eisgelezen'[q] = eisgelezen[q]
    BY <1>3 DEF LeesEisen, TypeOK
  <2> QED BY <1>3, <2>1, <2>2, <2>3, <2>4 DEF LeesEisen, EisenInv, EisenBewaard
<1>4. ASSUME NEW r \in Verzoeken, Commit(r) PROVE GeladenHeeftHuidig' /\ EisenInv'
  <2>1. GeladenHeeftHuidig'
    BY <1>4 DEF Commit, TypeOK
  <2> QED BY <1>4, <2>1, EisenCommit
<1>5. CASE RegistreerKunstwerk \/ UNCHANGED vars
  BY <1>5, <1>1 DEF RegistreerKunstwerk, vars
<1> QED
  BY <1>2, <1>3, <1>4, <1>5 DEF Next, Stap

\* Rewriting the eis rows of a replaced pakket never loses them and never touches a
\* pakket in force, and in sequence it leaves one copy.
THEOREM EisenBlijvenBewaard == Spec => []EisenBewaard
<1>1. EisenInv => EisenBewaard
  BY DEF EisenInv
<1>2. Init => VersieInv /\ SerieelInv /\ GeladenHeeftHuidig /\ EisenInv
  BY VersieInit, SerieelInit, EisenInit DEF Init, GeladenHeeftHuidig
<1>3. VersieInv /\ SerieelInv /\ GeladenHeeftHuidig /\ EisenInv /\ [Next]_vars
        => (VersieInv /\ SerieelInv /\ GeladenHeeftHuidig /\ EisenInv)'
  BY VersieStap, SerieelStap, EisenStap
<1> QED BY <1>1, <1>2, <1>3, PTL DEF Spec
=============================================================================
