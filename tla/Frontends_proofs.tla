--------------------------- MODULE Frontends_proofs ---------------------------
(***************************************************************************)
(* Proofs about the frontends, for any number of tokens, contexts, rows,   *)
(* overlapping reads, versions and writes, and for any number of demo      *)
(* steps at a time, repeated requests and disturbances.  Each part of      *)
(* Frontends has an invariant of its own, which the steps of the other     *)
(* parts leave alone: PortaalInv, PaginaInv, VerversInv, and for the demo  *)
(* route RouteInv with Rust.                                               *)
(***************************************************************************)
EXTENDS Frontends, FiniteSetTheorems, TLAPS

-----------------------------------------------------------------------------
(* Portaal.  SchrijfMetRol is not inductive: that the two copies of the    *)
(* session agree depends on what has been read from localStorage while the *)
(* page loads, and the fate of a write on what it was sent with.           *)

\* The tokens that have expired were issued.
VerlopenUitgegeven == verlopen \subseteq 1 .. uitgegeven

\* While the page loads nobody is signed in on the screen, and no renewal has failed.
LaadtNog == laadstap # "klaar" => gebruiker = Niemand /\ ~vernieuwfout

\* Between the two reads the header carries what the first one found, unless it had expired.
EersteLezing ==
  laadstap = "provider" =>
    \/ huidigToken = geladen
    \/ huidigToken = GeenToken /\ geladen.nr \in verlopen

\* A failed renewal leaves no token.
FoutZonderToken == vernieuwfout => huidigToken = GeenToken

\* A write that is under way was offered for a role of its token, if it has one.
VerzoekMetRol ==
  \A v \in verzoeken : v.gespleten \/ v.token = GeenToken \/ v.context \in v.token.rollen

PortaalInv ==
  /\ PortaalTypeOK
  /\ VerlopenUitgegeven
  /\ LaadtNog
  /\ EersteLezing
  /\ FoutZonderToken
  /\ VerzoekMetRol
  /\ SchrijfMetRol

\* What a token can be, without its fields.
LEMMA Tokens ==
  /\ GeenToken \in MogelijkToken /\ Token \subseteq MogelijkToken
  /\ GeenToken.nr = 0
  /\ Niemand \notin Rollen
  /\ \A t \in MogelijkToken : t.rollen \in Rollen /\ t.rollen # Niemand
BY PortaalAanname DEF Niemand, GeenToken, MogelijkToken, Token, Rollen

\* What the two listeners make of a token.
LEMMA Opgepikt ==
  ASSUME NEW t \in MogelijkToken
  PROVE  /\ onthoudToken(t) \in MogelijkToken /\ onthoudToken(t) \in {t, GeenToken}
         /\ uitToken(t) \in Rollen \cup {Niemand}
         /\ uitToken(t) # Niemand => onthoudToken(t) = t /\ t # GeenToken /\ uitToken(t) = t.rollen
         /\ onthoudToken(t) # t => t.nr \in verlopen
         /\ onthoudToken(t) # GeenToken => uitToken(t) # Niemand
BY Tokens DEF onthoudToken, uitToken, Geldig

LEMMA PortaalBegin == PortaalInit => PortaalInv
<1> SUFFICES ASSUME PortaalInit PROVE PortaalInv
  OBVIOUS
<1> USE DEF PortaalInit
<1>1. account \in Rollen \cup {Niemand} /\ gebruiker \in Rollen \cup {Niemand}
  OBVIOUS
<1>2. uitgegeven \in 0 .. MaxTokens /\ verlopen \subseteq 1 .. MaxTokens /\ verzoeken \subseteq Verzoek
  BY PortaalAanname
<1>3. PortaalTypeOK
  BY <1>1, <1>2, Tokens DEF PortaalTypeOK
<1>4. VerlopenUitgegeven /\ LaadtNog /\ EersteLezing /\ FoutZonderToken /\ VerzoekMetRol
  BY DEF VerlopenUitgegeven, LaadtNog, EersteLezing, FoutZonderToken, VerzoekMetRol
<1>5. SchrijfMetRol
  BY DEF SchrijfMetRol
<1> QED BY <1>3, <1>4, <1>5 DEF PortaalInv

\* The loading of a page, and the new token that both listeners take.
LEMMA LadenHoudt ==
  ASSUME PortaalInv, NEW s \in {"app", "login", "keycloak", "callback", "fout"}, Laden(s),
         account' \in Rollen \cup {Niemand}, opslag' \in MogelijkToken,
         UNCHANGED <<uitgegeven, verlopen, verzoeken>>
  PROVE  PortaalInv'
<1> USE DEF Laden, PortaalInv
<1>1. PortaalTypeOK'
  BY Tokens DEF PortaalTypeOK
<1>2. VerlopenUitgegeven' /\ LaadtNog' /\ EersteLezing' /\ FoutZonderToken' /\ VerzoekMetRol'
  BY DEF VerlopenUitgegeven, LaadtNog, EersteLezing, FoutZonderToken, VerzoekMetRol
<1>3. SchrijfMetRol'
  BY DEF SchrijfMetRol
<1> QED BY <1>1, <1>2, <1>3

LEMMA UitgifteIsGeldig ==
  ASSUME PortaalInv, GeeftUit
  PROVE  /\ Uitgifte \in Token /\ Uitgifte # GeenToken /\ account \in Rollen
         /\ onthoudToken(Uitgifte) = Uitgifte
         /\ uitToken(Uitgifte) = account /\ Uitgifte.rollen = account
<1>1. account \in Rollen /\ uitgegeven \in 0 .. MaxTokens /\ uitgegeven < MaxTokens
  BY DEF PortaalInv, PortaalTypeOK, GeeftUit
<1>2. uitgegeven + 1 \in 1 .. MaxTokens /\ uitgegeven + 1 # 0 /\ uitgegeven + 1 \notin verlopen
  BY <1>1, PortaalAanname DEF PortaalInv, VerlopenUitgegeven
<1>3. Uitgifte \in Token /\ Uitgifte.nr = uitgegeven + 1 /\ Uitgifte.rollen = account
  BY <1>1, <1>2 DEF Uitgifte, Token
<1>4. Uitgifte # GeenToken
  BY <1>2, <1>3, Tokens
<1> QED BY <1>1, <1>2, <1>3, <1>4 DEF Geldig, uitToken, onthoudToken

LEMMA UserLoadedHoudt ==
  ASSUME PortaalInv, GeeftUit, UserLoaded(Uitgifte), laadstap = "klaar",
         scherm' \in {"app", "login", "keycloak", "callback", "fout"},
         UNCHANGED <<account, verlopen, laadstap, verzoeken>>
  PROVE  PortaalInv'
<1>1. /\ opslag' = Uitgifte /\ geladen' = Uitgifte /\ huidigToken' = Uitgifte /\ gebruiker' = account
      /\ vernieuwfout' = FALSE /\ gespleten' = FALSE
  BY UitgifteIsGeldig DEF UserLoaded
<1>2. uitgegeven' = uitgegeven + 1 /\ uitgegeven' \in 0 .. MaxTokens
  BY PortaalAanname DEF GeeftUit, PortaalInv, PortaalTypeOK
<1>3. PortaalTypeOK'
  BY <1>1, <1>2, Tokens, UitgifteIsGeldig DEF PortaalInv, PortaalTypeOK
<1>4. VerlopenUitgegeven'
  BY <1>2 DEF PortaalInv, PortaalTypeOK, VerlopenUitgegeven
<1>5. LaadtNog' /\ EersteLezing' /\ FoutZonderToken' /\ VerzoekMetRol'
  BY <1>1 DEF PortaalInv, LaadtNog, EersteLezing, FoutZonderToken, VerzoekMetRol
<1>6. SchrijfMetRol'
  BY <1>1, UitgifteIsGeldig, Tokens DEF PortaalInv, SchrijfMetRol
<1> QED BY <1>3, <1>4, <1>5, <1>6 DEF PortaalInv

\* The rest of the state after a step that leaves the session and the writes alone.
LEMMA OmgevingHoudt ==
  ASSUME PortaalInv, UNCHANGED <<sessie, verzoeken>>, PortaalTypeOK', VerlopenUitgegeven',
         verlopen \subseteq verlopen'
  PROVE  PortaalInv'
BY DEF sessie, PortaalInv, LaadtNog, EersteLezing, FoutZonderToken, VerzoekMetRol, SchrijfMetRol

LEMMA PortaalStap ==
  ASSUME PortaalInv, [PortaalNext]_portaalVars
  PROVE  PortaalInv'
<1> USE DEF PortaalInv, omgeving, sessie
<1>1. CASE UNCHANGED portaalVars
  BY <1>1 DEF portaalVars, PortaalTypeOK, VerlopenUitgegeven, LaadtNog, EersteLezing,
              FoutZonderToken, VerzoekMetRol, SchrijfMetRol
<1>2. CASE HerlaadTab
  BY <1>2, LadenHoudt DEF HerlaadTab, PortaalTypeOK
<1>3. CASE PikTokenOp
  <2>1. PortaalTypeOK' /\ VerlopenUitgegeven'
    BY <1>3, Opgepikt DEF PikTokenOp, PortaalTypeOK, VerlopenUitgegeven
  <2>2. LaadtNog' /\ EersteLezing' /\ FoutZonderToken' /\ VerzoekMetRol'
    BY <1>3, Opgepikt DEF PikTokenOp, PortaalTypeOK, LaadtNog, EersteLezing, FoutZonderToken, VerzoekMetRol
  <2>3. SchrijfMetRol'
    BY <1>3 DEF PikTokenOp, LaadtNog, SchrijfMetRol
  <2> QED BY <2>1, <2>2, <2>3
<1>4. CASE PikGebruikerOp
  <2>1. PortaalTypeOK' /\ VerlopenUitgegeven'
    BY <1>4, Opgepikt DEF PikGebruikerOp, Route, PortaalTypeOK, VerlopenUitgegeven
  <2>2. LaadtNog' /\ EersteLezing' /\ FoutZonderToken' /\ VerzoekMetRol'
    BY <1>4 DEF PikGebruikerOp, LaadtNog, EersteLezing, FoutZonderToken, VerzoekMetRol
  <2>3. gespleten' \/ geladen = opslag
    BY <1>4 DEF PikGebruikerOp
  <2>4. gespleten' \/ (gebruiker' # Niemand => huidigToken' = opslag /\ opslag # GeenToken /\ gebruiker' = opslag.rollen)
    BY <1>4, <2>3, Opgepikt, Tokens DEF PikGebruikerOp, EersteLezing, PortaalTypeOK, uitToken, Geldig
  <2>5. gespleten' \/ (gebruiker' = Niemand /\ huidigToken' # GeenToken => huidigToken'.nr \in verlopen')
    BY <1>4, <2>3, Opgepikt, Tokens DEF PikGebruikerOp, EersteLezing, PortaalTypeOK, uitToken, Geldig
  <2>6. SchrijfMetRol'
    BY <1>4, <2>4, <2>5 DEF PikGebruikerOp, SchrijfMetRol
  <2> QED BY <2>1, <2>2, <2>6
<1>5. CASE login \/ AuthCallbackMislukt
  <2>1. /\ scherm' \in {"keycloak", "fout"}
        /\ UNCHANGED <<omgeving, huidigToken, gebruiker, laadstap, geladen, verzoeken, vernieuwfout, gespleten>>
    BY <1>5 DEF login, AuthCallbackMislukt
  <2>2. PortaalTypeOK'
    BY <2>1 DEF PortaalTypeOK
  <2>3. VerlopenUitgegeven' /\ LaadtNog' /\ EersteLezing' /\ FoutZonderToken' /\ VerzoekMetRol' /\ SchrijfMetRol'
    BY <2>1 DEF VerlopenUitgegeven, LaadtNog, EersteLezing, FoutZonderToken, VerzoekMetRol, SchrijfMetRol
  <2> QED BY <2>2, <2>3
<1>6. CASE TerugNaarInloggen
  <2>1. PortaalTypeOK'
    BY <1>6 DEF TerugNaarInloggen, Route, PortaalTypeOK
  <2>2. VerlopenUitgegeven' /\ LaadtNog' /\ EersteLezing' /\ FoutZonderToken' /\ VerzoekMetRol' /\ SchrijfMetRol'
    BY <1>6 DEF TerugNaarInloggen, VerlopenUitgegeven, LaadtNog, EersteLezing, FoutZonderToken,
                VerzoekMetRol, SchrijfMetRol
  <2> QED BY <2>1, <2>2
<1>7. ASSUME NEW r \in Rollen, KeycloakTerug(r) PROVE PortaalInv'
  BY <1>7, LadenHoudt DEF KeycloakTerug, PortaalTypeOK
<1>8. CASE AuthCallback
  BY <1>8, UserLoadedHoudt DEF AuthCallback
<1>9. CASE logout
  BY <1>9, LadenHoudt, Tokens DEF logout, PortaalTypeOK
<1>10. CASE Vernieuw
  BY <1>10, UserLoadedHoudt DEF Vernieuw, Route, PortaalTypeOK
<1>11. CASE VernieuwFout
  BY <1>11, Tokens DEF VernieuwFout, PortaalTypeOK, VerlopenUitgegeven, LaadtNog, EersteLezing,
               FoutZonderToken, VerzoekMetRol, SchrijfMetRol
<1>12. ASSUME NEW nr \in 1 .. MaxTokens, Verloopt(nr) PROVE PortaalInv'
  BY <1>12, OmgevingHoudt DEF Verloopt, PortaalTypeOK, VerlopenUitgegeven
<1>13. CASE AccessTokenExpired
  <2>1. PortaalTypeOK' /\ VerlopenUitgegeven'
    BY <1>13, Tokens DEF AccessTokenExpired, Route, PortaalTypeOK, VerlopenUitgegeven
  <2>2. LaadtNog' /\ EersteLezing' /\ FoutZonderToken' /\ VerzoekMetRol' /\ SchrijfMetRol'
    BY <1>13 DEF AccessTokenExpired, LaadtNog, EersteLezing, FoutZonderToken, VerzoekMetRol, SchrijfMetRol
  <2> QED BY <2>1, <2>2
<1>14. CASE AnderTabToken
  <2>1. PortaalTypeOK' /\ VerlopenUitgegeven'
    <3>1. opslag' \in MogelijkToken
      BY <1>14, UitgifteIsGeldig, Tokens DEF AnderTabToken
    <3>2. uitgegeven' = uitgegeven + 1 /\ uitgegeven' \in 0 .. MaxTokens
      BY <1>14, PortaalAanname DEF AnderTabToken, GeeftUit, PortaalTypeOK
    <3>3. PortaalTypeOK'
      BY <1>14, <3>1, <3>2 DEF AnderTabToken, PortaalTypeOK
    <3>4. VerlopenUitgegeven'
      BY <1>14, <3>2 DEF AnderTabToken, PortaalTypeOK, VerlopenUitgegeven
    <3> QED BY <3>3, <3>4
  <2> QED BY <1>14, <2>1, OmgevingHoudt DEF AnderTabToken
<1>15. CASE AnderTabLogout
  BY <1>15, OmgevingHoudt, Tokens DEF AnderTabLogout, PortaalTypeOK, VerlopenUitgegeven
<1>16. ASSUME NEW r \in Rollen, RollenGewijzigd(r) PROVE PortaalInv'
  BY <1>16, OmgevingHoudt DEF RollenGewijzigd, PortaalTypeOK, VerlopenUitgegeven
<1>17. ASSUME NEW c \in Contexten, Schrijf(c) PROVE PortaalInv'
  <2> DEFINE v == [context |-> c, token |-> huidigToken, zonder |-> vernieuwfout,
                   gespleten |-> gespleten, uitslag |-> "onderweg"]
  <2>1. v \in Verzoek
    BY DEF PortaalTypeOK, Verzoek
  <2>2. verzoeken' = {v} /\ UNCHANGED <<omgeving, sessie>>
    BY <1>17 DEF Schrijf
  <2>3. gespleten \/ huidigToken = GeenToken \/ c \in huidigToken.rollen
    BY <1>17 DEF Schrijf, useKanBewerken, SchrijfMetRol, FoutZonderToken
  <2>4. huidigToken = GeenToken => vernieuwfout \/ gespleten
    BY <1>17 DEF Schrijf, useKanBewerken, SchrijfMetRol
  <2>5. PortaalTypeOK' /\ VerlopenUitgegeven' /\ LaadtNog' /\ EersteLezing' /\ FoutZonderToken'
    BY <2>1, <2>2 DEF PortaalTypeOK, VerlopenUitgegeven, LaadtNog, EersteLezing, FoutZonderToken
  <2>6. VerzoekMetRol' /\ SchrijfMetRol'
    BY <2>2, <2>3, <2>4 DEF VerzoekMetRol, SchrijfMetRol
  <2> QED BY <2>5, <2>6
<1>18. ASSUME NEW v \in verzoeken, Bewaak(v) PROVE PortaalInv'
  <2> DEFINE w == [v EXCEPT !.uitslag = Oordeel(v)]
  <2>1. verzoeken' = {w} /\ UNCHANGED <<omgeving, sessie>>
    BY <1>18 DEF Bewaak
  <2>2. w \in Verzoek /\ w.context = v.context /\ w.token = v.token /\ w.gespleten = v.gespleten
        /\ w.zonder = v.zonder /\ w.uitslag = Oordeel(v)
    BY DEF PortaalTypeOK, Verzoek, Oordeel
  <2>3. w.uitslag = "403" => w.gespleten
    BY <2>2 DEF Oordeel, Geldig, VerzoekMetRol
  <2> HIDE DEF w
  <2>4. PortaalTypeOK' /\ VerlopenUitgegeven' /\ LaadtNog' /\ EersteLezing' /\ FoutZonderToken'
    BY <2>1, <2>2 DEF PortaalTypeOK, VerlopenUitgegeven, LaadtNog, EersteLezing, FoutZonderToken
  <2>5. VerzoekMetRol' /\ SchrijfMetRol'
    BY <2>1, <2>2, <2>3 DEF VerzoekMetRol, SchrijfMetRol
  <2> QED BY <2>4, <2>5
<1>19. ASSUME NEW v \in verzoeken, ToonUitslag(v) PROVE PortaalInv'
  BY <1>19 DEF ToonUitslag, PortaalTypeOK, VerlopenUitgegeven, LaadtNog, EersteLezing,
               FoutZonderToken, VerzoekMetRol, SchrijfMetRol
<1> QED
  BY <1>1, <1>2, <1>3, <1>4, <1>5, <1>6, <1>7, <1>8, <1>9, <1>10, <1>11, <1>12, <1>13, <1>14, <1>15,
     <1>16, <1>17, <1>18, <1>19 DEF PortaalNext

-----------------------------------------------------------------------------
(* Portaalpaginas.  That a page does not fall back needs versions:         *)
(* whatever it holds is a copy of some version of the object, and the      *)
(* newest of these is the object itself.                                   *)

\* The statuses an object of each soort goes through.
Stadia ==
  [traject |-> {"Gepland", "Gestart", "Afgerond"}, sessie |-> {"Actief", "Gepauzeerd", "Afgerond"},
   incident |-> {"Nieuw", "InBehandeling", "Opgelost"}, aanbesteding |-> {"Gepubliceerd", "Gegund"},
   contract |-> {"Actief", "Afgerond"}, kunstwerk |-> {"InGebruik", "BuitenGebruik"}]

\* k is no object yet, or object o as it was at some version.
KopieVan(k, o) ==
  k = GeenObject \/ (/\ k \in Object /\ k.status \in Stadia[soort]
                     /\ k.versie <= o.versie
                     /\ k.versie = o.versie => k = o)

\* A write under way: what it was offered for, and for a refused one the object it met.
MutatieKlopt(m) ==
  /\ KopieVan(m.basis, object) /\ m.versie <= object.versie
  /\ m.actie \in Acties[soort]
  /\ m.basis # GeenObject => m.actie \in Aanbod(m.basis)
  /\ m.fase = "geweigerd" => m.versie > m.basis.versie \/ Onbewaakt(m.actie, m.basis)

\* The reads against the writes that were acknowledged.
LezingKlopt ==
  /\ lezing.fase = "gelezen" => lezing.object # GeenObject
  /\ lezing.fase = "gelezen" /\ ~doorgelopen => lezing.object.versie >= eigen
  /\ zichtbaar /\ lezing = GeenLezing /\ ~leesfout /\ ~doorgelopen => kopie.versie >= eigen
  /\ eigen <= object.versie

PaginaInv ==
  /\ PaginaTypeOK
  /\ object.status \in Stadia[soort]
  /\ KopieVan(kopie, object) /\ KopieVan(lezing.object, object)
  /\ LezingKlopt
  /\ \A m \in mutaties : MutatieKlopt(m)

\* What a page offers and the service refuses, for the same object, is listed in Onbewaakt.
LEMMA AanbodKlopt ==
  ASSUME soort \in Soorten, NEW k \in Object, k.status \in Stadia[soort],
         NEW a \in Aanbod(k), ~Onbewaakt(a, k)
  PROVE  Aanvaardt(a, k)
<1> USE DEF Aanbod, Onbewaakt, Aanvaardt, TrajectAanvaardt, ContractAanvaardt, MonitoringAanvaardt,
            BeheerAanvaardt, Stadia, Acties, Soorten, Beginstatus
<1>1. CASE soort = "traject"
  BY <1>1 DEF TrajectAanbod
<1>2. CASE soort = "sessie"
  BY <1>2 DEF SessieAanbod
<1>3. CASE soort = "incident"
  BY <1>3 DEF IncidentAanbod
<1>4. CASE soort = "aanbesteding"
  BY <1>4 DEF AanbestedingAanbod
<1>5. CASE soort = "contract"
  BY <1>5 DEF ContractAanbod
<1>6. CASE soort = "kunstwerk"
  BY <1>6 DEF KunstwerkAanbod
<1> QED BY <1>1, <1>2, <1>3, <1>4, <1>5, <1>6

\* An action leads from one status of the soort to another.
LEMMA NaKlopt ==
  ASSUME soort \in Soorten, object \in Object, object.status \in Stadia[soort],
         object.versie < MaxVersies, NEW a \in Acties[soort]
  PROVE  /\ Na(a, object) \in Object /\ Na(a, object).status \in Stadia[soort]
         /\ Na(a, object).versie = object.versie + 1
<1>1. Na(a, object).status \in Stadia[soort]
  BY DEF Na, Wordt, Stadia, Acties, Soorten, Beginstatus
<1>2. Stadia[soort] \subseteq Statussen
  BY DEF Stadia, Soorten, Beginstatus, Statussen
<1>3. Na(a, object).versie = object.versie + 1 /\ Na(a, object).versie \in 1 .. MaxVersies
  BY PaginaAanname DEF Na, Object
<1>4. Na(a, object).bij \in SUBSET Bijlagen
  BY DEF Na, Object
<1> QED BY <1>1, <1>2, <1>3, <1>4 DEF Na, Object

LEMMA PaginaBegin == PaginaInit => PaginaInv
<1> SUFFICES ASSUME PaginaInit PROVE PaginaInv
  OBVIOUS
<1>1. /\ soort \in Soorten /\ kopie = GeenObject /\ lezing = NieuweLezing /\ mutaties = {} /\ eigen = 0
      /\ leesfout = FALSE /\ zichtbaar = TRUE /\ doorgelopen = FALSE
  BY DEF PaginaInit
<1>2. object.status \in Stadia[soort] /\ object.status \in Statussen /\ object.versie = 1
  BY DEF PaginaInit, HalverwegeTraject, Stadia, Soorten, Beginstatus, Statussen
<1>3. object \in Object
  <2>1. CASE object = HalverwegeTraject
    BY <2>1, <1>2, PaginaAanname DEF HalverwegeTraject, Object, Bijlagen
  <2>2. CASE object # HalverwegeTraject
    <3>1. PICK f \in SUBSET Feiten[soort] : object = [status |-> Beginstatus[soort], bij |-> f, versie |-> 1]
      BY <2>2 DEF PaginaInit
    <3>2. Feiten[soort] \subseteq Bijlagen
      BY <1>1 DEF Feiten, Bijlagen, Soorten, Beginstatus
    <3> QED BY <1>2, <3>1, <3>2, PaginaAanname DEF Object
  <2> QED BY <2>1, <2>2
<1>4. lezing \in [fase : {"geen", "begonnen", "gelezen"}, object : Object \cup {GeenObject}]
  BY <1>1 DEF NieuweLezing
<1>5. eigen \in 0 .. MaxVersies
  BY <1>1, PaginaAanname
<1>6. PaginaTypeOK
  BY <1>1, <1>3, <1>4, <1>5 DEF PaginaTypeOK
<1>7. LezingKlopt
  BY <1>1, <1>2 DEF LezingKlopt, NieuweLezing, GeenLezing
<1> QED BY <1>1, <1>2, <1>6, <1>7 DEF PaginaInv, KopieVan, NieuweLezing

\* What held of a copy still does when the object gets a next version.
LEMMA KopieBlijft ==
  ASSUME object \in Object, NEW o \in Object, o = object \/ o.versie = object.versie + 1,
         NEW k, KopieVan(k, object)
  PROVE  KopieVan(k, o)
BY DEF KopieVan, Object

\* A step of the page or the service keeps the three lines that are about the object.
LEMMA ObjectHoudt ==
  ASSUME PaginaInv, soort' = soort, object' \in Object, object'.status \in Stadia[soort],
         object' = object \/ object'.versie = object.versie + 1
  PROVE  /\ KopieVan(kopie, object') /\ KopieVan(lezing.object, object')
         /\ \A m \in mutaties : MutatieKlopt(m)'
<1>1. object \in Object /\ KopieVan(kopie, object) /\ KopieVan(lezing.object, object)
  BY DEF PaginaInv, PaginaTypeOK
<1>2. ASSUME NEW m \in mutaties PROVE MutatieKlopt(m)'
  <2>1. MutatieKlopt(m) /\ m.versie \in Nat
    BY DEF PaginaInv, PaginaTypeOK
  <2>2. KopieVan(m.basis, object')
    BY <1>1, <2>1, KopieBlijft DEF MutatieKlopt
  <2>3. KopieVan(m.basis, object)'
    BY <2>2 DEF KopieVan
  <2>4. m.versie <= object'.versie
    BY <1>1, <2>1 DEF MutatieKlopt, Object
  <2>5. Aanbod(m.basis)' = Aanbod(m.basis)
    BY DEF Aanbod, TrajectAanbod, SessieAanbod, IncidentAanbod, AanbestedingAanbod, ContractAanbod,
           KunstwerkAanbod
  <2> QED BY <2>1, <2>3, <2>4, <2>5 DEF MutatieKlopt, Onbewaakt
<1> QED BY <1>1, <1>2, KopieBlijft

LEMMA PaginaStap == PaginaInv /\ [PaginaNext]_paginaVars => PaginaInv'
<1> SUFFICES ASSUME PaginaInv, [PaginaNext]_paginaVars PROVE PaginaInv'
  OBVIOUS
<1> DEFINE Mutatie == [nr : 1..MaxMutaties, actie : AlleActies, basis : Object \cup {GeenObject},
                       fase : {"onderweg", "gedaan", "geweigerd"}, versie : 0..MaxVersies, knop : BOOLEAN]
<1> DEFINE TypeRest ==
      /\ soort \in Soorten /\ object \in Object /\ kopie \in Object \cup {GeenObject}
      /\ leesfout \in BOOLEAN /\ zichtbaar \in BOOLEAN /\ doorgelopen \in BOOLEAN /\ eigen \in 0..MaxVersies
      /\ lezing \in [fase : {"geen", "begonnen", "gelezen"}, object : Object \cup {GeenObject}]
<1> DEFINE TypeMutaties == mutaties \subseteq Mutatie /\ \A m, n \in mutaties : m.nr = n.nr => m = n
<1> DEFINE Blijven ==
      \A n \in mutaties' : \E m \in mutaties :
        n.nr = m.nr /\ n.actie = m.actie /\ n.basis = m.basis /\ n.fase = m.fase /\ n.versie = m.versie
<1>1. TypeRest /\ TypeMutaties /\ object.versie \in Nat
  BY DEF PaginaInv, PaginaTypeOK, Object
<1>2. ASSUME soort' = soort, object' = object, TypeMutaties', Blijven, TypeRest',
             KopieVan(kopie', object), KopieVan(lezing'.object, object), LezingKlopt'
      PROVE  PaginaInv'
  <2>1. ASSUME NEW n \in mutaties' PROVE MutatieKlopt(n)'
    <3>1. PICK m \in mutaties : n.actie = m.actie /\ n.basis = m.basis /\ n.fase = m.fase /\ n.versie = m.versie
      BY <1>2
    <3>2. MutatieKlopt(m)'
      BY <1>1, <1>2, ObjectHoudt DEF PaginaInv
    <3> QED BY <3>1, <3>2 DEF MutatieKlopt
  <2>2. KopieVan(kopie, object)' /\ KopieVan(lezing.object, object)'
    BY <1>2 DEF KopieVan
  <2>3. PaginaTypeOK'
    BY <1>2 DEF PaginaTypeOK
  <2> QED BY <1>2, <2>1, <2>2, <2>3 DEF PaginaInv
<1>3. ASSUME mutaties' = mutaties PROVE TypeMutaties' /\ Blijven
  BY <1>1, <1>3
<1>4. CASE UNCHANGED paginaVars
  <2> USE <1>4 DEF paginaVars
  <2>1. LezingKlopt'
    BY DEF LezingKlopt, PaginaInv
  <2> QED BY <1>1, <1>2, <1>3, <2>1 DEF PaginaInv
<1>5. CASE Ververs \/ AnderObjectKlaar \/ Terug
  <2>1. /\ UNCHANGED <<soort, object, kopie, mutaties, eigen>>
        /\ lezing' = NieuweLezing \/ (lezing' = lezing /\ lezing # GeenLezing /\ doorgelopen' = doorgelopen)
        /\ leesfout' = (leesfout /\ (lezing' = lezing \/ kopie # GeenObject))
        /\ doorgelopen' \in BOOLEAN /\ zichtbaar' \in BOOLEAN
    <3>1. CASE Ververs
      BY <1>1, <3>1 DEF Ververs, Herlees, server, schrijf
    <3>2. CASE AnderObjectKlaar
      BY <1>1, <3>2 DEF AnderObjectKlaar, Herlees, klaar, server, schrijf
    <3>3. CASE Terug
      BY <1>1, <3>3 DEF Terug, Herlees, server, schrijf
    <3> QED BY <1>5, <3>1, <3>2, <3>3
  <2>2. TypeRest' /\ KopieVan(lezing'.object, object)
    BY <1>1, <2>1 DEF NieuweLezing, KopieVan, PaginaInv
  <2>3. LezingKlopt'
    BY <2>1 DEF LezingKlopt, PaginaInv, NieuweLezing, GeenLezing
  <2> QED BY <1>2, <1>3, <2>1, <2>2, <2>3 DEF PaginaInv
<1>6. CASE LeesObject
  <2> USE <1>6 DEF LeesObject, server, schrijf
  <2>1. object # GeenObject /\ KopieVan(object, object)
    BY <1>1 DEF PaginaInv, KopieVan, Object, GeenObject
  <2>2. LezingKlopt'
    BY <2>1, <1>1 DEF LezingKlopt, PaginaInv, GeenLezing
  <2>3. TypeRest' /\ lezing'.object = object
    BY <1>1
  <2> QED BY <1>2, <1>3, <2>1, <2>2, <2>3 DEF PaginaInv
<1>7. CASE ToonObject
  <2> USE <1>7 DEF ToonObject, server, schrijf
  <2>1. KopieVan(kopie', object) /\ KopieVan(lezing'.object, object)
    BY DEF PaginaInv, GeenLezing, KopieVan
  <2>2. LezingKlopt'
    BY <1>1 DEF LezingKlopt, PaginaInv, GeenLezing
  <2>3. TypeRest'
    BY <1>1 DEF GeenLezing
  <2> QED BY <1>2, <1>3, <2>1, <2>2, <2>3
<1>16. CASE LezenMislukt \/ Vergeet
  <2>1. /\ lezing' = GeenLezing /\ UNCHANGED <<soort, object, zichtbaar, mutaties, eigen, doorgelopen>>
        /\ \/ leesfout' = TRUE /\ kopie' = kopie
           \/ leesfout' = FALSE /\ kopie' = GeenObject /\ ~zichtbaar
    <3>1. CASE LezenMislukt
      BY <3>1 DEF LezenMislukt, server, schrijf
    <3>2. CASE Vergeet
      BY <3>2 DEF Vergeet, server, schrijf
    <3> QED BY <1>16, <3>1, <3>2
  <2>2. LezingKlopt'
    BY <2>1 DEF LezingKlopt, PaginaInv, GeenLezing
  <2>3. TypeRest'
    BY <1>1, <2>1 DEF GeenLezing
  <2>4. KopieVan(lezing'.object, object) /\ KopieVan(kopie', object)
    BY <2>1 DEF GeenLezing, KopieVan, PaginaInv
  <2> QED BY <1>2, <1>3, <2>1, <2>2, <2>3, <2>4
<1>17. ASSUME UNCHANGED <<soort, object, kopie, leesfout, lezing, eigen, doorgelopen>>,
              zichtbaar' \in BOOLEAN, zichtbaar' => zichtbaar,
              mutaties' = mutaties \/ \E a \in AlleActies, b \in BOOLEAN :
                mutaties' = {[m EXCEPT !.knop = b /\ @ /\ m.actie # a] : m \in mutaties}
       PROVE  PaginaInv'
  <2>1. TypeMutaties' /\ Blijven
    <3>1. CASE mutaties' = mutaties
      BY <1>3, <3>1
    <3>2. ASSUME NEW a \in AlleActies, NEW b \in BOOLEAN,
                 mutaties' = {[m EXCEPT !.knop = b /\ @ /\ m.actie # a] : m \in mutaties}
          PROVE  TypeMutaties' /\ Blijven
      <4> DEFINE z(m) == [m EXCEPT !.knop = b /\ @ /\ m.actie # a]
      <4>1. ASSUME NEW m \in mutaties
            PROVE  /\ z(m) \in Mutatie /\ z(m).nr = m.nr /\ z(m).actie = m.actie /\ z(m).basis = m.basis
                   /\ z(m).fase = m.fase /\ z(m).versie = m.versie
        <5>1. m \in Mutatie
          BY <1>1
        <5>2. (b /\ m.knop /\ m.actie # a) \in BOOLEAN
          OBVIOUS
        <5> QED BY <5>1, <5>2
      <4> HIDE DEF z, Mutatie
      <4>2. mutaties' = {z(m) : m \in mutaties}
        BY <3>2 DEF z
      <4>3. mutaties' \subseteq Mutatie /\ Blijven
        BY <4>1, <4>2
      <4>4. ASSUME NEW m \in mutaties', NEW n \in mutaties', m.nr = n.nr PROVE m = n
        <5>1. PICK x \in mutaties : m = z(x)
          BY <4>2
        <5>2. PICK y \in mutaties : n = z(y)
          BY <4>2
        <5>3. x.nr = y.nr
          BY <4>1, <4>4, <5>1, <5>2
        <5> QED BY <1>1, <5>1, <5>2, <5>3
      <4> QED BY <4>3, <4>4
    <3> QED BY <1>17, <3>1, <3>2
  <2>2. TypeRest' /\ LezingKlopt'
    BY <1>1, <1>17 DEF PaginaInv, LezingKlopt
  <2> QED BY <1>2, <1>17, <2>1, <2>2 DEF PaginaInv
<1>18. CASE Weg
  <2>1. \E a \in AlleActies : TRUE
    BY DEF AlleActies, Acties, Soorten, Beginstatus
  <2>2. PICK a \in AlleActies : TRUE
    BY <2>1
  <2>3. \A m \in mutaties : [m EXCEPT !.knop = FALSE] = [m EXCEPT !.knop = FALSE /\ @ /\ m.actie # a]
    OBVIOUS
  <2>4. {[m EXCEPT !.knop = FALSE] : m \in mutaties} = {[m EXCEPT !.knop = FALSE /\ @ /\ m.actie # a] : m \in mutaties}
    BY <2>3
  <2> QED BY <1>17, <1>18, <2>2, <2>4 DEF Weg, server
<1>19. ASSUME NEW a \in AlleActies, KlikAndereRij(a) PROVE PaginaInv'
  <2>1. \A m \in mutaties : [m EXCEPT !.knop = @ /\ m.actie # a] = [m EXCEPT !.knop = TRUE /\ @ /\ m.actie # a]
    OBVIOUS
  <2>2. {[m EXCEPT !.knop = @ /\ m.actie # a] : m \in mutaties}
        = {[m EXCEPT !.knop = TRUE /\ @ /\ m.actie # a] : m \in mutaties}
    BY <2>1
  <2> QED BY <1>1, <1>17, <1>19, <2>2 DEF KlikAndereRij, server, bladzij
<1>8. ASSUME NEW o \in Object, object' = o, o.status \in Stadia[soort], o.versie = object.versie + 1,
             UNCHANGED <<soort, kopie, leesfout, lezing, zichtbaar, mutaties, eigen, doorgelopen>>
      PROVE  PaginaInv'
  <2>1. KopieVan(kopie, object)' /\ KopieVan(lezing.object, object)' /\ \A m \in mutaties : MutatieKlopt(m)'
    BY <1>8, ObjectHoudt DEF KopieVan
  <2>2. LezingKlopt'
    BY <1>1, <1>8 DEF LezingKlopt, PaginaInv
  <2>3. PaginaTypeOK'
    BY <1>8 DEF PaginaInv, PaginaTypeOK
  <2> QED BY <1>8, <2>1, <2>2, <2>3 DEF PaginaInv
<1>9. ASSUME NEW a \in AlleActies, Ander(a) PROVE PaginaInv'
  <2>1. object.versie < MaxVersies /\ a \in Acties[soort] /\ object' = Na(a, object)
        /\ UNCHANGED <<soort, kopie, leesfout, lezing, zichtbaar, mutaties, eigen, doorgelopen>>
    BY <1>9 DEF Ander, bladzij, schrijf
  <2>2. Na(a, object) \in Object /\ Na(a, object).status \in Stadia[soort]
        /\ Na(a, object).versie = object.versie + 1
    BY <1>1, <2>1, NaKlopt DEF PaginaInv
  <2> QED BY <1>8, <2>1, <2>2
<1>10. ASSUME NEW f \in Bijlagen, Event(f) PROVE PaginaInv'
  <2> DEFINE o == [object EXCEPT !.bij = IF f \in @ THEN @ \ {f} ELSE @ \cup {f}, !.versie = @ + 1]
  <2>1. object.versie < MaxVersies /\ object' = o /\ UNCHANGED <<soort, kopie, leesfout, lezing, zichtbaar, mutaties, eigen, doorgelopen>>
    BY <1>10 DEF Event, bladzij, schrijf
  <2>2. object.versie + 1 \in 1 .. MaxVersies
    BY <1>1, <2>1, PaginaAanname
  <2>3. (IF f \in object.bij THEN object.bij \ {f} ELSE object.bij \cup {f}) \in SUBSET Bijlagen
    BY <1>1 DEF Object
  <2>4. object \in [status : Statussen, bij : SUBSET Bijlagen, versie : 1..MaxVersies]
    BY <1>1 DEF Object
  <2>5. o \in Object /\ o.status = object.status /\ o.versie = object.versie + 1
    BY <2>2, <2>3, <2>4 DEF Object
  <2> HIDE DEF o
  <2> QED BY <1>8, <2>1, <2>5 DEF PaginaInv
<1>11. ASSUME NEW a \in AlleActies, KlikActie(a) PROVE PaginaInv'
  <2>1. PICK k \in 1..MaxMutaties :
          /\ {m.nr : m \in mutaties} \cap 1..k = 1..(k - 1)
          /\ mutaties' = mutaties \cup {[nr |-> k, actie |-> a, basis |-> kopie, fase |-> "onderweg",
                                         versie |-> 0, knop |-> TRUE]}
    BY <1>11 DEF KlikActie
  <2> DEFINE n == [nr |-> k, actie |-> a, basis |-> kopie, fase |-> "onderweg", versie |-> 0, knop |-> TRUE]
  <2>2. /\ a \in Aanbod(kopie)
        /\ UNCHANGED <<soort, object, kopie, leesfout, lezing, zichtbaar, eigen, doorgelopen>>
    BY <1>11 DEF KlikActie, server, bladzij
  <2>3. a \in Acties[soort]
    BY <1>1, <2>2 DEF Aanbod, TrajectAanbod, SessieAanbod, IncidentAanbod, AanbestedingAanbod, ContractAanbod,
                      KunstwerkAanbod, Soorten, Beginstatus
  <2>4. n \in Mutatie /\ n.nr = k
    BY <1>1, <1>11, PaginaAanname
  <2>5. MutatieKlopt(n)
    <3>1. n.basis = kopie /\ n.actie = a /\ n.versie = 0 /\ n.fase = "onderweg"
      OBVIOUS
    <3> HIDE DEF n
    <3> QED BY <1>1, <2>2, <2>3, <3>1 DEF MutatieKlopt, PaginaInv
  <2>6. mutaties' = mutaties \cup {n}
    BY <2>1
  <2> HIDE DEF n
  <2>7. TypeMutaties'
    <3>1. k \in Nat /\ \A m \in mutaties : m.nr # k
      <4>1. k \in Nat /\ k \in 1..k /\ k \notin 1..(k - 1)
        BY PaginaAanname
      <4> QED BY <2>1, <4>1
    <3> HIDE DEF Mutatie
    <3> QED BY <1>1, <2>4, <2>6, <3>1
  <2>8. \A m \in mutaties' : MutatieKlopt(m)
    BY <2>5, <2>6 DEF PaginaInv
  <2>9. ASSUME NEW m \in mutaties', MutatieKlopt(m) PROVE MutatieKlopt(m)'
    BY <2>2, <2>9 DEF MutatieKlopt, KopieVan, Onbewaakt, Aanbod, TrajectAanbod, SessieAanbod, IncidentAanbod,
                      AanbestedingAanbod, ContractAanbod, KunstwerkAanbod
  <2>10. PaginaTypeOK'
    BY <2>2, <2>7 DEF PaginaInv, PaginaTypeOK
  <2>11. LezingKlopt' /\ KopieVan(kopie, object)' /\ KopieVan(lezing.object, object)'
    BY <2>2 DEF PaginaInv, LezingKlopt, KopieVan
  <2>12. (object.status \in Stadia[soort])'
    BY <2>2 DEF PaginaInv
  <2> QED BY <2>8, <2>9, <2>10, <2>11, <2>12 DEF PaginaInv
<1>12. ASSUME NEW m \in mutaties, Verwerk(m) PROVE PaginaInv'
  <2>1. MutatieKlopt(m) /\ m.versie \in Nat /\ m.actie \in Acties[soort]
    BY DEF PaginaInv, PaginaTypeOK, MutatieKlopt
  <2>2. UNCHANGED <<soort, kopie, leesfout, lezing, zichtbaar, eigen, doorgelopen>>
    BY <1>12 DEF Verwerk, bladzij
  <2>3. PICK n : /\ mutaties' = (mutaties \ {m}) \cup {n}
                 /\ n \in Mutatie /\ n.nr = m.nr
                 /\ n.actie = m.actie /\ n.basis = m.basis /\ n.versie = object'.versie
                 /\ n.fase = "geweigerd" => object' = object /\ ~Aanvaardt(m.actie, object)
                 /\ object' \in Object /\ object'.status \in Stadia[soort]
                 /\ object' = object \/ object'.versie = object.versie + 1
    <3>1. m \in Mutatie
      BY <1>1
    <3>2. CASE Aanvaardt(m.actie, object)
      <4> DEFINE n == [m EXCEPT !.fase = "gedaan", !.versie = object.versie + 1]
      <4>1. object.versie < MaxVersies /\ object' = Na(m.actie, object)
            /\ mutaties' = (mutaties \ {m}) \cup {n}
        BY <1>12, <3>2 DEF Verwerk
      <4>2. object' \in Object /\ object'.status \in Stadia[soort] /\ object'.versie = object.versie + 1
        BY <1>1, <2>1, <4>1, NaKlopt DEF PaginaInv
      <4>3. n \in Mutatie /\ n.nr = m.nr
            /\ n.actie = m.actie /\ n.basis = m.basis /\ n.versie = object.versie + 1 /\ n.fase = "gedaan"
        <5>1. object.versie + 1 \in 0 .. MaxVersies
          BY <1>1, <4>1, PaginaAanname
        <5> QED BY <3>1, <5>1
      <4> HIDE DEF n
      <4> QED BY <4>1, <4>2, <4>3
    <3>3. CASE ~Aanvaardt(m.actie, object)
      <4> DEFINE n == [m EXCEPT !.fase = "geweigerd", !.versie = object.versie]
      <4>1. object' = object /\ mutaties' = (mutaties \ {m}) \cup {n}
        BY <1>12, <3>3 DEF Verwerk
      <4>2. object.versie \in 0 .. MaxVersies
        BY <1>1, PaginaAanname DEF Object
      <4>3. n \in Mutatie /\ n.nr = m.nr
            /\ n.actie = m.actie /\ n.basis = m.basis /\ n.versie = object.versie
        BY <3>1, <4>2
      <4> HIDE DEF n
      <4> QED BY <1>1, <3>3, <4>1, <4>3 DEF PaginaInv
    <3> QED BY <3>2, <3>3
  <2>4. KopieVan(kopie, object') /\ KopieVan(lezing.object, object') /\ \A x \in mutaties : MutatieKlopt(x)'
    BY <2>2, <2>3, ObjectHoudt
  <2>5. MutatieKlopt(n)'
    <3>1. (KopieVan(m.basis, object) /\ m.actie \in Acties[soort] /\ (m.basis # GeenObject => m.actie \in Aanbod(m.basis)))'
      BY <2>4 DEF MutatieKlopt
    <3>2. ASSUME n.fase = "geweigerd" PROVE n.versie > n.basis.versie \/ Onbewaakt(n.actie, n.basis)'
      <4>1. object' = object /\ ~Aanvaardt(m.actie, object) /\ n.versie = object.versie
            /\ KopieVan(m.basis, object)
        BY <2>1, <2>3, <3>2 DEF MutatieKlopt
      <4>2. CASE m.basis = GeenObject
        BY <2>3, <4>2 DEF Onbewaakt
      <4>3. CASE m.basis # GeenObject /\ m.basis.versie # object.versie
        <5>1. m.basis.versie \in Nat /\ m.basis.versie <= object.versie
          BY <4>1, <4>3 DEF KopieVan, Object
        <5> QED BY <1>1, <2>3, <4>1, <4>3, <5>1
      <4>4. CASE m.basis # GeenObject /\ m.basis.versie = object.versie
        <5>1. m.basis = object /\ m.actie \in Aanbod(object)
          BY <2>1, <4>1, <4>4 DEF KopieVan, MutatieKlopt
        <5>2. Onbewaakt(m.actie, object)
          BY <1>1, <4>1, <5>1, AanbodKlopt DEF PaginaInv
        <5> QED BY <2>3, <4>1, <5>1, <5>2 DEF Onbewaakt
      <4> QED BY <4>2, <4>3, <4>4
    <3>3. n.versie <= object'.versie
      BY <2>3 DEF Object
    <3> QED BY <2>3, <3>1, <3>2, <3>3 DEF MutatieKlopt, Onbewaakt
  <2>6. TypeMutaties'
    <3> HIDE DEF Mutatie
    <3> QED BY <1>1, <2>3
  <2>7. PaginaTypeOK'
    BY <2>2, <2>3, <2>6 DEF PaginaInv, PaginaTypeOK
  <2>8. LezingKlopt'
    <3>1. eigen <= object'.versie
      BY <1>1, <2>3 DEF PaginaInv, LezingKlopt, Object
    <3> QED BY <2>2, <3>1 DEF PaginaInv, LezingKlopt
  <2>9. KopieVan(kopie, object)' /\ KopieVan(lezing.object, object)'
    BY <2>2, <2>4 DEF KopieVan
  <2>10. (object.status \in Stadia[soort])' /\ \A x \in mutaties' : MutatieKlopt(x)'
    BY <2>2, <2>3, <2>4, <2>5
  <2> QED BY <2>7, <2>8, <2>9, <2>10 DEF PaginaInv
<1>13. ASSUME NEW m \in mutaties, mutaties' = mutaties \ {m} PROVE TypeMutaties' /\ Blijven
  BY <1>1, <1>13
<1>14. ASSUME NEW m \in mutaties, Geslaagd(m) PROVE PaginaInv'
  <2> USE <1>14 DEF Geslaagd, server
  <2>1. m.versie \in 0 .. MaxVersies /\ m.versie <= object.versie
    BY DEF PaginaInv, PaginaTypeOK, MutatieKlopt
  <2>2. lezing' = NieuweLezing \/ (lezing' = lezing /\ (zichtbaar => kopie = GeenObject /\ lezing # GeenLezing))
    BY DEF Herlees, klaar
  <2>3. TypeRest'
    BY <1>1, <2>1, <2>2 DEF Herlees, NieuweLezing
  <2>4. eigen' <= object.versie
    BY <1>1, <2>1 DEF PaginaInv, LezingKlopt
  <2>5. LezingKlopt'
    <3>1. CASE lezing' = NieuweLezing
      BY <2>4, <3>1 DEF LezingKlopt, NieuweLezing, GeenLezing
    <3>2. CASE lezing' = lezing /\ (zichtbaar => kopie = GeenObject /\ lezing # GeenLezing)
      <4>1. lezing'.fase = "gelezen" => lezing'.object # GeenObject /\ doorgelopen'
        BY <3>2 DEF PaginaInv, LezingKlopt
      <4>2. ~(zichtbaar' /\ lezing' = GeenLezing)
        BY <3>2
      <4> QED BY <2>4, <4>1, <4>2 DEF LezingKlopt
    <3> QED BY <2>2, <3>1, <3>2
  <2>6. KopieVan(lezing'.object, object)
    BY <2>2 DEF NieuweLezing, KopieVan, PaginaInv
  <2> QED BY <1>2, <1>13, <2>3, <2>5, <2>6 DEF PaginaInv
<1>15. ASSUME NEW m \in mutaties, Mislukt(m) PROVE PaginaInv'
  <2> USE <1>15 DEF Mislukt, server, bladzij
  <2>1. TypeRest' /\ LezingKlopt'
    BY <1>1 DEF PaginaInv, LezingKlopt
  <2> QED BY <1>2, <1>13, <2>1 DEF PaginaInv
<1> QED
  BY <1>4, <1>5, <1>6, <1>7, <1>9, <1>10, <1>11, <1>12, <1>14, <1>15, <1>16, <1>18, <1>19 DEF PaginaNext

-----------------------------------------------------------------------------
(* Verversing.  vorige is what the page compares an answer with: it is at  *)
(* least what is shown, and what lies between it and the first answer was  *)
(* highlighted.  In the portal reads never overlap.                        *)

\* Rows between the first answer and vorige were highlighted, and once when nothing goes back;
\* none was where the ids differ.
VergelekenMetVorige ==
  hook # "portaal" =>
    /\ eerste = Niets <=> vorige = Niets
    /\ getoond # Niets => vorige # Niets /\ getoond <= vorige
    /\ sleutels = "anders" => \A r \in Rij : geflitst[r] = 0
    /\ \A r \in Rij : r > eerste /\ r <= vorige => (geflitst[r] > 0 <=> sleutels = "gelijk")
    /\ hook = "sven" \/ ~omgekeerd =>
         /\ eerste <= vorige
         /\ \A r \in Rij : geflitst[r] <= (IF r > eerste /\ r <= vorige THEN 1 ELSE 0)

\* Every highlight has a timer, in Sven until it is stopped.
FlitsHeeftWisser ==
  /\ hook = "regiekamer" => \A r \in flits : \E w \in wissers : r \in w.rijen
  /\ hook = "sven" => IF flits = {} \/ gestopt THEN wissers = {}
                      ELSE \E w \in wissers : wissers = {w} /\ w.rijen = flits

\* react-query has one read of a list under way, and its answer is not older than what is
\* shown, nor newer than the list.
PortaalGaatVooruit ==
  hook = "portaal" =>
    /\ ~omgekeerd /\ vorige = Niets
    /\ getoond # Niets => getoond <= rijen
    /\ \A v \in vluchten :
         /\ vluchten = {v}
         /\ v.rijen # Niets => v.rijen <= rijen /\ (getoond # Niets => getoond <= v.rijen)

VerversInv == VerversTypeOK /\ VergelekenMetVorige /\ FlitsHeeftWisser /\ PortaalGaatVooruit

LEMMA VerversBegin == VerversInit => VerversInv
<1> SUFFICES ASSUME VerversInit PROVE VerversInv
  OBVIOUS
<1>1. Niets \in Aantal /\ Niets \in Nat /\ \A r \in Rij : r \in Nat
  BY VerversingAanname DEF Niets, Aantal, Rij
<1>2. VerversTypeOK
  <2>1. geflitst \in [Rij -> Nat]
    BY DEF VerversInit
  <2>2. vragen \in 0 .. MaxVragen
    BY VerversingAanname DEF VerversInit
  <2> QED BY <1>1, <2>1, <2>2 DEF VerversInit, VerversTypeOK
<1>3. VergelekenMetVorige /\ FlitsHeeftWisser /\ PortaalGaatVooruit
  BY <1>1 DEF VerversInit, VergelekenMetVorige, FlitsHeeftWisser, PortaalGaatVooruit
<1> QED BY <1>1, <1>2, <1>3 DEF VerversInv

\* What the runs check of the lists follows.
LEMMA VerversGevolg == VerversInv => FlitsKlopt
<1> SUFFICES ASSUME VerversInv PROVE FlitsKlopt
  OBVIOUS
<1> USE DEF VerversInv
<1>1. MaxRijen \in Nat /\ Niets \in Nat /\ \A r \in Rij : r \in Nat /\ geflitst[r] \in Nat
  BY VerversingAanname DEF Niets, Rij, VerversTypeOK
<1>2. vorige \in Nat /\ eerste \in Nat /\ getoond \in Nat
  BY <1>1 DEF VerversTypeOK, Aantal
<1>3. hook # "portaal" => \A r \in Rij :
        /\ r > eerste /\ getoond # Niets /\ r <= getoond => (geflitst[r] > 0 <=> sleutels = "gelijk")
        /\ hook = "sven" \/ ~omgekeerd => geflitst[r] <= (IF r > eerste THEN 1 ELSE 0)
  BY <1>1, <1>2 DEF VergelekenMetVorige
<1>4. hook = "sven" => IF flits = {} \/ gestopt THEN wissers = {}
                       ELSE Cardinality(wissers) = 1 /\ \A w \in wissers : w.rijen = flits
  BY FS_Singleton DEF FlitsHeeftWisser
<1> QED BY <1>3, <1>4 DEF FlitsKlopt, FlitsHeeftWisser, PortaalGaatVooruit

LEMMA VerversStap == VerversInv /\ [VerversNext]_verversVars => VerversInv'
<1> SUFFICES ASSUME VerversInv, [VerversNext]_verversVars PROVE VerversInv'
  OBVIOUS
<1>1. /\ MaxRijen \in Nat /\ Niets \in Nat /\ Niets = MaxRijen + 1
      /\ \A r \in Rij : r \in Nat /\ r <= MaxRijen /\ geflitst[r] \in Nat
      /\ \A k \in Aantal : k \in Nat /\ (k # Niets => k <= MaxRijen)
  BY VerversingAanname DEF Niets, Rij, VerversTypeOK, VerversInv, Aantal
<1>2. /\ hook \in {"regiekamer", "sven", "portaal"} /\ sleutels \in {"gelijk", "anders"} /\ gestopt \in BOOLEAN
      /\ rijen \in 0..MaxRijen /\ getoond \in Aantal /\ vorige \in Aantal /\ eerste \in Aantal
      /\ vluchten \subseteq [nr : 1..MaxVragen, rijen : Aantal]
      /\ wissers \subseteq [nr : 1..MaxVragen, rijen : SUBSET Rij]
      /\ vragen \in 0..MaxVragen /\ flits \subseteq Rij
      /\ geflitst \in [Rij -> Nat] /\ omgekeerd \in BOOLEAN
  BY DEF VerversInv, VerversTypeOK
<1>3. ASSUME UNCHANGED <<hook, sleutels, getoond, vorige, flits, wissers, gestopt, geflitst, eerste, omgekeerd>>,
             rijen' \in 0..MaxRijen, rijen <= rijen', vragen' \in 0..MaxVragen,
             vluchten' \subseteq [nr : 1..MaxVragen, rijen : Aantal],
             hook = "portaal" => \A v \in vluchten' :
               vluchten' = {v} /\ (v \in vluchten \/ v.rijen \in {rijen, Niets})
      PROVE  VerversInv'
  <2>1. VerversTypeOK'
    BY <1>2, <1>3 DEF VerversTypeOK
  <2>2. VergelekenMetVorige' /\ FlitsHeeftWisser'
    BY <1>3 DEF VerversInv, VergelekenMetVorige, FlitsHeeftWisser
  <2>3. PortaalGaatVooruit'
    BY <1>1, <1>2, <1>3 DEF VerversInv, PortaalGaatVooruit
  <2> QED BY <2>1, <2>2, <2>3 DEF VerversInv
<1>4. CASE UNCHANGED verversVars
  BY <1>2, <1>3, <1>4 DEF verversVars, VerversInv, PortaalGaatVooruit
<1>5. CASE NieuweRij
  <2>1. rijen' \in 0..MaxRijen /\ rijen <= rijen'
    BY <1>1, <1>2, <1>5 DEF NieuweRij
  <2> QED BY <1>2, <1>3, <1>5, <2>1 DEF NieuweRij, VerversInv, PortaalGaatVooruit
<1>6. ASSUME NEW oude \in SUBSET vluchten, Begin(oude), hook = "portaal" => oude = {}
      PROVE  VerversInv'
  <2>1. vragen + 1 \in 1 .. MaxVragen /\ vragen' \in 0 .. MaxVragen
    BY <1>2, <1>6, VerversingAanname DEF Begin
  <2>2. vluchten' \subseteq [nr : 1..MaxVragen, rijen : Aantal]
    BY <1>1, <1>2, <1>6, <2>1 DEF Begin, Aantal
  <2> QED BY <1>2, <1>3, <1>6, <2>1, <2>2 DEF Begin
<1>7. CASE Tik \/ VerversNaFormulier \/ Invalideer
  BY <1>6, <1>7 DEF Tik, VerversNaFormulier, Invalideer
<1>8. ASSUME NEW v \in vluchten, Lees(v) PROVE VerversInv'
  <2>1. [v EXCEPT !.rijen = rijen] \in [nr : 1..MaxVragen, rijen : Aantal]
        /\ [v EXCEPT !.rijen = rijen].rijen = rijen
    BY <1>1, <1>2 DEF Aantal
  <2> QED BY <1>2, <1>3, <1>8, <2>1 DEF Lees, VerversInv, PortaalGaatVooruit
<1>9. ASSUME NEW v \in vluchten, LeesMislukt(v) PROVE VerversInv'
  <2>1. VerversTypeOK'
    BY <1>1, <1>2, <1>9 DEF LeesMislukt, VerversTypeOK, Aantal
  <2>2. VergelekenMetVorige' /\ FlitsHeeftWisser' /\ PortaalGaatVooruit'
    BY <1>9 DEF LeesMislukt, VerversInv, VergelekenMetVorige, FlitsHeeftWisser, PortaalGaatVooruit
  <2> QED BY <2>1, <2>2 DEF VerversInv
<1>10. ASSUME NEW v \in vluchten, Toon(v) PROVE VerversInv'
  <2> DEFINE nieuw == IF vorige = Niets THEN {} ELSE (vorige + 1)..v.rijen
  <2>1. /\ v.rijen \in 0 .. MaxRijen /\ v.rijen # Niets /\ v.rijen \in Aantal /\ v.nr \in 1 .. MaxVragen
        /\ vluchten' = vluchten \ {v} /\ getoond' = v.rijen
        /\ eerste' = IF eerste = Niets THEN v.rijen ELSE eerste
        /\ omgekeerd' \in BOOLEAN
        /\ ~omgekeerd' => ~omgekeerd /\ (vorige # Niets => vorige <= v.rijen)
        /\ UNCHANGED <<hook, sleutels, rijen, vragen>>
    <3>1. v.rijen \in Aantal /\ v.nr \in 1 .. MaxVragen
      BY <1>2
    <3>2. v.rijen # Niets
      BY <1>10 DEF Toon
    <3>3. v.rijen \in 0 .. MaxRijen
      BY <1>1, <3>1, <3>2 DEF Aantal
    <3>4. omgekeerd' = (omgekeerd \/ (getoond # Niets /\ v.rijen < getoond) \/ (vorige # Niets /\ v.rijen < vorige))
      BY <1>10 DEF Toon
    <3>5. vorige \in Nat /\ v.rijen \in Nat
      BY <1>1, <1>2, <3>1
    <3>6. ~(vorige # Niets /\ v.rijen < vorige) => (vorige # Niets => vorige <= v.rijen)
      BY <3>5
    <3>7. omgekeerd' \in BOOLEAN /\ (~omgekeerd' => ~omgekeerd /\ (vorige # Niets => vorige <= v.rijen))
      BY <1>2, <3>4, <3>6
    <3> QED BY <1>10, <3>1, <3>2, <3>3, <3>7 DEF Toon
  <2>2. nieuw \subseteq Rij
    BY <1>1, <1>2, <2>1 DEF Rij
  <2>3. VerversTypeOK' /\ FlitsHeeftWisser' /\ VergelekenMetVorige'
    <3>1. CASE hook = "portaal"
      BY <1>2, <1>10, <2>1, <3>1 DEF Toon, ToonPortaal, VerversTypeOK, VergelekenMetVorige, FlitsHeeftWisser
    <3>2. CASE hook \in {"regiekamer", "sven"}
      <4>1. /\ geflitst' = [r \in Rij |-> geflitst[r] + (IF sleutels = "gelijk" /\ r \in nieuw THEN 1 ELSE 0)]
            /\ vorige' = IF hook = "regiekamer" \/ vorige = Niets \/ v.rijen > vorige THEN v.rijen ELSE vorige
        BY <1>10, <3>2 DEF Toon, ToonRegiekamer, ToonSven, Flits
      <4>2. /\ hook = "regiekamer" => flits' = flits \cup nieuw
            /\ hook = "regiekamer" => wissers' = IF nieuw = {} THEN wissers ELSE wissers \cup Wisser(v, nieuw)
            /\ hook = "sven" => flits' = IF nieuw = {} THEN flits ELSE nieuw
            /\ hook = "sven" => wissers' = IF nieuw = {} THEN {} ELSE Wisser(v, nieuw)
            /\ gestopt' = IF hook = "sven" THEN nieuw = {} /\ flits # {} ELSE gestopt
        BY <1>10, <3>2 DEF Toon, ToonRegiekamer, ToonSven
      <4>3. nieuw = {r \in Rij : vorige # Niets /\ r > vorige /\ r <= v.rijen}
        BY <1>1, <1>2, <2>1 DEF Rij
      <4> HIDE DEF nieuw
      <4>4. VerversTypeOK'
        <5>1. gestopt' \in BOOLEAN
          BY <1>2, <4>2
        <5>2. wissers' \subseteq [nr : 1..MaxVragen, rijen : SUBSET Rij] /\ flits' \subseteq Rij
          BY <1>2, <2>1, <2>2, <3>2, <4>2 DEF Wisser
        <5>3. geflitst' \in [Rij -> Nat]
          BY <1>1, <4>1
        <5> QED BY <1>1, <1>2, <2>1, <3>2, <4>1, <5>1, <5>2, <5>3 DEF VerversTypeOK
      <4>5. FlitsHeeftWisser'
        <5>1. ASSUME hook = "regiekamer", NEW r \in flits' PROVE \E w \in wissers' : r \in w.rijen
          <6>1. CASE r \in nieuw
            <7>1. [nr |-> v.nr, rijen |-> nieuw] \in wissers'
              BY <4>2, <5>1, <6>1 DEF Wisser
            <7> QED BY <6>1, <7>1
          <6>2. CASE r \in flits
            <7>1. PICK w \in wissers : r \in w.rijen
              BY <5>1, <6>2 DEF VerversInv, FlitsHeeftWisser
            <7> QED BY <4>2, <5>1, <7>1
          <6> QED BY <4>2, <5>1, <6>1, <6>2
        <5>2. ASSUME hook = "sven"
              PROVE  IF flits' = {} \/ gestopt' THEN wissers' = {}
                     ELSE \E w \in wissers' : wissers' = {w} /\ w.rijen = flits'
          <6>1. CASE nieuw = {}
            BY <4>2, <5>2, <6>1
          <6>2. CASE nieuw # {}
            BY <4>2, <5>2, <6>2 DEF Wisser
          <6> QED BY <6>1, <6>2
        <5> QED BY <2>1, <5>1, <5>2 DEF FlitsHeeftWisser
      <4>6. VergelekenMetVorige'
        <5>1. /\ eerste = Niets <=> vorige = Niets
              /\ \A r \in Rij : r > eerste /\ r <= vorige => (geflitst[r] > 0 <=> sleutels = "gelijk")
              /\ hook = "sven" \/ ~omgekeerd =>
                   /\ eerste <= vorige
                   /\ \A r \in Rij : geflitst[r] <= (IF r > eerste /\ r <= vorige THEN 1 ELSE 0)
          BY <3>2 DEF VerversInv, VergelekenMetVorige
        <5>2. vorige' \in Nat /\ vorige' # Niets /\ eerste' # Niets /\ getoond' <= vorige'
          BY <1>1, <1>2, <2>1, <4>1 DEF Aantal
        <5>3. ASSUME NEW r \in Rij, r > eerste', r <= vorige' PROVE geflitst'[r] > 0 <=> sleutels = "gelijk"
          <6>1. CASE r \in nieuw
            <7>1. geflitst'[r] = geflitst[r] + (IF sleutels = "gelijk" THEN 1 ELSE 0) /\ geflitst[r] \in Nat
              BY <1>1, <4>1, <6>1
            <7>2. sleutels = "gelijk" \/ geflitst[r] = 0
              BY <1>2, <3>2 DEF VerversInv, VergelekenMetVorige
            <7> QED BY <7>1, <7>2
          <6>2. CASE r \notin nieuw
            <7>1. geflitst'[r] = geflitst[r]
              BY <1>1, <4>1, <6>2
            <7>2. r > eerste /\ r <= vorige
              BY <1>1, <1>2, <2>1, <4>1, <4>3, <5>1, <5>3, <6>2 DEF Aantal
            <7> QED BY <5>1, <7>1, <7>2
          <6> QED BY <6>1, <6>2
        <5>4. ASSUME hook = "sven" \/ ~omgekeerd' PROVE eerste' <= vorige'
          BY <1>1, <1>2, <2>1, <4>1, <5>1, <5>4 DEF Aantal
        <5>5. ASSUME hook = "sven" \/ ~omgekeerd', NEW r \in Rij
              PROVE  geflitst'[r] <= (IF r > eerste' /\ r <= vorige' THEN 1 ELSE 0)
          BY <1>1, <1>2, <2>1, <4>1, <4>3, <5>1, <5>5
        <5>6. ASSUME sleutels = "anders", NEW r \in Rij PROVE geflitst'[r] = 0
          <6>1. geflitst[r] = 0
            BY <3>2, <5>6 DEF VerversInv, VergelekenMetVorige
          <6> QED BY <4>1, <5>6, <6>1
        <5> QED BY <2>1, <3>2, <5>2, <5>3, <5>4, <5>5, <5>6 DEF VergelekenMetVorige
      <4> QED BY <4>4, <4>5, <4>6
    <3> QED BY <1>2, <3>1, <3>2
  <2>4. PortaalGaatVooruit'
    <3> SUFFICES ASSUME hook = "portaal" PROVE PortaalGaatVooruit'
      BY <2>1 DEF PortaalGaatVooruit
    <3>1. vorige' = vorige
      BY <1>10 DEF Toon, ToonPortaal
    <3>2. vluchten' = {} /\ vorige = Niets /\ v.rijen <= rijen /\ (getoond # Niets => getoond <= v.rijen) /\ ~omgekeerd
      BY <2>1 DEF VerversInv, PortaalGaatVooruit
    <3>3. ~omgekeerd'
      <4>1. ~(getoond # Niets /\ v.rijen < getoond)
        BY <1>1, <1>2, <2>1, <3>2
      <4>2. omgekeerd' = (omgekeerd \/ (getoond # Niets /\ v.rijen < getoond) \/ (vorige # Niets /\ v.rijen < vorige))
        BY <1>10 DEF Toon
      <4> QED BY <3>2, <4>1, <4>2
    <3> QED BY <2>1, <3>1, <3>2, <3>3 DEF PortaalGaatVooruit
  <2> QED BY <2>3, <2>4 DEF VerversInv
<1>11. ASSUME NEW w \in wissers, EindeFlits(w) PROVE VerversInv'
  <2>1. VerversTypeOK'
    BY <1>2, <1>11 DEF EindeFlits, VerversTypeOK
  <2>2. VergelekenMetVorige' /\ PortaalGaatVooruit'
    BY <1>11 DEF EindeFlits, VerversInv, VergelekenMetVorige, PortaalGaatVooruit
  <2>3. FlitsHeeftWisser'
    BY <1>11 DEF EindeFlits, VerversInv, FlitsHeeftWisser
  <2> QED BY <2>1, <2>2, <2>3 DEF VerversInv
<1> QED BY <1>4, <1>5, <1>7, <1>8, <1>9, <1>10, <1>11 DEF VerversNext

-----------------------------------------------------------------------------
(* Demoroute: the services.  What they hold only grows, whatever is asked  *)
(* of them and whatever is delivered: that is why a page that has seen a   *)
(* step succeed may go on saying so.                                       *)

Incidentstand == {"Open", "Opgelost"}
Traject == [incident : Nat, status : {"Gepland", "Gestart", "Afgerond"}, inspectie : BOOLEAN]
Inkoop == [demo : BOOLEAN, inschrijving : BOOLEAN, gegund : BOOLEAN]
Bezorgbaar ==
  {b \in [soort : {"kunstwerk", "incident", "rapport", "gegund", "afgerond"},
          naar : {"monitoring", "onderhoud", "contract", "beheer"}, id : Nat] :
     /\ b.soort = "kunstwerk" => b.naar \in {"monitoring", "contract"}
     /\ b.soort \in {"incident", "gegund"} => b.naar = "onderhoud"
     /\ b.soort = "rapport" => b.naar \in {"contract", "beheer"}
     /\ b.soort = "afgerond" => b.naar = "beheer"}

Dienst ==
  [kunstwerk : BOOLEAN, eisen : SUBSET {"onderhoud", "ontwerp"}, kent : SUBSET {"monitoring", "contract"},
   sessie : BOOLEAN, incidenten : Seq(Incidentstand), trajecten : Seq(Traject),
   aanbestedingen : Seq(Inkoop), geldend : BOOLEAN, kpi : BOOLEAN, verklaringen : SUBSET Nat,
   rapport : BOOLEAN, beoordelingen : SUBSET {"rapport", "afgerond"}, bus : SUBSET Bezorgbaar]

\* A traject, and an event that will plan one, is for an incident there is.
Verwijst(d) ==
  /\ \A t \in DOMAIN d.trajecten : d.trajecten[t].incident \in DOMAIN d.incidenten
  /\ \A b \in d.bus : b.soort = "incident" => b.id \in DOMAIN d.incidenten

\* Rows of a service later on: there may be more, and what is done is not undone.
IncidentenVerder(oud, rij) ==
  /\ Len(oud) <= Len(rij)
  /\ \A i \in DOMAIN oud : oud[i] = "Opgelost" => rij[i] = "Opgelost"
TrajectenVerder(oud, rij) ==
  /\ Len(oud) <= Len(rij)
  /\ \A t \in DOMAIN oud : /\ rij[t].incident = oud[t].incident
                           /\ oud[t].status = "Afgerond" => rij[t].status = "Afgerond"
InkoopVerder(oud, rij) ==
  /\ Len(oud) <= Len(rij)
  /\ \A a \in DOMAIN oud : /\ rij[a].demo = oud[a].demo
                           /\ oud[a].gegund => rij[a].gegund

\* `e` holds all that `d` held.
Later(d, e) ==
  /\ d.kunstwerk => e.kunstwerk
  /\ d.sessie => e.sessie
  /\ d.rapport => e.rapport
  /\ d.eisen \subseteq e.eisen
  /\ d.verklaringen \subseteq e.verklaringen
  /\ d.beoordelingen \subseteq e.beoordelingen
  /\ IncidentenVerder(d.incidenten, e.incidenten)
  /\ TrajectenVerder(d.trajecten, e.trajecten)
  /\ InkoopVerder(d.aanbestedingen, e.aanbestedingen)

\* The events that come along are not about a new incident.
ZonderIncident(d, bus) == \A b \in bus : b \in d.bus \/ b.soort # "incident"

\* Beside the rows of Contract and Onderhoud nothing is lost and no incident is new.
Elders(d, e) ==
  /\ e.incidenten = d.incidenten /\ ZonderIncident(d, e.bus)
  /\ e.kunstwerk = d.kunstwerk /\ e.sessie = d.sessie /\ e.rapport = d.rapport
  /\ e.eisen = d.eisen /\ e.verklaringen = d.verklaringen
  /\ d.beoordelingen \subseteq e.beoordelingen

\* A service answers request `a` of state `d` without losing anything.
Behoudt(d, a) ==
  /\ a.na \in Dienst /\ Verwijst(a.na) /\ Later(d, a.na)
  /\ a.klasse \in {"ok", "4xx", "conflict"} /\ a.id \in Nat

\* What is left alone is kept.
LEMMA LaterZelf == ASSUME NEW d \in Dienst PROVE Later(d, d)
BY DEF Dienst, Later, IncidentenVerder, TrajectenVerder, InkoopVerder

LEMMA GroeitVanzelf ==
  ASSUME NEW d \in Dienst, Verwijst(d), NEW e \in Dienst,
         e.incidenten = d.incidenten, e.trajecten = d.trajecten, e.aanbestedingen = d.aanbestedingen,
         ZonderIncident(d, e.bus),
         d.kunstwerk => e.kunstwerk, d.sessie => e.sessie, d.rapport => e.rapport,
         d.eisen \subseteq e.eisen, d.verklaringen \subseteq e.verklaringen,
         d.beoordelingen \subseteq e.beoordelingen
  PROVE  Verwijst(e) /\ Later(d, e)
<1>1. Verwijst(e)
  BY DEF Verwijst, ZonderIncident
<1>2. Later(d, e)
  BY LaterZelf DEF Later
<1> QED BY <1>1, <1>2

LEMMA AntwoordKlopt ==
  ASSUME NEW d \in Dienst, NEW e \in Dienst, Verwijst(e), Later(d, e),
         NEW klasse \in {"ok", "4xx", "conflict"}, NEW id \in Nat
  PROVE  Behoudt(d, Antwoord(e, klasse, id))
BY DEF Behoudt, Antwoord

LEMMA WeigertZonderMeer ==
  ASSUME NEW d \in Dienst, Verwijst(d), NEW klasse \in {"ok", "4xx", "conflict"}
  PROVE  Behoudt(d, Antwoord(d, klasse, Geen))
BY LaterZelf, AntwoordKlopt DEF Geen

LEMMA RegistreerKlopt ==
  ASSUME NEW d \in Dienst, Verwijst(d)
  PROVE  Behoudt(d, Registreer(d)) /\ Registreer(d).na.kunstwerk
<1>1. CASE d.kunstwerk
  BY <1>1, WeigertZonderMeer DEF Registreer, Antwoord
<1>2. CASE ~d.kunstwerk
  <2> DEFINE nieuw == {Bericht("kunstwerk", "monitoring", Geen), Bericht("kunstwerk", "contract", Geen)}
             e == [d EXCEPT !.kunstwerk = TRUE, !.bus = @ \cup nieuw]
  <2>1. Registreer(d) = Antwoord(e, "ok", Geen)
    BY <1>2 DEF Registreer, Gelukt
  <2>2. nieuw \subseteq Bezorgbaar /\ \A b \in nieuw : b.soort # "incident"
    BY DEF Bericht, Bezorgbaar, Geen
  <2> HIDE DEF nieuw
  <2>3. e \in Dienst /\ e.kunstwerk /\ e.bus = d.bus \cup nieuw
    BY <2>2 DEF Dienst
  <2>4. Verwijst(e) /\ Later(d, e)
    <3>1. ZonderIncident(d, e.bus)
      BY <2>2, <2>3 DEF ZonderIncident
    <3> QED BY <2>3, <3>1, GroeitVanzelf DEF Dienst
  <2> HIDE DEF e
  <2> QED BY <2>1, <2>3, <2>4, AntwoordKlopt DEF Antwoord, Geen
<1> QED BY <1>1, <1>2

LEMMA EisenKlopt ==
  ASSUME NEW d \in Dienst, Verwijst(d), NEW welke \in {"onderhoud", "ontwerp"}
  PROVE  /\ Behoudt(d, StelEisenVast(d, welke))
         /\ StelEisenVast(d, welke).klasse = "ok" => welke \in StelEisenVast(d, welke).na.eisen
         /\ StelEisenVast(d, welke).klasse # "conflict"
<1>1. CASE ~d.kunstwerk
  BY <1>1, WeigertZonderMeer DEF StelEisenVast, Weigering, Antwoord
<1>2. CASE d.kunstwerk
  <2> DEFINE e == [d EXCEPT !.eisen = @ \cup {welke}]
  <2>1. StelEisenVast(d, welke) = Antwoord(e, "ok", Geen)
    BY <1>2 DEF StelEisenVast, Gelukt
  <2>2. e \in Dienst /\ welke \in e.eisen
    BY DEF Dienst
  <2>3. Verwijst(e) /\ Later(d, e)
    BY <2>2, GroeitVanzelf DEF Dienst, ZonderIncident
  <2> HIDE DEF e
  <2> QED BY <2>1, <2>2, <2>3, AntwoordKlopt DEF Antwoord, Geen
<1> QED BY <1>1, <1>2

LEMMA StartSessieKlopt ==
  ASSUME NEW d \in Dienst, Verwijst(d)
  PROVE  /\ Behoudt(d, StartSessie(d))
         /\ StartSessie(d).klasse = "ok" => StartSessie(d).na.sessie
         /\ StartSessie(d).klasse # "conflict"
<1>1. CASE ~(Bewaakt(d) /\ ~d.sessie)
  BY <1>1, WeigertZonderMeer DEF StartSessie, Weigering, Antwoord
<1>2. CASE Bewaakt(d) /\ ~d.sessie
  <2> DEFINE e == [d EXCEPT !.sessie = TRUE]
  <2>1. StartSessie(d) = Antwoord(e, "ok", Geen)
    BY <1>2 DEF StartSessie, Gelukt
  <2>2. e \in Dienst /\ e.sessie
    BY DEF Dienst
  <2>3. Verwijst(e) /\ Later(d, e)
    BY <2>2, GroeitVanzelf DEF Dienst, ZonderIncident
  <2> HIDE DEF e
  <2> QED BY <2>1, <2>2, <2>3, AntwoordKlopt DEF Antwoord, Geen
<1> QED BY <1>1, <1>2

LEMMA MeetKlopt ==
  ASSUME NEW d \in Dienst, Verwijst(d), NEW hoog \in BOOLEAN
  PROVE  /\ Behoudt(d, Meet(d, hoog))
         /\ Meet(d, hoog).klasse = "ok" /\ hoog => Meet(d, hoog).na.incidenten # <<>>
         /\ Meet(d, hoog).klasse # "conflict"
         /\ \/ Len(Meet(d, hoog).na.incidenten) = Len(d.incidenten)
            \/ hoog /\ Len(Meet(d, hoog).na.incidenten) = Len(d.incidenten) + 1
<1>1. CASE ~(Bewaakt(d) /\ d.sessie /\ hoog)
  BY <1>1, LaterZelf DEF Dienst, Behoudt, Meet, Antwoord, Gelukt, Weigering, Geen
<1>2. CASE Bewaakt(d) /\ d.sessie /\ hoog
  <2> DEFINE i == Len(d.incidenten) + 1
             b == Bericht("incident", "onderhoud", i)
             e == [d EXCEPT !.incidenten = Append(@, "Open"), !.bus = @ \cup {b}]
  <2>1. Meet(d, hoog) = [na |-> e, klasse |-> "ok", id |-> Geen]
    BY <1>2 DEF Meet, Antwoord, Gelukt
  <2>2. /\ e.incidenten = Append(d.incidenten, "Open") /\ e.bus = d.bus \cup {b}
        /\ e.trajecten = d.trajecten /\ e.aanbestedingen = d.aanbestedingen
        /\ e.kunstwerk = d.kunstwerk /\ e.sessie = d.sessie /\ e.rapport = d.rapport
        /\ e.eisen = d.eisen /\ e.verklaringen = d.verklaringen /\ e.beoordelingen = d.beoordelingen
    BY DEF Dienst
  <2>3. /\ d.incidenten \in Seq(Incidentstand) /\ i \in Nat
        /\ e.incidenten \in Seq(Incidentstand) /\ Len(e.incidenten) = i
        /\ \A k \in 1 .. Len(d.incidenten) : e.incidenten[k] = d.incidenten[k]
    BY <2>2 DEF Dienst, Incidentstand
  <2>4. b \in Bezorgbaar /\ b.soort = "incident" /\ b.id = i
    BY <2>3 DEF Bericht, Bezorgbaar
  <2>5. e \in Dienst
    BY <2>3, <2>4 DEF Dienst
  <2> HIDE DEF e, b
  <2>6. Later(d, e)
    BY <2>2, <2>3, LaterZelf DEF Later, IncidentenVerder
  <2>7. Verwijst(e)
    BY <2>2, <2>3, <2>4 DEF Dienst, Verwijst
  <2> QED BY <2>1, <2>2, <2>3, <2>5, <2>6, <2>7, <1>2 DEF Behoudt, Geen
<1> QED BY <1>1, <1>2

LEMMA LosOpKlopt ==
  ASSUME NEW d \in Dienst, Verwijst(d), NEW i \in Nat
  PROVE  /\ Behoudt(d, LosOp(d, i))
         /\ LosOp(d, i).klasse = "ok" =>
              i \in DOMAIN LosOp(d, i).na.incidenten /\ LosOp(d, i).na.incidenten[i] = "Opgelost"
         /\ LosOp(d, i).klasse # "conflict"
         /\ Len(LosOp(d, i).na.incidenten) = Len(d.incidenten)
<1>1. CASE ~(i \in DOMAIN d.incidenten /\ d.incidenten[i] = "Open")
  BY <1>1, WeigertZonderMeer DEF LosOp, Weigering, Antwoord
<1>2. CASE i \in DOMAIN d.incidenten /\ d.incidenten[i] = "Open"
  <2> DEFINE e == [d EXCEPT !.incidenten[i] = "Opgelost"]
  <2>1. LosOp(d, i) = Antwoord(e, "ok", Geen)
    BY <1>2 DEF LosOp, Gelukt
  <2>2. /\ e.incidenten = [d.incidenten EXCEPT ![i] = "Opgelost"] /\ e.bus = d.bus
        /\ e.trajecten = d.trajecten /\ e.aanbestedingen = d.aanbestedingen
        /\ e.kunstwerk = d.kunstwerk /\ e.sessie = d.sessie /\ e.rapport = d.rapport
        /\ e.eisen = d.eisen /\ e.verklaringen = d.verklaringen /\ e.beoordelingen = d.beoordelingen
    BY DEF Dienst
  <2>3. d.incidenten \in Seq(Incidentstand)
    BY DEF Dienst
  <2>4. /\ e.incidenten \in Seq(Incidentstand) /\ Len(e.incidenten) = Len(d.incidenten)
        /\ DOMAIN e.incidenten = DOMAIN d.incidenten
        /\ \A k \in DOMAIN d.incidenten :
             e.incidenten[k] = IF k = i THEN "Opgelost" ELSE d.incidenten[k]
    BY <2>2, <2>3, <1>2 DEF Incidentstand
  <2>5. e \in Dienst
    BY <2>4 DEF Dienst
  <2> HIDE DEF e
  <2>6. Later(d, e)
    BY <2>2, <2>3, <2>4, LaterZelf DEF Later, IncidentenVerder
  <2>7. Verwijst(e)
    BY <2>2, <2>4 DEF Verwijst
  <2> QED BY <1>2, <2>1, <2>4, <2>5, <2>6, <2>7, AntwoordKlopt DEF Antwoord, Geen
<1> QED BY <1>1, <1>2

LEMMA StelRapportOpKlopt ==
  ASSUME NEW d \in Dienst, Verwijst(d)
  PROVE  Behoudt(d, StelRapportOp(d)) /\ StelRapportOp(d).na.rapport /\ StelRapportOp(d).klasse = "ok"
<1> DEFINE nieuw == {Bericht("rapport", "beheer", Geen), Bericht("rapport", "contract", Geen)}
           e == [d EXCEPT !.rapport = TRUE, !.bus = @ \cup nieuw]
<1>1. StelRapportOp(d) = Antwoord(e, "ok", Geen)
  BY DEF StelRapportOp, Gelukt
<1>2. nieuw \subseteq Bezorgbaar /\ \A b \in nieuw : b.soort # "incident"
  BY DEF Bericht, Bezorgbaar, Geen
<1> HIDE DEF nieuw
<1>3. e \in Dienst /\ e.rapport /\ e.bus = d.bus \cup nieuw
  BY <1>2 DEF Dienst
<1>4. ZonderIncident(d, e.bus)
  BY <1>2, <1>3 DEF ZonderIncident
<1>5. Verwijst(e) /\ Later(d, e)
  BY <1>3, <1>4, GroeitVanzelf DEF Dienst
<1> HIDE DEF e
<1> QED BY <1>1, <1>3, <1>5, AntwoordKlopt DEF Antwoord, Geen

\* The aanbestedingen change, or the trajecten.
LEMMA InkoopGroeit ==
  ASSUME NEW d \in Dienst, Verwijst(d), NEW e \in Dienst, Elders(d, e),
         e.trajecten = d.trajecten, InkoopVerder(d.aanbestedingen, e.aanbestedingen)
  PROVE  Verwijst(e) /\ Later(d, e)
BY LaterZelf DEF Verwijst, ZonderIncident, Later, Elders

LEMMA TrajectenGroeien ==
  ASSUME NEW d \in Dienst, Verwijst(d), NEW e \in Dienst, Elders(d, e),
         e.aanbestedingen = d.aanbestedingen, TrajectenVerder(d.trajecten, e.trajecten),
         \A t \in DOMAIN e.trajecten : e.trajecten[t].incident \in DOMAIN d.incidenten
  PROVE  Verwijst(e) /\ Later(d, e)
BY LaterZelf DEF Verwijst, ZonderIncident, Later, Elders

LEMMA PubliceerKlopt ==
  ASSUME NEW d \in Dienst, Verwijst(d), NEW demo \in BOOLEAN
  PROVE  LET a == Publiceer(d, demo)
         IN  /\ Behoudt(d, a) /\ a.klasse = "ok"
             /\ a.id = Len(d.aanbestedingen) + 1 /\ a.id \in DOMAIN a.na.aanbestedingen
             /\ a.na.aanbestedingen[a.id] = [demo |-> demo, inschrijving |-> FALSE, gegund |-> FALSE]
             /\ \A k \in DOMAIN d.aanbestedingen : a.na.aanbestedingen[k] = d.aanbestedingen[k]
<1> DEFINE nieuw == [demo |-> demo, inschrijving |-> FALSE, gegund |-> FALSE]
           rij == Append(d.aanbestedingen, nieuw)
           e == [d EXCEPT !.aanbestedingen = rij]
<1>1. d.aanbestedingen \in Seq(Inkoop) /\ nieuw \in Inkoop
  BY DEF Dienst, Inkoop
<1>2. Publiceer(d, demo) = Antwoord(e, "ok", Len(d.aanbestedingen) + 1)
  BY DEF Publiceer
<1>3. e.aanbestedingen = rij /\ e.trajecten = d.trajecten /\ Elders(d, e)
  BY DEF Dienst, Elders, ZonderIncident
<1> HIDE DEF nieuw
<1>4. /\ rij \in Seq(Inkoop) /\ Len(rij) = Len(d.aanbestedingen) + 1 /\ Len(rij) \in Nat
      /\ rij[Len(rij)] = nieuw /\ \A k \in DOMAIN d.aanbestedingen : rij[k] = d.aanbestedingen[k]
  BY <1>1
<1>5. e \in Dienst
  BY <1>4 DEF Dienst
<1>6. Len(rij) \in DOMAIN rij
  BY <1>1, <1>4
<1>7. InkoopVerder(d.aanbestedingen, rij)
  BY <1>1, <1>4 DEF InkoopVerder
<1> HIDE DEF e, rij
<1>8. Verwijst(e) /\ Later(d, e)
  BY <1>3, <1>5, <1>7, InkoopGroeit
<1> QED BY <1>2, <1>3, <1>4, <1>5, <1>6, <1>8, AntwoordKlopt DEF Antwoord, nieuw

LEMMA SchrijfInKlopt ==
  ASSUME NEW d \in Dienst, Verwijst(d), NEW a \in Nat
  PROVE  /\ Behoudt(d, SchrijfIn(d, a)) /\ SchrijfIn(d, a).klasse # "conflict"
         /\ a \in DOMAIN d.aanbestedingen /\ ~d.aanbestedingen[a].gegund => SchrijfIn(d, a).klasse = "ok"
         /\ \A k \in DOMAIN d.aanbestedingen :
              SchrijfIn(d, a).na.aanbestedingen[k].gegund = d.aanbestedingen[k].gegund
<1>1. CASE ~(a \in DOMAIN d.aanbestedingen /\ ~d.aanbestedingen[a].gegund)
  BY <1>1, WeigertZonderMeer DEF SchrijfIn, Weigering, Antwoord
<1>2. CASE a \in DOMAIN d.aanbestedingen /\ ~d.aanbestedingen[a].gegund
  <2> DEFINE r == [d.aanbestedingen[a] EXCEPT !.inschrijving = TRUE]
             rij == [d.aanbestedingen EXCEPT ![a] = r]
             e == [d EXCEPT !.aanbestedingen = rij]
  <2>1. SchrijfIn(d, a) = Antwoord(e, "ok", Geen)
    BY <1>2 DEF SchrijfIn, Gelukt
  <2>2. d.aanbestedingen \in Seq(Inkoop) /\ d.aanbestedingen[a] \in Inkoop
    BY <1>2 DEF Dienst
  <2>3. r \in Inkoop /\ r.demo = d.aanbestedingen[a].demo /\ r.gegund = d.aanbestedingen[a].gegund
    BY <1>2, <2>2 DEF Inkoop
  <2>4. e.aanbestedingen = rij /\ e.trajecten = d.trajecten /\ Elders(d, e)
    BY DEF Dienst, Elders, ZonderIncident
  <2> HIDE DEF r
  <2>5. /\ rij \in Seq(Inkoop) /\ Len(rij) = Len(d.aanbestedingen) /\ Len(rij) \in Nat
        /\ \A k \in DOMAIN d.aanbestedingen : rij[k] = IF k = a THEN r ELSE d.aanbestedingen[k]
    BY <1>2, <2>2, <2>3
  <2>6. \A k \in DOMAIN d.aanbestedingen :
          rij[k].demo = d.aanbestedingen[k].demo /\ rij[k].gegund = d.aanbestedingen[k].gegund
    BY <1>2, <2>3, <2>5
  <2>7. e \in Dienst
    BY <2>5 DEF Dienst
  <2>8. InkoopVerder(d.aanbestedingen, rij)
    <3> HIDE DEF rij
    <3> QED BY <2>5, <2>6 DEF InkoopVerder
  <2> HIDE DEF e, rij
  <2>9. Verwijst(e) /\ Later(d, e)
    BY <2>4, <2>7, <2>8, InkoopGroeit
  <2> QED BY <1>2, <2>1, <2>4, <2>6, <2>7, <2>9, AntwoordKlopt DEF Antwoord, Geen
<1> QED BY <1>1, <1>2

LEMMA GunKlopt ==
  ASSUME NEW d \in Dienst, Verwijst(d), NEW a \in Nat
  PROVE  /\ Behoudt(d, Gun(d, a)) /\ Gun(d, a).klasse # "conflict"
         /\ Gun(d, a).klasse = "ok" =>
              /\ Gun(d, a).id = a /\ a \in DOMAIN Gun(d, a).na.aanbestedingen
              /\ Gun(d, a).na.aanbestedingen[a].gegund
         /\ \A k \in DOMAIN d.aanbestedingen :
              k # a => Gun(d, a).na.aanbestedingen[k].gegund = d.aanbestedingen[k].gegund
<1>1. CASE ~Gunbaar(d, a)
  BY <1>1, WeigertZonderMeer DEF Gun, Weigering, Antwoord
<1>2. CASE Gunbaar(d, a)
  <2> DEFINE r == [d.aanbestedingen[a] EXCEPT !.gegund = TRUE]
             rij == [d.aanbestedingen EXCEPT ![a] = r]
             b == Bericht("gegund", "onderhoud", a)
             bus == IF d.aanbestedingen[a].demo THEN d.bus \cup {b} ELSE d.bus
             e == [d EXCEPT !.aanbestedingen = rij, !.bus = bus]
  <2>1. Gun(d, a) = Antwoord(e, "ok", a)
    BY <1>2 DEF Gun
  <2>2. /\ d.aanbestedingen \in Seq(Inkoop) /\ d.bus \in SUBSET Bezorgbaar /\ a \in DOMAIN d.aanbestedingen
        /\ d.aanbestedingen[a] \in Inkoop
    BY <1>2 DEF Dienst, Gunbaar
  <2>3. r \in Inkoop /\ r.demo = d.aanbestedingen[a].demo /\ r.gegund
    BY <2>2 DEF Inkoop
  <2>4. b \in Bezorgbaar /\ b.soort # "incident"
    BY DEF Bericht, Bezorgbaar
  <2> HIDE DEF b
  <2>5. bus \in SUBSET Bezorgbaar /\ ZonderIncident(d, bus)
    BY <2>2, <2>4 DEF ZonderIncident
  <2> HIDE DEF bus, r
  <2>6. e.aanbestedingen = rij /\ e.trajecten = d.trajecten /\ Elders(d, e)
    BY <2>5 DEF Dienst, Elders
  <2>7. /\ rij \in Seq(Inkoop) /\ Len(rij) = Len(d.aanbestedingen) /\ Len(rij) \in Nat
        /\ a \in DOMAIN rij
        /\ \A k \in DOMAIN d.aanbestedingen : rij[k] = IF k = a THEN r ELSE d.aanbestedingen[k]
    BY <2>2, <2>3
  <2>8. e \in Dienst
    BY <2>5, <2>7 DEF Dienst
  <2> HIDE DEF rij, e
  <2>9. \A k \in DOMAIN d.aanbestedingen :
          /\ rij[k].demo = d.aanbestedingen[k].demo
          /\ k # a => rij[k].gegund = d.aanbestedingen[k].gegund
    BY <2>2, <2>3, <2>7
  <2>10. rij[a].gegund
    BY <2>2, <2>3, <2>7
  <2>11. InkoopVerder(d.aanbestedingen, rij)
    BY <2>7, <2>9, <2>10 DEF InkoopVerder
  <2>12. Verwijst(e) /\ Later(d, e)
    BY <2>6, <2>8, <2>11, InkoopGroeit
  <2> QED BY <2>1, <2>6, <2>7, <2>8, <2>9, <2>10, <2>12, AntwoordKlopt DEF Antwoord
<1> QED BY <1>1, <1>2

LEMMA VerklaarKlopt ==
  ASSUME NEW d \in Dienst, Verwijst(d), NEW c \in Nat
  PROVE  /\ Behoudt(d, VerklaarPrestatie(d, c)) /\ VerklaarPrestatie(d, c).klasse # "conflict"
         /\ VerklaarPrestatie(d, c).klasse = "ok" => c \in VerklaarPrestatie(d, c).na.verklaringen
<1> DEFINE kan == c \in DOMAIN d.aanbestedingen /\ d.aanbestedingen[c].gegund /\ d.kpi
<1>1. CASE ~kan
  BY <1>1, WeigertZonderMeer DEF VerklaarPrestatie, Weigering, Antwoord
<1>2. CASE kan
  <2> DEFINE e == [d EXCEPT !.verklaringen = @ \cup {c}]
  <2>1. VerklaarPrestatie(d, c) = Antwoord(e, "ok", Geen)
    BY <1>2 DEF VerklaarPrestatie, Gelukt
  <2>2. e \in Dienst /\ c \in e.verklaringen
    BY DEF Dienst
  <2>3. Verwijst(e) /\ Later(d, e)
    BY <2>2, GroeitVanzelf DEF Dienst, ZonderIncident
  <2> HIDE DEF e
  <2> QED BY <2>1, <2>2, <2>3, AntwoordKlopt DEF Antwoord, Geen
<1> QED BY <1>1, <1>2

\* A traject that is not Afgerond yet gets on.
LEMMA TrajectGaatVerder ==
  ASSUME NEW d \in Dienst, Verwijst(d), NEW t \in DOMAIN d.trajecten,
         d.trajecten[t].status # "Afgerond", NEW r \in Traject, r.incident = d.trajecten[t].incident
  PROVE  LET rij == [d.trajecten EXCEPT ![t] = r]
         IN  /\ rij \in Seq(Traject) /\ TrajectenVerder(d.trajecten, rij)
             /\ t \in DOMAIN rij /\ rij[t] = r
             /\ \A k \in DOMAIN rij : rij[k].incident \in DOMAIN d.incidenten
<1> DEFINE rij == [d.trajecten EXCEPT ![t] = r]
<1>1. d.trajecten \in Seq(Traject)
  BY DEF Dienst
<1>2. /\ rij \in Seq(Traject) /\ Len(rij) = Len(d.trajecten) /\ DOMAIN rij = DOMAIN d.trajecten
      /\ Len(rij) \in Nat
      /\ \A k \in DOMAIN d.trajecten : rij[k] = IF k = t THEN r ELSE d.trajecten[k]
  BY <1>1
<1> HIDE DEF rij
<1>3. \A k \in DOMAIN rij : rij[k].incident \in DOMAIN d.incidenten
  BY <1>2 DEF Verwijst
<1>4. TrajectenVerder(d.trajecten, rij)
  BY <1>2 DEF TrajectenVerder
<1> QED BY <1>2, <1>3, <1>4 DEF rij

LEMMA StartKlopt ==
  ASSUME NEW d \in Dienst, Verwijst(d), NEW t \in Nat
  PROVE  Behoudt(d, Start(d, t)) /\ Start(d, t).klasse # "conflict"
<1> DEFINE kan == Heeft(d, t, "Gepland") /\ (Streng => d.geldend)
<1>1. CASE ~kan
  BY <1>1, WeigertZonderMeer DEF Start, Weigering, Antwoord
<1>2. CASE kan
  <2> DEFINE r == [d.trajecten[t] EXCEPT !.status = "Gestart"]
             rij == [d.trajecten EXCEPT ![t] = r]
             e == [d EXCEPT !.trajecten = rij]
  <2>1. Start(d, t) = Antwoord(e, "ok", Geen)
    BY <1>2 DEF Start, Gelukt
  <2>2. /\ d.trajecten \in Seq(Traject) /\ d.bus \in SUBSET Bezorgbaar /\ t \in DOMAIN d.trajecten
        /\ d.trajecten[t] \in Traject /\ d.trajecten[t].status = "Gepland"
    BY <1>2 DEF Dienst, Heeft
  <2>3. r \in Traject /\ r.incident = d.trajecten[t].incident
    BY <2>2 DEF Traject
  <2>5. ZonderIncident(d, d.bus)
    BY DEF ZonderIncident
  <2> HIDE DEF r
  <2>6. /\ rij \in Seq(Traject) /\ TrajectenVerder(d.trajecten, rij)
        /\ t \in DOMAIN rij /\ rij[t] = r
        /\ \A k \in DOMAIN rij : rij[k].incident \in DOMAIN d.incidenten
    BY <2>2, <2>3, TrajectGaatVerder
  <2> HIDE DEF rij
  <2>7. e \in Dienst /\ e.trajecten = rij /\ e.aanbestedingen = d.aanbestedingen /\ Elders(d, e)
    BY <2>5, <2>6 DEF Dienst, Elders
  <2> HIDE DEF e
  <2>8. Verwijst(e) /\ Later(d, e)
    BY <2>6, <2>7, TrajectenGroeien
  <2> QED BY <2>1, <2>3, <2>6, <2>7, <2>8, AntwoordKlopt DEF Antwoord, Geen
<1> QED BY <1>1, <1>2

LEMMA InspecteerKlopt ==
  ASSUME NEW d \in Dienst, Verwijst(d), NEW t \in Nat
  PROVE  Behoudt(d, Inspecteer(d, t)) /\ Inspecteer(d, t).klasse # "conflict"
<1>1. CASE ~Heeft(d, t, "Gestart")
  BY <1>1, WeigertZonderMeer DEF Inspecteer, Weigering, Antwoord
<1>2. CASE Heeft(d, t, "Gestart")
  <2> DEFINE r == [d.trajecten[t] EXCEPT !.inspectie = TRUE]
             rij == [d.trajecten EXCEPT ![t] = r]
             e == [d EXCEPT !.trajecten = rij]
  <2>1. Inspecteer(d, t) = Antwoord(e, "ok", Geen)
    BY <1>2 DEF Inspecteer, Gelukt
  <2>2. /\ d.trajecten \in Seq(Traject) /\ d.bus \in SUBSET Bezorgbaar /\ t \in DOMAIN d.trajecten
        /\ d.trajecten[t] \in Traject /\ d.trajecten[t].status = "Gestart"
    BY <1>2 DEF Dienst, Heeft
  <2>3. r \in Traject /\ r.incident = d.trajecten[t].incident
    BY <2>2 DEF Traject
  <2>5. ZonderIncident(d, d.bus)
    BY DEF ZonderIncident
  <2> HIDE DEF r
  <2>6. /\ rij \in Seq(Traject) /\ TrajectenVerder(d.trajecten, rij)
        /\ t \in DOMAIN rij /\ rij[t] = r
        /\ \A k \in DOMAIN rij : rij[k].incident \in DOMAIN d.incidenten
    BY <2>2, <2>3, TrajectGaatVerder
  <2> HIDE DEF rij
  <2>7. e \in Dienst /\ e.trajecten = rij /\ e.aanbestedingen = d.aanbestedingen /\ Elders(d, e)
    BY <2>5, <2>6 DEF Dienst, Elders
  <2> HIDE DEF e
  <2>8. Verwijst(e) /\ Later(d, e)
    BY <2>6, <2>7, TrajectenGroeien
  <2> QED BY <2>1, <2>3, <2>6, <2>7, <2>8, AntwoordKlopt DEF Antwoord, Geen
<1> QED BY <1>1, <1>2

LEMMA RondAfKlopt ==
  ASSUME NEW d \in Dienst, Verwijst(d), NEW t \in Nat
  PROVE  /\ Behoudt(d, RondAf(d, t)) /\ RondAf(d, t).klasse # "conflict"
         /\ RondAf(d, t).klasse = "ok" =>
              t \in DOMAIN RondAf(d, t).na.trajecten /\ RondAf(d, t).na.trajecten[t].status = "Afgerond"
<1> DEFINE kan == Heeft(d, t, "Gestart") /\ d.trajecten[t].inspectie
<1>1. CASE ~kan
  BY <1>1, WeigertZonderMeer DEF RondAf, Weigering, Antwoord
<1>2. CASE kan
  <2> DEFINE r == [d.trajecten[t] EXCEPT !.status = "Afgerond"]
             rij == [d.trajecten EXCEPT ![t] = r]
             b == Bericht("afgerond", "beheer", t)
             bus == d.bus \cup {b}
             e == [d EXCEPT !.trajecten = rij, !.bus = bus]
  <2>1. RondAf(d, t) = Antwoord(e, "ok", Geen)
    BY <1>2 DEF RondAf, Gelukt
  <2>2. /\ d.trajecten \in Seq(Traject) /\ d.bus \in SUBSET Bezorgbaar /\ t \in DOMAIN d.trajecten
        /\ d.trajecten[t] \in Traject /\ d.trajecten[t].status = "Gestart"
    BY <1>2 DEF Dienst, Heeft
  <2>3. r \in Traject /\ r.incident = d.trajecten[t].incident /\ r.status = "Afgerond"
    BY <2>2 DEF Traject
  <2>4. b \in Bezorgbaar /\ b.soort # "incident"
    BY DEF Bericht, Bezorgbaar
  <2> HIDE DEF b
  <2>5. bus \in SUBSET Bezorgbaar /\ ZonderIncident(d, bus)
    BY <2>2, <2>4 DEF ZonderIncident
  <2> HIDE DEF bus, r
  <2>6. /\ rij \in Seq(Traject) /\ TrajectenVerder(d.trajecten, rij)
        /\ t \in DOMAIN rij /\ rij[t] = r
        /\ \A k \in DOMAIN rij : rij[k].incident \in DOMAIN d.incidenten
    BY <2>2, <2>3, TrajectGaatVerder
  <2> HIDE DEF rij
  <2>7. e \in Dienst /\ e.trajecten = rij /\ e.aanbestedingen = d.aanbestedingen /\ Elders(d, e)
    BY <2>5, <2>6 DEF Dienst, Elders
  <2> HIDE DEF e
  <2>8. Verwijst(e) /\ Later(d, e)
    BY <2>6, <2>7, TrajectenGroeien
  <2> QED BY <2>1, <2>3, <2>6, <2>7, <2>8, AntwoordKlopt DEF Antwoord, Geen
<1> QED BY <1>1, <1>2

\* What a delivery changes.
LEMMA BezorgdKlopt ==
  ASSUME NEW d \in Dienst, Verwijst(d), NEW b \in d.bus
  PROVE  /\ Bezorgd(d, b) \in Dienst /\ Verwijst(Bezorgd(d, b)) /\ Later(d, Bezorgd(d, b))
         /\ Bezorgd(d, b).incidenten = d.incidenten /\ Bezorgd(d, b).aanbestedingen = d.aanbestedingen
<1> DEFINE e == Bezorgd(d, b)
           r == [d EXCEPT !.bus = @ \ {b}]
<1>1. /\ b \in Bezorgbaar
      /\ b.soort \in {"kunstwerk", "incident", "gegund"} \/ (b.soort \in {"rapport", "afgerond"})
  BY DEF Dienst, Bezorgbaar
<1>2. /\ r \in Dienst /\ r.bus = d.bus \ {b} /\ Elders(d, r) /\ r.trajecten = d.trajecten
      /\ r.aanbestedingen = d.aanbestedingen
  BY DEF Dienst, Elders, ZonderIncident
<1>3. e = CASE b.soort = "kunstwerk" -> [r EXCEPT !.kent = @ \cup {b.naar}]
            [] b.soort = "incident"  ->
                 [r EXCEPT !.trajecten = Append(@, [incident |-> b.id, status |-> "Gepland", inspectie |-> FALSE])]
            [] b.soort = "gegund"    -> [r EXCEPT !.geldend = TRUE]
            [] b.soort = "rapport" /\ b.naar = "contract" -> [r EXCEPT !.kpi = TRUE]
            [] b.naar = "beheer"     ->
                 IF d.kunstwerk THEN [r EXCEPT !.beoordelingen = @ \cup {b.soort}] ELSE r
  BY DEF Bezorgd
<1> HIDE DEF e, r
<1>4. CASE b.soort = "incident"
  <2> DEFINE nieuw == [incident |-> b.id, status |-> "Gepland", inspectie |-> FALSE]
             rij == Append(r.trajecten, nieuw)
  <2>1. e = [r EXCEPT !.trajecten = rij]
    BY <1>1, <1>3, <1>4 DEF Bezorgbaar
  <2>2. d.trajecten \in Seq(Traject) /\ b.id \in DOMAIN d.incidenten
    BY <1>4 DEF Dienst, Verwijst
  <2>3. nieuw \in Traject /\ nieuw.incident = b.id
    BY <1>1 DEF Traject, Bezorgbaar
  <2> HIDE DEF nieuw
  <2>4. /\ rij \in Seq(Traject) /\ Len(rij) = Len(d.trajecten) + 1
        /\ DOMAIN rij = 1 .. Len(rij) /\ DOMAIN d.trajecten = 1 .. Len(d.trajecten) /\ Len(d.trajecten) \in Nat
        /\ \A k \in DOMAIN d.trajecten : rij[k] = d.trajecten[k]
        /\ rij[Len(rij)] = nieuw
    BY <1>2, <2>2, <2>3
  <2> HIDE DEF rij
  <2>5. \A k \in DOMAIN rij : rij[k].incident \in DOMAIN d.incidenten
    <3> SUFFICES ASSUME NEW k \in DOMAIN rij PROVE rij[k].incident \in DOMAIN d.incidenten
      OBVIOUS
    <3>1. k \in DOMAIN d.trajecten \/ k = Len(rij)
      BY <2>4
    <3> QED BY <3>1, <2>2, <2>3, <2>4 DEF Verwijst
  <2>6. TrajectenVerder(d.trajecten, rij)
    BY <2>4 DEF TrajectenVerder
  <2>7. e \in Dienst /\ e.trajecten = rij /\ e.aanbestedingen = d.aanbestedingen /\ Elders(d, e)
    BY <1>2, <2>1, <2>4 DEF Dienst, Elders
  <2>8. Verwijst(e) /\ Later(d, e)
    BY <2>5, <2>6, <2>7, TrajectenGroeien
  <2> QED BY <2>7, <2>8 DEF e, Elders
<1>5. CASE b.soort # "incident"
  <2>1. \/ b.soort = "kunstwerk" /\ b.naar \in {"monitoring", "contract"}
        \/ b.soort = "gegund" /\ b.naar = "onderhoud"
        \/ b.soort = "rapport" /\ b.naar = "contract"
        \/ b.soort \in {"rapport", "afgerond"} /\ b.naar = "beheer"
    BY <1>1, <1>5 DEF Bezorgbaar
  <2>2. \/ b.naar \in {"monitoring", "contract"} /\ e = [r EXCEPT !.kent = @ \cup {b.naar}]
        \/ e = [r EXCEPT !.geldend = TRUE]
        \/ e = [r EXCEPT !.kpi = TRUE]
        \/ b.soort \in {"rapport", "afgerond"} /\ e = [r EXCEPT !.beoordelingen = @ \cup {b.soort}]
        \/ e = r
    BY <1>3, <2>1
  <2>3. /\ e \in Dienst /\ Elders(d, e)
        /\ e.trajecten = d.trajecten /\ e.aanbestedingen = d.aanbestedingen
    <3>1. CASE b.naar \in {"monitoring", "contract"} /\ e = [r EXCEPT !.kent = @ \cup {b.naar}]
      BY <1>2, <3>1 DEF Dienst, Elders
    <3>2. CASE e = [r EXCEPT !.geldend = TRUE]
      BY <1>2, <3>2 DEF Dienst, Elders
    <3>4. CASE e = [r EXCEPT !.kpi = TRUE]
      BY <1>2, <3>4 DEF Dienst, Elders
    <3>5. CASE e = r
      BY <1>2, <3>5 DEF Dienst, Elders
    <3>3. CASE b.soort \in {"rapport", "afgerond"} /\ e = [r EXCEPT !.beoordelingen = @ \cup {b.soort}]
      BY <1>2, <3>3 DEF Dienst, Elders
    <3> QED BY <2>2, <3>1, <3>2, <3>3, <3>4, <3>5
  <2>4. Verwijst(e) /\ Later(d, e)
    BY <2>3, LaterZelf, InkoopGroeit DEF Later
  <2> QED BY <2>3, <2>4 DEF e, Elders
<1> QED BY <1>4, <1>5

-----------------------------------------------------------------------------
(* Demoroute: the steps.  What the proofs need of the two scripts.         *)

Wensen == {"registreer", "onderhoudseisen", "ontwerpeisen", "sessie", "metingLaag", "metingHoog", "oplossing",
           "rapport", "aanbesteding", "onbekende", "inschrijving", "gunning", "verklaring", "start",
           "inspectie", "afronden"}
Lijsten == {"kunstwerken", "eisen", "sessies", "incidenten", "trajecten", "netwerkrapportages",
            "onderhoudsrapporten"}
Ids == {"incident", "onderhoud", "contract"}

\* Request `v` is the i-th of the `len` of step n.
PastBij(n, i, len, v) ==
  /\ v.wat \in Wensen \cup Lijsten
  /\ v.bij \in {"wacht", "lees"} <=> v.wat \in Lijsten
  /\ v.bij = "lees" => pagina = "sven" /\ v.wat \in {"incidenten", "netwerkrapportages"}
  /\ v.bij = "bestaat" => v.wat = "registreer"
  /\ v.bij = "herhaal" => v.wat = "sessie"
  /\ v.bij = "weiger" <=> n = 11
  /\ v.ref \in Ids \cup {"eigen", "geen"}
  /\ v.ref = "eigen" <=> v.wat \in {"aanbesteding", "onbekende"}
  /\ v.ref = "incident" <=> v.wat = "incidenten"
  /\ v.ref = "onderhoud" <=> v.wat = "trajecten"
  /\ v.ref = "contract" <=> v.wat = "gunning" /\ n = 6
  /\ v.ref \in Ids => i = len
  /\ v.wat = "incidenten" <=> n = 4 /\ i = 3
  /\ v.wat = "metingHoog" <=> n = 4 /\ i = 2
  /\ v.wat = "trajecten" => n = 5
  /\ v.wat = "aanbesteding" <=> n = 6 /\ i = 1
  /\ v.wat = "onbekende" <=> n = 11 /\ i = 1
  /\ v.wat = "gunning" <=> n \in {6, 11} /\ i = len
  /\ n \in {6, 11} => len > 1
  /\ n = 11 => v.wat \in {"onbekende", "inschrijving", "gunning"}
  /\ v.wat = "verklaring" => n = 8
  /\ v.wat \in {"start", "inspectie", "afronden"} => n = 9
  /\ v.wat = "oplossing" => n = 10

\* Where the requests stand that build on one another.
PlaatsBij(n, i, v) ==
  /\ v.wat = "registreer" <=> n = 1 /\ i = 1
  /\ v.wat = "kunstwerken" => n = 1 /\ i = 2
  /\ v.wat = "onderhoudseisen" <=> n = 2 /\ i = 1
  /\ v.wat = "ontwerpeisen" <=> n = 2 /\ i = 2
  /\ v.wat = "eisen" => n = 2 /\ i = 3
  /\ v.wat = "sessie" <=> n = 3 /\ i = 1
  /\ v.wat = "sessies" => n = 3 /\ i = 2
  /\ v.wat = "metingLaag" => n = 4 /\ i = 1
  /\ v.wat = "trajecten" => i = 1
  /\ v.wat = "inschrijving" => n \in {6, 11}
  /\ v.wat = "inschrijving" /\ n = 6 <=> n = 6 /\ i \in {2, 3}
  /\ v.wat = "gunning" /\ n = 6 <=> n = 6 /\ i = 4
  /\ v.wat = "rapport" <=> n = 7 /\ i = 1
  /\ v.wat = "netwerkrapportages" => n = 7 /\ i = 2
  /\ v.wat = "verklaring" => i = 1
  /\ v.wat = "start" <=> n = 9 /\ i = 1
  /\ v.wat = "inspectie" <=> n = 9 /\ i = 2
  /\ v.wat = "afronden" <=> n = 9 /\ i = 3
  /\ v.wat = "onderhoudsrapporten" => n = 9 /\ i = 4
  /\ v.wat = "oplossing" <=> n = 10 /\ i = 1

Watten(n) == {Draaiboek[n][i].wat : i \in DOMAIN Draaiboek[n]}

LEMMA DraaiboekPast ==
  ASSUME pagina \in Paginas, NEW n \in Stappen
  PROVE  /\ Len(Draaiboek[n]) \in Nat \ {0} /\ DOMAIN Draaiboek[n] = 1 .. Len(Draaiboek[n])
         /\ \A i \in DOMAIN Draaiboek[n] : PastBij(n, i, Len(Draaiboek[n]), Draaiboek[n][i])
         /\ \A i \in DOMAIN Draaiboek[n] : PlaatsBij(n, i, Draaiboek[n][i])
<1> USE DEF PastBij, PlaatsBij, Wensen, Lijsten, Ids, Eis, Leest, Vraag, Aanbesteed, Gunt, Onbekende
<1>1. pagina = "regiekamer" => Draaiboek = Regiekamer
  BY DEF Draaiboek
<1>2. pagina = "sven" => Draaiboek = Sven
  BY DEF Draaiboek, Paginas
<1>3. pagina = "regiekamer" \/ pagina = "sven"
  BY DEF Paginas
<1>4. CASE n = 1
  <2>1. CASE pagina = "regiekamer"
    <3>1. Draaiboek[n] = RegiekamerStap1
      BY <1>1, <1>4, <2>1 DEF Regiekamer
    <3> QED BY <1>4, <2>1, <3>1 DEF RegiekamerStap1
  <2>2. CASE pagina = "sven"
    <3>1. Draaiboek[n] = SvenStap1
      BY <1>2, <1>4, <2>2 DEF Sven
    <3> QED BY <1>4, <2>2, <3>1 DEF SvenStap1
  <2> QED BY <1>3, <2>1, <2>2
<1>5. CASE n = 2
  <2>1. CASE pagina = "regiekamer"
    <3>1. Draaiboek[n] = RegiekamerStap2
      BY <1>1, <1>5, <2>1 DEF Regiekamer
    <3> QED BY <1>5, <2>1, <3>1 DEF RegiekamerStap2
  <2>2. CASE pagina = "sven"
    <3>1. Draaiboek[n] = SvenStap2
      BY <1>2, <1>5, <2>2 DEF Sven
    <3> QED BY <1>5, <2>2, <3>1 DEF SvenStap2
  <2> QED BY <1>3, <2>1, <2>2
<1>6. CASE n = 3
  <2>1. CASE pagina = "regiekamer"
    <3>1. Draaiboek[n] = RegiekamerStap3
      BY <1>1, <1>6, <2>1 DEF Regiekamer
    <3> QED BY <1>6, <2>1, <3>1 DEF RegiekamerStap3
  <2>2. CASE pagina = "sven"
    <3>1. Draaiboek[n] = SvenStap3
      BY <1>2, <1>6, <2>2 DEF Sven
    <3> QED BY <1>6, <2>2, <3>1 DEF SvenStap3
  <2> QED BY <1>3, <2>1, <2>2
<1>7. CASE n = 4
  <2>1. CASE pagina = "regiekamer"
    <3>1. Draaiboek[n] = RegiekamerStap4
      BY <1>1, <1>7, <2>1 DEF Regiekamer
    <3> QED BY <1>7, <2>1, <3>1 DEF RegiekamerStap4
  <2>2. CASE pagina = "sven"
    <3>1. Draaiboek[n] = SvenStap4
      BY <1>2, <1>7, <2>2 DEF Sven
    <3> QED BY <1>7, <2>2, <3>1 DEF SvenStap4
  <2> QED BY <1>3, <2>1, <2>2
<1>8. CASE n = 5
  <2>1. CASE pagina = "regiekamer"
    <3>1. Draaiboek[n] = RegiekamerStap5
      BY <1>1, <1>8, <2>1 DEF Regiekamer
    <3> QED BY <1>8, <2>1, <3>1 DEF RegiekamerStap5
  <2>2. CASE pagina = "sven"
    <3>1. Draaiboek[n] = SvenStap5
      BY <1>2, <1>8, <2>2 DEF Sven
    <3> QED BY <1>8, <2>2, <3>1 DEF SvenStap5
  <2> QED BY <1>3, <2>1, <2>2
<1>9. CASE n = 6
  <2>1. CASE pagina = "regiekamer"
    <3>1. Draaiboek[n] = RegiekamerStap6
      BY <1>1, <1>9, <2>1 DEF Regiekamer
    <3> QED BY <1>9, <2>1, <3>1 DEF RegiekamerStap6
  <2>2. CASE pagina = "sven"
    <3>1. Draaiboek[n] = SvenStap6
      BY <1>2, <1>9, <2>2 DEF Sven
    <3> QED BY <1>9, <2>2, <3>1 DEF SvenStap6
  <2> QED BY <1>3, <2>1, <2>2
<1>10. CASE n = 7
  <2>1. CASE pagina = "regiekamer"
    <3>1. Draaiboek[n] = RegiekamerStap7
      BY <1>1, <1>10, <2>1 DEF Regiekamer
    <3> QED BY <1>10, <2>1, <3>1 DEF RegiekamerStap7
  <2>2. CASE pagina = "sven"
    <3>1. Draaiboek[n] = SvenStap7
      BY <1>2, <1>10, <2>2 DEF Sven
    <3> QED BY <1>10, <2>2, <3>1 DEF SvenStap7
  <2> QED BY <1>3, <2>1, <2>2
<1>11. CASE n = 8
  <2>1. CASE pagina = "regiekamer"
    <3>1. Draaiboek[n] = RegiekamerStap8
      BY <1>1, <1>11, <2>1 DEF Regiekamer
    <3> QED BY <1>11, <2>1, <3>1 DEF RegiekamerStap8
  <2>2. CASE pagina = "sven"
    <3>1. Draaiboek[n] = SvenStap8
      BY <1>2, <1>11, <2>2 DEF Sven
    <3> QED BY <1>11, <2>2, <3>1 DEF SvenStap8
  <2> QED BY <1>3, <2>1, <2>2
<1>12. CASE n = 9
  <2>1. CASE pagina = "regiekamer"
    <3>1. Draaiboek[n] = RegiekamerStap9
      BY <1>1, <1>12, <2>1 DEF Regiekamer
    <3> QED BY <1>12, <2>1, <3>1 DEF RegiekamerStap9
  <2>2. CASE pagina = "sven"
    <3>1. Draaiboek[n] = SvenStap9
      BY <1>2, <1>12, <2>2 DEF Sven
    <3> QED BY <1>12, <2>2, <3>1 DEF SvenStap9
  <2> QED BY <1>3, <2>1, <2>2
<1>13. CASE n = 10
  <2>1. CASE pagina = "regiekamer"
    <3>1. Draaiboek[n] = RegiekamerStap10
      BY <1>1, <1>13, <2>1 DEF Regiekamer
    <3> QED BY <1>13, <2>1, <3>1 DEF RegiekamerStap10
  <2>2. CASE pagina = "sven"
    <3>1. Draaiboek[n] = SvenStap10
      BY <1>2, <1>13, <2>2 DEF Sven
    <3> QED BY <1>13, <2>2, <3>1 DEF SvenStap10
  <2> QED BY <1>3, <2>1, <2>2
<1>14. CASE n = 11
  <2>1. CASE pagina = "regiekamer"
    <3>1. Draaiboek[n] = RegiekamerStap11
      BY <1>1, <1>14, <2>1 DEF Regiekamer
    <3> QED BY <1>14, <2>1, <3>1 DEF RegiekamerStap11
  <2>2. CASE pagina = "sven"
    <3>1. Draaiboek[n] = SvenStap11
      BY <1>2, <1>14, <2>2 DEF Sven
    <3> QED BY <1>14, <2>2, <3>1 DEF SvenStap11
  <2> QED BY <1>3, <2>1, <2>2
<1>15. n \in {1, 2, 3, 4, 5, 6, 7, 8, 9, 10, 11}
  BY DEF Stappen
<1> HIDE DEF PastBij, PlaatsBij
<1> QED BY <1>4, <1>5, <1>6, <1>7, <1>8, <1>9, <1>10, <1>11, <1>12, <1>13, <1>14, <1>15

LEMMA WattenPast ==
  ASSUME pagina \in Paginas
  PROVE  /\ "registreer" \in Watten(1)
         /\ {"onderhoudseisen", "ontwerpeisen"} \subseteq Watten(2)
         /\ "sessie" \in Watten(3)
         /\ {"metingHoog", "incidenten"} \subseteq Watten(4)
         /\ "trajecten" \in Watten(5)
         /\ {"aanbesteding", "gunning"} \subseteq Watten(6)
         /\ {"rapport", "netwerkrapportages"} \subseteq Watten(7)
         /\ "verklaring" \in Watten(8)
         /\ "afronden" \in Watten(9)
         /\ pagina = "regiekamer" => "onderhoudsrapporten" \in Watten(9)
         /\ "oplossing" \in Watten(10)
<1> USE DEF Wensen, Lijsten, Ids, Eis, Leest, Vraag, Aanbesteed, Gunt, Onbekende
<1>1. pagina = "regiekamer" => Draaiboek = Regiekamer
  BY DEF Draaiboek
<1>2. pagina = "sven" => Draaiboek = Sven
  BY DEF Draaiboek, Paginas
<1>3. pagina = "regiekamer" \/ pagina = "sven"
  BY DEF Paginas
<1>4. "registreer" \in Watten(1)
  <2>1. CASE pagina = "regiekamer"
    <3>1. Draaiboek[1] = RegiekamerStap1
      BY <1>1, <2>1 DEF Regiekamer
    <3> QED BY <2>1, <3>1 DEF RegiekamerStap1, Watten
  <2>2. CASE pagina = "sven"
    <3>1. Draaiboek[1] = SvenStap1
      BY <1>2, <2>2 DEF Sven
    <3> QED BY <2>2, <3>1 DEF SvenStap1, Watten
  <2> QED BY <1>3, <2>1, <2>2
<1>5. {"onderhoudseisen", "ontwerpeisen"} \subseteq Watten(2)
  <2>1. CASE pagina = "regiekamer"
    <3>1. Draaiboek[2] = RegiekamerStap2
      BY <1>1, <2>1 DEF Regiekamer
    <3> QED BY <2>1, <3>1 DEF RegiekamerStap2, Watten
  <2>2. CASE pagina = "sven"
    <3>1. Draaiboek[2] = SvenStap2
      BY <1>2, <2>2 DEF Sven
    <3> QED BY <2>2, <3>1 DEF SvenStap2, Watten
  <2> QED BY <1>3, <2>1, <2>2
<1>6. "sessie" \in Watten(3)
  <2>1. CASE pagina = "regiekamer"
    <3>1. Draaiboek[3] = RegiekamerStap3
      BY <1>1, <2>1 DEF Regiekamer
    <3> QED BY <2>1, <3>1 DEF RegiekamerStap3, Watten
  <2>2. CASE pagina = "sven"
    <3>1. Draaiboek[3] = SvenStap3
      BY <1>2, <2>2 DEF Sven
    <3> QED BY <2>2, <3>1 DEF SvenStap3, Watten
  <2> QED BY <1>3, <2>1, <2>2
<1>7. {"metingHoog", "incidenten"} \subseteq Watten(4)
  <2>1. CASE pagina = "regiekamer"
    <3>1. Draaiboek[4] = RegiekamerStap4
      BY <1>1, <2>1 DEF Regiekamer
    <3> QED BY <2>1, <3>1 DEF RegiekamerStap4, Watten
  <2>2. CASE pagina = "sven"
    <3>1. Draaiboek[4] = SvenStap4
      BY <1>2, <2>2 DEF Sven
    <3> QED BY <2>2, <3>1 DEF SvenStap4, Watten
  <2> QED BY <1>3, <2>1, <2>2
<1>8. "trajecten" \in Watten(5)
  <2>1. CASE pagina = "regiekamer"
    <3>1. Draaiboek[5] = RegiekamerStap5
      BY <1>1, <2>1 DEF Regiekamer
    <3> QED BY <2>1, <3>1 DEF RegiekamerStap5, Watten
  <2>2. CASE pagina = "sven"
    <3>1. Draaiboek[5] = SvenStap5
      BY <1>2, <2>2 DEF Sven
    <3> QED BY <2>2, <3>1 DEF SvenStap5, Watten
  <2> QED BY <1>3, <2>1, <2>2
<1>9. {"aanbesteding", "gunning"} \subseteq Watten(6)
  <2>1. CASE pagina = "regiekamer"
    <3>1. Draaiboek[6] = RegiekamerStap6
      BY <1>1, <2>1 DEF Regiekamer
    <3> QED BY <2>1, <3>1 DEF RegiekamerStap6, Watten
  <2>2. CASE pagina = "sven"
    <3>1. Draaiboek[6] = SvenStap6
      BY <1>2, <2>2 DEF Sven
    <3> QED BY <2>2, <3>1 DEF SvenStap6, Watten
  <2> QED BY <1>3, <2>1, <2>2
<1>10. {"rapport", "netwerkrapportages"} \subseteq Watten(7)
  <2>1. CASE pagina = "regiekamer"
    <3>1. Draaiboek[7] = RegiekamerStap7
      BY <1>1, <2>1 DEF Regiekamer
    <3> QED BY <2>1, <3>1 DEF RegiekamerStap7, Watten
  <2>2. CASE pagina = "sven"
    <3>1. Draaiboek[7] = SvenStap7
      BY <1>2, <2>2 DEF Sven
    <3> QED BY <2>2, <3>1 DEF SvenStap7, Watten
  <2> QED BY <1>3, <2>1, <2>2
<1>11. "verklaring" \in Watten(8)
  <2>1. CASE pagina = "regiekamer"
    <3>1. Draaiboek[8] = RegiekamerStap8
      BY <1>1, <2>1 DEF Regiekamer
    <3> QED BY <2>1, <3>1 DEF RegiekamerStap8, Watten
  <2>2. CASE pagina = "sven"
    <3>1. Draaiboek[8] = SvenStap8
      BY <1>2, <2>2 DEF Sven
    <3> QED BY <2>2, <3>1 DEF SvenStap8, Watten
  <2> QED BY <1>3, <2>1, <2>2
<1>12. "afronden" \in Watten(9) /\ (pagina = "regiekamer" => "onderhoudsrapporten" \in Watten(9))
  <2>1. CASE pagina = "regiekamer"
    <3>1. Draaiboek[9] = RegiekamerStap9
      BY <1>1, <2>1 DEF Regiekamer
    <3> QED BY <2>1, <3>1 DEF RegiekamerStap9, Watten
  <2>2. CASE pagina = "sven"
    <3>1. Draaiboek[9] = SvenStap9
      BY <1>2, <2>2 DEF Sven
    <3> QED BY <2>2, <3>1 DEF SvenStap9, Watten
  <2> QED BY <1>3, <2>1, <2>2
<1>13. "oplossing" \in Watten(10)
  <2>1. CASE pagina = "regiekamer"
    <3>1. Draaiboek[10] = RegiekamerStap10
      BY <1>1, <2>1 DEF Regiekamer
    <3> QED BY <2>1, <3>1 DEF RegiekamerStap10, Watten
  <2>2. CASE pagina = "sven"
    <3>1. Draaiboek[10] = SvenStap10
      BY <1>2, <2>2 DEF Sven
    <3> QED BY <2>2, <3>1 DEF SvenStap10, Watten
  <2> QED BY <1>3, <2>1, <2>2
<1> QED BY <1>4, <1>5, <1>6, <1>7, <1>8, <1>9, <1>10, <1>11, <1>12, <1>13

-----------------------------------------------------------------------------
(* Demoroute: what a request brings about, and what a list shows.          *)

\* The rows that a request leaves alone.
LEMMA RijenBlijven ==
  ASSUME NEW d \in Dienst, NEW id \in Nat, NEW wat \in Wensen
  PROVE  /\ wat \notin {"aanbesteding", "onbekende", "inschrijving", "gunning"} =>
              Uitvoering(d, wat, id).na.aanbestedingen = d.aanbestedingen
         /\ wat \notin {"metingHoog", "oplossing"} =>
              Uitvoering(d, wat, id).na.incidenten = d.incidenten
<1>1. CASE wat \in {"registreer", "onderhoudseisen", "ontwerpeisen", "sessie", "metingLaag", "rapport"}
  BY <1>1 DEF Dienst, Uitvoering, Registreer, StelEisenVast, StartSessie, Meet, StelRapportOp,
              Antwoord, Gelukt, Weigering
<1>2. CASE wat \in {"start", "inspectie", "afronden", "verklaring"}
  BY <1>2 DEF Dienst, Uitvoering, Start, Inspecteer, RondAf, VerklaarPrestatie, Antwoord, Gelukt, Weigering
<1>3. CASE wat \in {"aanbesteding", "onbekende", "inschrijving", "gunning"}
  BY <1>3 DEF Dienst, Uitvoering, Publiceer, SchrijfIn, Gun, Antwoord, Gelukt, Weigering
<1>4. CASE wat \in {"metingHoog", "oplossing"}
  BY <1>4 DEF Dienst, Uitvoering, Meet, LosOp, Antwoord, Gelukt, Weigering
<1> QED BY <1>1, <1>2, <1>3, <1>4 DEF Wensen

\* The services hold what request `wat` about `id` is answered to have brought about.
Uitgevoerd(wat, id, a) ==
  /\ wat = "registreer" => a.na.kunstwerk
  /\ wat = "onderhoudseisen" => "onderhoud" \in a.na.eisen
  /\ wat = "ontwerpeisen" => "ontwerp" \in a.na.eisen
  /\ wat = "sessie" => a.na.sessie
  /\ wat = "metingHoog" => a.na.incidenten # <<>>
  /\ wat = "rapport" => a.na.rapport
  /\ wat \in {"aanbesteding", "onbekende"} =>
       a.id \in DOMAIN a.na.aanbestedingen /\ a.na.aanbestedingen[a.id].demo = (wat = "aanbesteding")
  /\ wat = "gunning" =>
       a.id = id /\ id \in DOMAIN a.na.aanbestedingen /\ a.na.aanbestedingen[id].gegund
  /\ wat = "verklaring" => id \in a.na.verklaringen
  /\ wat = "afronden" => id \in DOMAIN a.na.trajecten /\ a.na.trajecten[id].status = "Afgerond"
  /\ wat = "oplossing" => id \in DOMAIN a.na.incidenten /\ a.na.incidenten[id] = "Opgelost"

\* Answer `a` to request `wat` about `id`.
GoedUitgevoerd(d, wat, id, a) ==
  /\ Behoudt(d, a)
  /\ a.klasse = "ok" => Uitgevoerd(wat, id, a)
  /\ a.klasse = "conflict" => wat = "registreer" /\ a.na.kunstwerk
  /\ wat \in {"aanbesteding", "onbekende"} =>
       a.klasse = "ok" /\ a.id \notin DOMAIN d.aanbestedingen /\ ~a.na.aanbestedingen[a.id].gegund
  /\ wat = "inschrijving" /\ id \in DOMAIN d.aanbestedingen /\ ~d.aanbestedingen[id].gegund =>
       a.klasse = "ok"
  /\ \A k \in DOMAIN d.aanbestedingen :
       wat # "gunning" \/ k # id => a.na.aanbestedingen[k].gegund = d.aanbestedingen[k].gegund
  /\ \/ Len(a.na.incidenten) = Len(d.incidenten)
     \/ wat = "metingHoog" /\ Len(a.na.incidenten) = Len(d.incidenten) + 1

LEMMA UitvoeringKlopt ==
  ASSUME NEW d \in Dienst, Verwijst(d), NEW wat \in Wensen, NEW id \in Nat
  PROVE  GoedUitgevoerd(d, wat, id, Uitvoering(d, wat, id))
<1> SUFFICES ASSUME NEW a, a = Uitvoering(d, wat, id) PROVE GoedUitgevoerd(d, wat, id, a)
  OBVIOUS
<1>14. /\ wat \notin {"aanbesteding", "onbekende", "inschrijving", "gunning"} =>
            a.na.aanbestedingen = d.aanbestedingen
       /\ wat \notin {"metingHoog", "oplossing"} => a.na.incidenten = d.incidenten
  BY RijenBlijven
<1> USE DEF Uitgevoerd, GoedUitgevoerd
<1>1. CASE wat = "registreer"
  <2>1. a = Registreer(d)
    BY <1>1 DEF Uitvoering
  <2> QED BY <1>1, <1>14, <2>1, RegistreerKlopt
<1>2. CASE wat \in {"onderhoudseisen", "ontwerpeisen"}
  <2>1. a = StelEisenVast(d, IF wat = "onderhoudseisen" THEN "onderhoud" ELSE "ontwerp")
    BY <1>2 DEF Uitvoering
  <2> QED BY <1>2, <1>14, <2>1, EisenKlopt
<1>3. CASE wat = "sessie"
  <2>1. a = StartSessie(d)
    BY <1>3 DEF Uitvoering
  <2> QED BY <1>3, <1>14, <2>1, StartSessieKlopt
<1>4. CASE wat \in {"metingLaag", "metingHoog"}
  <2>1. a = Meet(d, wat = "metingHoog")
    BY <1>4 DEF Uitvoering
  <2> QED BY <1>4, <1>14, <2>1, MeetKlopt
<1>5. CASE wat = "oplossing"
  <2>1. a = LosOp(d, id)
    BY <1>5 DEF Uitvoering
  <2> QED BY <1>5, <1>14, <2>1, LosOpKlopt
<1>6. CASE wat = "rapport"
  <2>1. a = StelRapportOp(d)
    BY <1>6 DEF Uitvoering
  <2> QED BY <1>6, <1>14, <2>1, StelRapportOpKlopt
<1>7. CASE wat \in {"aanbesteding", "onbekende"}
  <2> DEFINE demo == wat = "aanbesteding"
  <2>1. a = Publiceer(d, demo) /\ demo \in BOOLEAN
    BY <1>7 DEF Uitvoering
  <2>2. Len(d.aanbestedingen) \in Nat /\ DOMAIN d.aanbestedingen = 1 .. Len(d.aanbestedingen)
    BY DEF Dienst
  <2>3. /\ Behoudt(d, a) /\ a.klasse = "ok"
        /\ a.id = Len(d.aanbestedingen) + 1 /\ a.id \in DOMAIN a.na.aanbestedingen
        /\ a.na.aanbestedingen[a.id] = [demo |-> demo, inschrijving |-> FALSE, gegund |-> FALSE]
        /\ \A k \in DOMAIN d.aanbestedingen : a.na.aanbestedingen[k] = d.aanbestedingen[k]
    <3> HIDE DEF demo
    <3> QED BY <2>1, PubliceerKlopt
  <2> QED BY <1>7, <1>14, <2>2, <2>3
<1>8. CASE wat = "inschrijving"
  <2>1. a = SchrijfIn(d, id)
    BY <1>8 DEF Uitvoering
  <2> QED BY <1>8, <1>14, <2>1, SchrijfInKlopt
<1>9. CASE wat = "gunning"
  <2>1. a = Gun(d, id)
    BY <1>9 DEF Uitvoering
  <2> QED BY <1>9, <1>14, <2>1, GunKlopt
<1>10. CASE wat = "verklaring"
  <2>1. a = VerklaarPrestatie(d, id)
    BY <1>10 DEF Uitvoering
  <2> QED BY <1>10, <1>14, <2>1, VerklaarKlopt
<1>11. CASE wat = "start"
  <2>1. a = Start(d, id)
    BY <1>11 DEF Uitvoering
  <2> QED BY <1>11, <1>14, <2>1, StartKlopt
<1>12. CASE wat = "inspectie"
  <2>1. a = Inspecteer(d, id)
    BY <1>12 DEF Uitvoering
  <2> QED BY <1>12, <1>14, <2>1, InspecteerKlopt
<1>13. CASE wat = "afronden"
  <2>1. a = RondAf(d, id)
    BY <1>13 DEF Uitvoering
  <2> QED BY <1>13, <1>14, <2>1, RondAfKlopt
<1> QED
  BY <1>1, <1>2, <1>3, <1>4, <1>5, <1>6, <1>7, <1>8, <1>9, <1>10, <1>11, <1>12, <1>13 DEF Wensen

\* What a row in a list tells of the services.
LEMMA RijenKlopt ==
  ASSUME NEW d \in Dienst, NEW lijst \in Lijsten
  PROVE  /\ Rijen(d, lijst) \subseteq Nat \ {Geen}
         /\ lijst = "incidenten" => Rijen(d, lijst) = DOMAIN d.incidenten
         /\ lijst = "trajecten" => Rijen(d, lijst) = DOMAIN d.trajecten
         /\ Rijen(d, lijst) # {} =>
              /\ lijst = "kunstwerken" => d.kunstwerk
              /\ lijst = "eisen" => d.eisen = {"onderhoud", "ontwerp"}
              /\ lijst = "sessies" => d.sessie
              /\ lijst = "netwerkrapportages" => "rapport" \in d.beoordelingen
              /\ lijst = "onderhoudsrapporten" => "afgerond" \in d.beoordelingen
<1>1. /\ DOMAIN d.incidenten = 1 .. Len(d.incidenten) /\ Len(d.incidenten) \in Nat
      /\ DOMAIN d.trajecten = 1 .. Len(d.trajecten) /\ Len(d.trajecten) \in Nat
  BY DEF Dienst
<1>2. CASE lijst \in {"incidenten", "trajecten"}
  BY <1>1, <1>2 DEF Rijen, Geen
<1>3. CASE lijst \notin {"incidenten", "trajecten"}
  BY <1>3 DEF Rijen, Lijsten, Geen
<1> QED BY <1>2, <1>3

-----------------------------------------------------------------------------
(* Demoroute: the invariant.  SchermKlopt only speaks of steps that are    *)
(* done.  That a step may be marked done rests on what its requests have   *)
(* brought about so far (Bewezen), and that the ids are those of this      *)
(* route on the order in which an undisturbed page does its steps.         *)

Lopend ==
  [stap : Stappen, gen : Nat, pc : Nat, pogingen : Nat, eigen : Nat, id : Nat,
   fase : {"heen", "terug"}, klasse : Klassen \cup {"geenId"}]
Idboek == [Ids -> Nat]

Loopt(l) == l.gen \in DOMAIN refs /\ l.pc \in DOMAIN Draaiboek[l.stap] /\ l.pogingen \in 0 .. MaxPogingen

RouteTypeInv ==
  /\ pagina \in Paginas
  /\ dienst \in Dienst /\ Verwijst(dienst)
  /\ status \in [Stappen -> {"idle", "running", "done", "error"}]
  /\ refs \in Seq(Idboek) /\ Len(refs) # 0
  /\ lopen \subseteq Lopend /\ \A l \in lopen : Loopt(l)
  /\ alles \in Stappen \cup {Geen} /\ pijl \in Stappen \cup {Geen}
  /\ storingen \in Nat /\ ingrepen \in Nat /\ storingen + ingrepen <= MaxVerstoringen
  /\ geweigerd \in BOOLEAN

\* The requests of l that were answered so that the step went on, and the aanbesteding that
\* the step made for itself.
Eerder(l) == {Draaiboek[l.stap][i].wat : i \in {j \in DOMAIN Draaiboek[l.stap] : j < l.pc}}
Gedaan(l) ==
  IF l.fase = "terug" /\ Verder(l) THEN Eerder(l) \cup {Instructie(l).wat} ELSE Eerder(l)
Eigen(l) == IF Instructie(l).ref = "eigen" THEN l.id ELSE l.eigen

Bereikt(l, wat) ==
  /\ wat \in {"registreer", "kunstwerken"} => dienst.kunstwerk
  /\ wat \in {"onderhoudseisen", "eisen"} => "onderhoud" \in dienst.eisen
  /\ wat \in {"ontwerpeisen", "eisen"} => "ontwerp" \in dienst.eisen
  /\ wat \in {"sessie", "sessies"} => dienst.sessie
  /\ wat = "metingHoog" => dienst.incidenten # <<>>
  /\ wat = "incidenten" => l.id \in DOMAIN dienst.incidenten
  /\ wat = "trajecten" => l.id \in DOMAIN dienst.trajecten
  /\ wat \in {"aanbesteding", "onbekende"} =>
       /\ Eigen(l) \in DOMAIN dienst.aanbestedingen
       /\ dienst.aanbestedingen[Eigen(l)].demo = (wat = "aanbesteding")
  /\ wat = "gunning" =>
       /\ l.id = l.eigen /\ l.id \in DOMAIN dienst.aanbestedingen
       /\ dienst.aanbestedingen[l.id].gegund
  /\ wat = "rapport" => dienst.rapport
  /\ wat = "netwerkrapportages" /\ pagina = "regiekamer" => "rapport" \in dienst.beoordelingen
  /\ wat = "verklaring" => l.eigen \in dienst.verklaringen
  /\ wat = "afronden" => Afgerond(l.eigen)
  /\ wat = "onderhoudsrapporten" => "afgerond" \in dienst.beoordelingen
  /\ wat = "oplossing" =>
       l.eigen \in DOMAIN dienst.incidenten /\ dienst.incidenten[l.eigen] = "Opgelost"

\* What the requests of a step were to bring about is there.
Bewezen(l) == \A wat \in Gedaan(l) : Bereikt(l, wat)

\* Step 11 is only refused its gunning: before that, nobody gunned its aanbesteding.
NogOngegund(l) ==
  l.stap = 11 /\ "onbekende" \in Gedaan(l) /\ (l.fase = "heen" \/ Instructie(l).wat # "gunning")
    => ~dienst.aanbestedingen[Eigen(l)].gegund
TerechtGeweigerd(l) ==
  l.stap = 11 /\ l.fase = "terug" /\ l.klasse \in {"conflict", "4xx"} => geweigerd

\* Every step has an aanbesteding of its own.
EigenInkoop ==
  \A l, q \in lopen :
    /\ l.stap = 11 /\ q.stap = 11 /\ l # q
    /\ "onbekende" \in Gedaan(l) /\ "onbekende" \in Gedaan(q)
    => Eigen(l) # Eigen(q)

RefsKloppen ==
  \A g \in DOMAIN refs :
    /\ refs[g].incident \in DOMAIN dienst.incidenten \cup {Geen}
    /\ refs[g].onderhoud \in DOMAIN dienst.trajecten \cup {Geen}
    /\ refs[g].contract # Geen =>
         /\ refs[g].contract \in DOMAIN dienst.aanbestedingen
         /\ dienst.aanbestedingen[refs[g].contract].gegund

KlaarIsWaar == \A n \in Stappen : status[n] = "done" => Waar(n)

\* Step n was done once, since the page was loaded: the Regiekamer opens the step after it.
Gehaald(n) ==
  \/ status[n] = "done"
  \/ \E m \in Stappen : m > n /\ status[m] # "idle"
  \/ \E l \in lopen : l.stap > n

IdsBekend ==
  pagina = "regiekamer" =>
    /\ Len(refs) = 1 /\ alles = Geen
    /\ Gehaald(4) => refs[1].incident # Geen
    /\ Gehaald(5) => refs[1].onderhoud # Geen
    /\ Gehaald(6) => refs[1].contract # Geen
    /\ \A l \in lopen : l.klasse # "geenId"

\* An undisturbed page does one step at a time, in order, with the ids of this route.
MetDitBoek(l) == l.stap \in {8, 9, 10} => l.eigen = refs[1][Nodig(l.stap)]
OpVolgorde ==
  /\ Len(refs) = 1
  /\ \A l, q \in lopen : l = q
  /\ \A l \in lopen : /\ status[l.stap] = "running" /\ MetDitBoek(l)
                      /\ (pagina = "regiekamer" => pijl = Licht(l.stap))
  /\ \A m, n \in Stappen : m < n /\ status[n] # "idle" => status[m] = "done"

\* Step 4 measures too high once.
NaMeting(l) == l.stap = 4 => l.pc = 3 \/ (l.pc = 2 /\ l.fase = "terug")
EenIncident ==
  dienst.incidenten # <<>> =>
    /\ Len(dienst.incidenten) = 1 /\ status[4] # "idle"
    /\ \A l \in lopen : NaMeting(l)

VanDezeRoute ==
  /\ status[4] = "done" => refs[1].incident # Geen
  /\ status[5] = "done" => refs[1].onderhoud # Geen
  /\ status[6] = "done" => refs[1].contract # Geen
  /\ status[8] = "done" => refs[1].contract \in dienst.verklaringen
  /\ status[9] = "done" => Afgerond(refs[1].onderhoud)
  /\ status[10] = "done" => refs[1].incident \in DOMAIN dienst.incidenten
                             /\ dienst.incidenten[refs[1].incident] = "Opgelost"

StappenKloppen == \A l \in lopen : Bewezen(l) /\ NogOngegund(l) /\ TerechtGeweigerd(l)
Ongestoord == Rustig => OpVolgorde /\ EenIncident /\ VanDezeRoute

RouteInv ==
  /\ RouteTypeInv /\ StappenKloppen /\ EigenInkoop /\ RefsKloppen /\ KlaarIsWaar
  /\ IdsBekend /\ Ongestoord

LEMMA RouteBegin == RouteInit => RouteInv
<1> SUFFICES ASSUME RouteInit PROVE RouteInv
  OBVIOUS
<1> USE DEF RouteInit
<1>1. LegeDiensten \in Dienst /\ Verwijst(LegeDiensten) /\ LegeDiensten.incidenten = <<>>
  BY DEF LegeDiensten, Dienst, Verwijst
<1>2. LegeRefs \in Idboek
  BY DEF LegeRefs, Idboek, Ids, Geen
<1>3. refs \in Seq(Idboek) /\ Len(refs) = 1 /\ DOMAIN refs = {1} /\ refs[1] = LegeRefs
  BY <1>2
<1>4. RouteTypeInv
  <2>1. status \in [Stappen -> {"idle", "running", "done", "error"}] /\ pagina \in Paginas
    BY DEF AllesIdle
  <2>2. storingen \in Nat /\ ingrepen \in Nat /\ storingen + ingrepen <= MaxVerstoringen
    BY BegrensdAanname
  <2>3. alles \in Stappen \cup {Geen} /\ pijl \in Stappen \cup {Geen} /\ geweigerd \in BOOLEAN
    OBVIOUS
  <2>4. lopen \subseteq Lopend /\ \A l \in lopen : Loopt(l)
    OBVIOUS
  <2> QED BY <1>1, <1>3, <2>1, <2>2, <2>3, <2>4 DEF RouteTypeInv
<1>5. StappenKloppen /\ EigenInkoop
  BY DEF StappenKloppen, EigenInkoop
<1>6. RefsKloppen
  BY <1>3 DEF RefsKloppen, LegeRefs
<1>7. KlaarIsWaar /\ IdsBekend
  BY <1>3 DEF KlaarIsWaar, IdsBekend, AllesIdle, Gehaald, Stappen
<1>8. Ongestoord
  BY <1>1, <1>3 DEF Ongestoord, OpVolgorde, EenIncident, VanDezeRoute, AllesIdle, Stappen
<1> QED BY <1>4, <1>5, <1>6, <1>7, <1>8 DEF RouteInv

\* What the invariant says of a page that shows "done".
LEMMA RouteGevolg == RouteInv => RouteTypeOK /\ SchermKlopt
<1> SUFFICES ASSUME RouteInv PROVE RouteTypeOK /\ SchermKlopt
  OBVIOUS
<1> USE DEF RouteInv
<1>1. RouteTypeOK
  BY BegrensdAanname, SMTT(30) DEF RouteTypeInv, RouteTypeOK, Loopt, Lopend, Idboek, Ids
<1>2. DOMAIN refs = 1 .. Len(refs) /\ Len(refs) \in Nat
  BY DEF RouteTypeInv
<1>3. Rustig => /\ status[8] = "done" => refs[Heden].contract \in dienst.verklaringen
                /\ status[9] = "done" => Afgerond(refs[Heden].onderhoud)
                /\ status[10] = "done" => dienst.incidenten[refs[Heden].incident] = "Opgelost"
  BY DEF Ongestoord, OpVolgorde, VanDezeRoute, Heden
<1>4. Rustig /\ status[5] = "done" =>
        dienst.trajecten[refs[Heden].onderhoud].incident = refs[Heden].incident
  <2> SUFFICES ASSUME Rustig, status[5] = "done"
               PROVE  dienst.trajecten[refs[1].onderhoud].incident = refs[1].incident
    BY DEF Ongestoord, OpVolgorde, Heden
  <2>1. OpVolgorde /\ EenIncident /\ VanDezeRoute /\ 1 \in DOMAIN refs
    BY <1>2 DEF Ongestoord, OpVolgorde
  <2>2. status[4] = "done"
    BY <2>1 DEF OpVolgorde, Stappen
  <2>3. refs[1].incident \in DOMAIN dienst.incidenten /\ refs[1].onderhoud \in DOMAIN dienst.trajecten
    BY <2>1, <2>2 DEF VanDezeRoute, RefsKloppen
  <2>4. dienst.trajecten[refs[1].onderhoud].incident \in DOMAIN dienst.incidenten
    BY <2>3 DEF RouteTypeInv, Verwijst
  <2>5. dienst.incidenten \in Seq(Incidentstand)
    BY DEF RouteTypeInv, Dienst
  <2>6. DOMAIN dienst.incidenten = {1}
    BY <2>1, <2>3, <2>5 DEF EenIncident
  <2> QED BY <2>3, <2>4, <2>6
<1>5. Rustig /\ pagina = "regiekamer" => \A l \in lopen : pijl = Licht(l.stap)
  BY DEF Ongestoord, OpVolgorde
<1>6. \A n \in Stappen : status[n] = "done" => Waar(n)
  BY DEF KlaarIsWaar
<1>7. \A g \in DOMAIN refs : /\ refs[g].incident \in DOMAIN dienst.incidenten \cup {Geen}
                             /\ refs[g].onderhoud \in DOMAIN dienst.trajecten \cup {Geen}
                             /\ refs[g].contract # Geen => dienst.aanbestedingen[refs[g].contract].gegund
  BY DEF RefsKloppen
<1>8. pagina = "regiekamer" => \A l \in lopen : l.klasse # "geenId"
  BY DEF IdsBekend
<1> QED BY <1>1, <1>3, <1>4, <1>5, <1>6, <1>7, <1>8 DEF SchermKlopt

-----------------------------------------------------------------------------
(* Demoroute: a request is answered.                                       *)

LEMMA DraaiboekBlijft ==
  ASSUME UNCHANGED pagina, NEW l
  PROVE  /\ Draaiboek' = Draaiboek /\ Instructie(l)' = Instructie(l) /\ Verder(l)' = Verder(l)
         /\ Eerder(l)' = Eerder(l) /\ Gedaan(l)' = Gedaan(l) /\ Eigen(l)' = Eigen(l)
<1>1. Draaiboek' = Draaiboek
  BY DEF Draaiboek
<1>2. Instructie(l)' = Instructie(l)
  BY <1>1 DEF Instructie
<1>3. Verder(l)' = Verder(l)
  BY <1>2 DEF Verder, Gezien
<1>4. Eerder(l)' = Eerder(l)
  BY <1>1 DEF Eerder
<1> QED BY <1>1, <1>2, <1>3, <1>4 DEF Gedaan, Eigen

LEMMA InstructiePast ==
  ASSUME pagina \in Paginas, NEW l \in Lopend, l.pc \in DOMAIN Draaiboek[l.stap]
  PROVE  /\ PastBij(l.stap, l.pc, Len(Draaiboek[l.stap]), Instructie(l))
         /\ l.stap \in Stappen /\ l.pc \in 1 .. Len(Draaiboek[l.stap]) /\ Len(Draaiboek[l.stap]) \in Nat
BY DraaiboekPast DEF Lopend, Instructie

\* The last request of a step is not behind it, and the first is once it is at the second.
LEMMA EerderPast ==
  ASSUME pagina \in Paginas, NEW l \in Lopend, l.pc \in DOMAIN Draaiboek[l.stap]
  PROVE  /\ \A wat \in {"gunning", "incidenten", "trajecten"} : wat \notin Eerder(l)
         /\ \A wat \in {"aanbesteding", "onbekende"} : wat \in Eerder(l) => Instructie(l).ref # "eigen"
         /\ l.stap = 4 /\ l.pc = 3 => "metingHoog" \in Eerder(l)
         /\ l.stap = 6 /\ l.pc > 1 => "aanbesteding" \in Eerder(l)
         /\ l.stap = 11 /\ l.pc > 1 => "onbekende" \in Eerder(l)
<1> DEFINE s == Draaiboek[l.stap]
<1>1. /\ l.stap \in Stappen /\ Len(s) \in Nat /\ DOMAIN s = 1 .. Len(s)
      /\ \A i \in DOMAIN s : PastBij(l.stap, i, Len(s), s[i])
  BY DraaiboekPast DEF Lopend
<1>2. \A wat : wat \in Eerder(l) <=> \E i \in DOMAIN s : i < l.pc /\ s[i].wat = wat
  BY DEF Eerder
<1>3. Instructie(l) = s[l.pc] /\ l.pc \in DOMAIN s /\ l.pc \in Nat
  BY DEF Instructie, Lopend
<1> HIDE DEF s
<1>4. \A i \in DOMAIN s : s[i].wat \in {"gunning", "incidenten", "trajecten"} => i = Len(s)
  BY <1>1 DEF PastBij, Ids
<1>5. \A i \in DOMAIN s : s[i].wat \in {"aanbesteding", "onbekende"} => i = 1
  BY <1>1 DEF PastBij
<1>6. Instructie(l).ref = "eigen" => l.pc = 1
  BY <1>1, <1>3, <1>5 DEF PastBij
<1>7. l.stap = 4 /\ l.pc = 3 => 2 \in DOMAIN s /\ s[2].wat = "metingHoog"
  BY <1>1, <1>3 DEF PastBij
<1>8. l.pc > 1 => 1 \in DOMAIN s /\ (l.stap = 6 => s[1].wat = "aanbesteding") /\ (l.stap = 11 => s[1].wat = "onbekende")
  BY <1>1, <1>3 DEF PastBij
<1>9. \A wat \in {"gunning", "incidenten", "trajecten"} : wat \notin Eerder(l)
  BY <1>1, <1>2, <1>3, <1>4
<1>10. \A wat \in {"aanbesteding", "onbekende"} : wat \in Eerder(l) => Instructie(l).ref # "eigen"
  BY <1>1, <1>2, <1>3, <1>5, <1>6
<1> QED BY <1>2, <1>3, <1>7, <1>8, <1>9, <1>10

LEMMA LaterBlijft ==
  ASSUME NEW d \in Dienst, NEW e \in Dienst, Later(d, e)
  PROVE  /\ \A i \in DOMAIN d.incidenten :
              i \in DOMAIN e.incidenten /\ (d.incidenten[i] = "Opgelost" => e.incidenten[i] = "Opgelost")
         /\ \A t \in DOMAIN d.trajecten :
              /\ t \in DOMAIN e.trajecten
              /\ d.trajecten[t].status = "Afgerond" => e.trajecten[t].status = "Afgerond"
         /\ \A a \in DOMAIN d.aanbestedingen :
              /\ a \in DOMAIN e.aanbestedingen /\ e.aanbestedingen[a].demo = d.aanbestedingen[a].demo
              /\ d.aanbestedingen[a].gegund => e.aanbestedingen[a].gegund
         /\ d.incidenten # <<>> => e.incidenten # <<>>
         /\ d.trajecten # <<>> => e.trajecten # <<>>
<1>1. /\ d.incidenten \in Seq(Incidentstand) /\ e.incidenten \in Seq(Incidentstand)
      /\ d.trajecten \in Seq(Traject) /\ e.trajecten \in Seq(Traject)
      /\ d.aanbestedingen \in Seq(Inkoop) /\ e.aanbestedingen \in Seq(Inkoop)
  BY DEF Dienst
<1>2. /\ IncidentenVerder(d.incidenten, e.incidenten) /\ TrajectenVerder(d.trajecten, e.trajecten)
      /\ InkoopVerder(d.aanbestedingen, e.aanbestedingen)
  BY DEF Later
<1>3. \A i \in DOMAIN d.incidenten :
        i \in DOMAIN e.incidenten /\ (d.incidenten[i] = "Opgelost" => e.incidenten[i] = "Opgelost")
  BY <1>1, <1>2 DEF IncidentenVerder
<1>4. \A t \in DOMAIN d.trajecten :
        /\ t \in DOMAIN e.trajecten
        /\ d.trajecten[t].status = "Afgerond" => e.trajecten[t].status = "Afgerond"
  <2> DEFINE oud == d.trajecten
             rij == e.trajecten
  <2>1. /\ DOMAIN oud = 1 .. Len(oud) /\ DOMAIN rij = 1 .. Len(rij) /\ Len(oud) \in Nat /\ Len(rij) \in Nat
        /\ TrajectenVerder(oud, rij)
    BY <1>1, <1>2
  <2> HIDE DEF oud, rij
  <2>2. Len(oud) <= Len(rij)
    BY <2>1 DEF TrajectenVerder
  <2>3. \A t \in DOMAIN oud : t \in DOMAIN rij
    BY <2>1, <2>2
  <2>4. \A t \in DOMAIN oud : oud[t].status = "Afgerond" => rij[t].status = "Afgerond"
    BY <2>1, Zenon DEF TrajectenVerder
  <2> QED BY <2>3, <2>4 DEF oud, rij
<1>5. \A a \in DOMAIN d.aanbestedingen :
        /\ a \in DOMAIN e.aanbestedingen /\ e.aanbestedingen[a].demo = d.aanbestedingen[a].demo
        /\ d.aanbestedingen[a].gegund => e.aanbestedingen[a].gegund
  <2> DEFINE oud == d.aanbestedingen
             rij == e.aanbestedingen
  <2>1. /\ DOMAIN oud = 1 .. Len(oud) /\ DOMAIN rij = 1 .. Len(rij) /\ Len(oud) \in Nat /\ Len(rij) \in Nat
        /\ InkoopVerder(oud, rij)
    BY <1>1, <1>2
  <2> HIDE DEF oud, rij
  <2>2. Len(oud) <= Len(rij)
    BY <2>1 DEF InkoopVerder
  <2>3. \A a \in DOMAIN oud : a \in DOMAIN rij
    BY <2>1, <2>2
  <2>4. \A a \in DOMAIN oud : rij[a].demo = oud[a].demo /\ (oud[a].gegund => rij[a].gegund)
    BY <2>1, Zenon DEF InkoopVerder
  <2> QED BY <2>3, <2>4, Zenon DEF oud, rij
<1>6. d.incidenten # <<>> => e.incidenten # <<>>
  BY <1>1, <1>2 DEF IncidentenVerder
<1>7. d.trajecten # <<>> => e.trajecten # <<>>
  BY <1>1, <1>2 DEF TrajectenVerder
<1> QED BY <1>3, <1>4, <1>5, <1>6, <1>7

\* What was brought about stays so.
LEMMA BereiktBlijft ==
  ASSUME dienst \in Dienst, dienst' \in Dienst, Later(dienst, dienst'), UNCHANGED pagina,
         NEW l, NEW wat, Bereikt(l, wat)
  PROVE  Bereikt(l, wat)'
<1>1. /\ \A i \in DOMAIN dienst.incidenten :
           i \in DOMAIN dienst'.incidenten /\ (dienst.incidenten[i] = "Opgelost" => dienst'.incidenten[i] = "Opgelost")
      /\ \A a \in DOMAIN dienst.aanbestedingen :
           /\ a \in DOMAIN dienst'.aanbestedingen
           /\ dienst'.aanbestedingen[a].demo = dienst.aanbestedingen[a].demo
           /\ dienst.aanbestedingen[a].gegund => dienst'.aanbestedingen[a].gegund
      /\ dienst.incidenten # <<>> => dienst'.incidenten # <<>>
  BY LaterBlijft
<1>2. \A t \in DOMAIN dienst.trajecten :
        /\ t \in DOMAIN dienst'.trajecten
        /\ dienst.trajecten[t].status = "Afgerond" => dienst'.trajecten[t].status = "Afgerond"
  BY LaterBlijft
<1>3. Eigen(l)' = Eigen(l)
  BY DraaiboekBlijft
<1>4. /\ dienst.kunstwerk => dienst'.kunstwerk
      /\ dienst.sessie => dienst'.sessie
      /\ dienst.rapport => dienst'.rapport
      /\ dienst.eisen \subseteq dienst'.eisen
      /\ dienst.verklaringen \subseteq dienst'.verklaringen
      /\ dienst.beoordelingen \subseteq dienst'.beoordelingen
  BY DEF Later
<1> QED BY <1>1, <1>2, <1>3, <1>4 DEF Bereikt, Afgerond

LEMMA WaarBlijft ==
  ASSUME dienst \in Dienst, dienst' \in Dienst, Later(dienst, dienst'), UNCHANGED pagina,
         geweigerd => geweigerd', NEW n \in Stappen, Waar(n)
  PROVE  Waar(n)'
<1>1. /\ \A i \in DOMAIN dienst.incidenten :
           i \in DOMAIN dienst'.incidenten /\ (dienst.incidenten[i] = "Opgelost" => dienst'.incidenten[i] = "Opgelost")
      /\ dienst.incidenten # <<>> => dienst'.incidenten # <<>>
      /\ dienst.trajecten # <<>> => dienst'.trajecten # <<>>
  BY LaterBlijft
<1>2. \A t \in DOMAIN dienst.trajecten :
        /\ t \in DOMAIN dienst'.trajecten
        /\ dienst.trajecten[t].status = "Afgerond" => dienst'.trajecten[t].status = "Afgerond"
  BY LaterBlijft
<1>3. \A a \in DOMAIN dienst.aanbestedingen :
        /\ a \in DOMAIN dienst'.aanbestedingen
        /\ dienst'.aanbestedingen[a].demo = dienst.aanbestedingen[a].demo
        /\ dienst.aanbestedingen[a].gegund => dienst'.aanbestedingen[a].gegund
  BY LaterBlijft
<1>4. /\ dienst.kunstwerk => dienst'.kunstwerk
      /\ dienst.sessie => dienst'.sessie
      /\ dienst.rapport => dienst'.rapport
      /\ dienst.eisen \subseteq dienst'.eisen /\ dienst'.eisen \subseteq {"onderhoud", "ontwerp"}
      /\ dienst.verklaringen \subseteq dienst'.verklaringen
      /\ dienst.beoordelingen \subseteq dienst'.beoordelingen
  BY DEF Later, Dienst
<1>5. CASE n \in {1, 3, 4, 5, 7, 8, 11}
  <2>1. CASE n = 1
    BY <1>4, <2>1 DEF Waar
  <2>2. CASE n = 3
    BY <1>4, <2>2 DEF Waar
  <2>3. CASE n = 4
    <3>1. dienst.incidenten # <<>>
      BY <2>3 DEF Waar
    <3>2. dienst'.incidenten # <<>>
      BY <1>1, <3>1
    <3> QED BY <2>3, <3>2 DEF Waar
  <2>7. CASE n = 5
    <3>1. dienst.trajecten # <<>>
      BY <2>7 DEF Waar
    <3>2. dienst'.trajecten # <<>>
      BY <1>1, <3>1
    <3> QED BY <2>7, <3>2 DEF Waar
  <2>4. CASE n = 7
    BY <1>4, <2>4 DEF Waar
  <2>5. CASE n = 8
    BY <1>4, <2>5 DEF Waar
  <2>6. CASE n = 11
    BY <2>6 DEF Waar
  <2> QED BY <1>5, <2>1, <2>2, <2>3, <2>4, <2>5, <2>6, <2>7
<1>9. CASE n = 2
  BY <1>4, <1>9 DEF Waar
<1>6. CASE n = 6
  BY <1>3, <1>6 DEF Waar
<1>7. CASE n = 9
  <2>1. \A t : Afgerond(t) => Afgerond(t)'
    BY <1>2 DEF Afgerond
  <2> QED BY <1>2, <1>4, <1>7, <2>1 DEF Waar
<1>8. CASE n = 10
  BY <1>1, <1>8 DEF Waar
<1> QED BY <1>5, <1>6, <1>7, <1>8, <1>9 DEF Stappen

LEMMA RefsBlijven ==
  ASSUME RefsKloppen, dienst \in Dienst, dienst' \in Dienst, Later(dienst, dienst'), UNCHANGED refs
  PROVE  RefsKloppen'
<1>1. \A i \in DOMAIN dienst.incidenten : i \in DOMAIN dienst'.incidenten
  BY LaterBlijft
<1>2. \A t \in DOMAIN dienst.trajecten : t \in DOMAIN dienst'.trajecten
  BY LaterBlijft
<1>3. \A a \in DOMAIN dienst.aanbestedingen :
        /\ a \in DOMAIN dienst'.aanbestedingen
        /\ dienst.aanbestedingen[a].gegund => dienst'.aanbestedingen[a].gegund
  BY LaterBlijft
<1> QED BY <1>1, <1>2, <1>3 DEF RefsKloppen

\* The same step with another answer: what it did before is still proved.
LEMMA EerderBlijft ==
  ASSUME pagina \in Paginas, NEW l \in Lopend, NEW m \in Lopend, l.pc \in DOMAIN Draaiboek[l.stap],
         m.stap = l.stap, m.pc = l.pc, m.eigen = l.eigen
  PROVE  /\ Eerder(m) = Eerder(l) /\ Instructie(m) = Instructie(l)
         /\ \A wat \in Eerder(l) : Bereikt(l, wat) => Bereikt(m, wat)
         /\ \A wat \in {"aanbesteding", "onbekende"} \cap Eerder(l) : Eigen(m) = l.eigen /\ Eigen(l) = l.eigen
<1>1. Eerder(m) = Eerder(l) /\ Instructie(m) = Instructie(l)
  BY DEF Eerder, Instructie
<1>2. \A wat \in {"aanbesteding", "onbekende"} \cap Eerder(l) : Eigen(m) = l.eigen /\ Eigen(l) = l.eigen
  BY <1>1, EerderPast DEF Eigen
<1>3. ASSUME NEW wat \in Eerder(l), Bereikt(l, wat) PROVE Bereikt(m, wat)
  <2>1. wat \notin {"gunning", "incidenten", "trajecten"}
    BY EerderPast
  <2> QED BY <1>2, <1>3, <2>1 DEF Bereikt
<1> QED BY <1>1, <1>2, <1>3


\* A row that was got to, and the ids of this route, stay what they are.
LEMMA VanDezeRouteBlijft ==
  ASSUME dienst \in Dienst, dienst' \in Dienst, Later(dienst, dienst'), UNCHANGED <<status, refs>>,
         VanDezeRoute
  PROVE  VanDezeRoute'
<1>1. \A i \in DOMAIN dienst.incidenten :
        i \in DOMAIN dienst'.incidenten /\ (dienst.incidenten[i] = "Opgelost" => dienst'.incidenten[i] = "Opgelost")
  BY LaterBlijft
<1>2. \A t \in DOMAIN dienst.trajecten :
        /\ t \in DOMAIN dienst'.trajecten
        /\ dienst.trajecten[t].status = "Afgerond" => dienst'.trajecten[t].status = "Afgerond"
  BY LaterBlijft
<1>3. dienst.verklaringen \subseteq dienst'.verklaringen
  BY DEF Later
<1> QED BY <1>1, <1>2, <1>3 DEF VanDezeRoute, Afgerond

\* Answer m to step l leaves the invariant standing when it says of its own request what
\* Bereikt asks, no aanbesteding of another step 11 was gunned, and nothing was undone.
LEMMA BeantwoordHoudt ==
  ASSUME RouteInv, NEW l \in lopen, l.fase = "heen", NEW k \in Klassen, NEW i \in Nat, NEW m,
         m = [l EXCEPT !.fase = "terug", !.klasse = k, !.id = i],
         lopen' = (lopen \ {l}) \cup {m}, UNCHANGED buitenDienst,
         dienst' \in Dienst, Verwijst(dienst'), Later(dienst, dienst'),
         geweigerd' \in BOOLEAN, geweigerd => geweigerd',
         storingen' \in Nat, storingen <= storingen', storingen' + ingrepen <= MaxVerstoringen,
         Verder(m) => Bereikt(m, Instructie(l).wat)',
         \A q \in lopen \ {l} : NogOngegund(q)', NogOngegund(m)', TerechtGeweigerd(m)',
         Instructie(l).wat = "onbekende" /\ Verder(m) => i \notin DOMAIN dienst.aanbestedingen,
         Rustig /\ dienst'.incidenten # <<>> =>
           Len(dienst'.incidenten) = 1 /\ status[4] # "idle" /\ NaMeting(m)
  PROVE  RouteInv'
<1>1. /\ RouteTypeInv /\ StappenKloppen /\ EigenInkoop /\ RefsKloppen /\ KlaarIsWaar
      /\ IdsBekend /\ Ongestoord
  BY DEF RouteInv
<1>2. /\ dienst \in Dienst /\ pagina \in Paginas /\ l \in Lopend /\ Loopt(l)
      /\ refs \in Seq(Idboek) /\ lopen \subseteq Lopend
      /\ UNCHANGED <<pagina, status, refs, alles, pijl, ingrepen>>
      /\ ingrepen \in Nat /\ storingen \in Nat
  BY <1>1 DEF RouteTypeInv, buitenDienst
<1>3. /\ m \in Lopend /\ m.stap = l.stap /\ m.pc = l.pc /\ m.eigen = l.eigen /\ m.gen = l.gen
      /\ m.pogingen = l.pogingen /\ m.fase = "terug" /\ m.klasse = k /\ m.id = i
  BY <1>2 DEF Lopend
<1>4. l.pc \in DOMAIN Draaiboek[l.stap] /\ Loopt(m)
  BY <1>2, <1>3 DEF Loopt
<1>5. \A q : /\ Instructie(q)' = Instructie(q) /\ Verder(q)' = Verder(q) /\ Gedaan(q)' = Gedaan(q)
             /\ Eigen(q)' = Eigen(q) /\ Draaiboek' = Draaiboek
  BY <1>2, DraaiboekBlijft
<1>6. /\ Eerder(m) = Eerder(l) /\ Instructie(m) = Instructie(l) /\ Gedaan(l) = Eerder(l)
      /\ Gedaan(m) \subseteq Eerder(l) \cup {w \in {Instructie(l).wat} : Verder(m)}
      /\ \A wat \in Eerder(l) : Bereikt(l, wat) => Bereikt(m, wat)
      /\ \A wat \in {"aanbesteding", "onbekende"} \cap Eerder(l) : Eigen(m) = l.eigen /\ Eigen(l) = l.eigen
  <2>1. Gedaan(l) = Eerder(l)
    BY DEF Gedaan
  <2>2. /\ Eerder(m) = Eerder(l) /\ Instructie(m) = Instructie(l)
        /\ \A wat \in Eerder(l) : Bereikt(l, wat) => Bereikt(m, wat)
        /\ \A wat \in {"aanbesteding", "onbekende"} \cap Eerder(l) : Eigen(m) = l.eigen /\ Eigen(l) = l.eigen
    BY <1>2, <1>3, <1>4, EerderBlijft, ZenonT(60)
  <2>3. Gedaan(m) \subseteq Eerder(l) \cup {w \in {Instructie(l).wat} : Verder(m)}
    BY <2>2 DEF Gedaan
  <2> QED BY <2>1, <2>2, <2>3
<1>7. RouteTypeInv'
  <2>1. lopen' \subseteq Lopend /\ \A q \in lopen' : Loopt(q)'
    BY <1>1, <1>2, <1>3, <1>4, <1>5 DEF RouteTypeInv, Loopt
  <2> QED BY <1>1, <1>2, <2>1 DEF RouteTypeInv
<1>8. \A q, wat : Bereikt(q, wat) => Bereikt(q, wat)'
  BY <1>2, BereiktBlijft
<1>9. StappenKloppen'
  <2>1. ASSUME NEW q \in lopen \ {l} PROVE Bewezen(q)' /\ NogOngegund(q)' /\ TerechtGeweigerd(q)'
    BY <1>1, <1>2, <1>5, <1>8, <2>1 DEF StappenKloppen, Bewezen, TerechtGeweigerd
  <2>2. Bewezen(m)'
    <3> SUFFICES ASSUME NEW wat \in Gedaan(m) PROVE Bereikt(m, wat)'
      BY <1>5 DEF Bewezen
    <3>1. CASE wat \in Eerder(l)
      <4>1. Bereikt(l, wat)
        BY <1>1, <1>6, <3>1 DEF StappenKloppen, Bewezen
      <4> QED BY <1>6, <1>8, <3>1, <4>1
    <3>2. CASE wat = Instructie(l).wat /\ Verder(m)
      BY <1>5, <3>2
    <3> QED BY <1>6, <3>1, <3>2
  <2> QED BY <2>1, <2>2 DEF StappenKloppen
<1>10. EigenInkoop'
  <2>1. ASSUME NEW q \in lopen \ {l}, l.stap = 11, q.stap = 11, "onbekende" \in Gedaan(m), "onbekende" \in Gedaan(q)
        PROVE  Eigen(m) # Eigen(q)
    <3>1. CASE "onbekende" \in Eerder(l)
      BY <1>1, <1>6, <2>1, <3>1 DEF EigenInkoop
    <3>2. CASE Instructie(l).wat = "onbekende" /\ Verder(m)
      <4>1. Eigen(q) \in DOMAIN dienst.aanbestedingen
        BY <1>1, <2>1 DEF StappenKloppen, Bewezen, Bereikt
      <4>2. Instructie(l).ref = "eigen"
        BY <1>2, <1>4, <3>2, InstructiePast DEF PastBij
      <4> QED BY <1>3, <1>6, <3>2, <4>1, <4>2 DEF Eigen
    <3> QED BY <1>6, <2>1, <3>1, <3>2
  <2>2. ASSUME NEW p \in lopen', NEW q \in lopen', p.stap = 11, q.stap = 11, p # q,
               "onbekende" \in Gedaan(p), "onbekende" \in Gedaan(q)
        PROVE  Eigen(p) # Eigen(q)
    <3>1. CASE p = m
      BY <1>3, <2>1, <2>2, <3>1
    <3>2. CASE q = m
      BY <1>3, <2>1, <2>2, <3>2
    <3>3. CASE p # m /\ q # m
      BY <1>1, <2>2, <3>3 DEF EigenInkoop
    <3> QED BY <3>1, <3>2, <3>3
  <2> QED BY <1>5, <2>2 DEF EigenInkoop
<1>11. RefsKloppen'
  BY <1>1, <1>2, RefsBlijven
<1>12. KlaarIsWaar'
  BY <1>1, <1>2, WaarBlijft DEF KlaarIsWaar
<1>13. IdsBekend'
  BY <1>1, <1>2, <1>3 DEF IdsBekend, Gehaald, Klassen
<1>14. Ongestoord'
  <2> SUFFICES ASSUME Rustig' PROVE OpVolgorde' /\ EenIncident' /\ VanDezeRoute'
    BY DEF Ongestoord
  <2>1. Rustig
    BY <1>2 DEF Rustig
  <2>2. OpVolgorde /\ EenIncident /\ VanDezeRoute /\ lopen = {l} /\ lopen' = {m}
    BY <1>1, <2>1 DEF Ongestoord, OpVolgorde
  <2>3. OpVolgorde'
    <3>1. Len(refs') = 1 /\ \A p, q \in lopen' : p = q
      BY <1>2, <2>2 DEF OpVolgorde
    <3>2. /\ status'[m.stap] = "running" /\ MetDitBoek(m)'
          /\ (pagina = "regiekamer" => pijl = Licht(m.stap))'
      BY <1>2, <1>3, <2>2 DEF OpVolgorde, MetDitBoek, Licht, Pijlen
    <3>3. \A a, b \in Stappen : a < b /\ status'[b] # "idle" => status'[a] = "done"
      BY <1>2, <2>2 DEF OpVolgorde
    <3> QED BY <2>2, <3>1, <3>2, <3>3 DEF OpVolgorde
  <2>4. EenIncident'
    BY <1>2, <2>1, <2>2 DEF EenIncident, NaMeting
  <2>5. VanDezeRoute'
    BY <1>2, <2>2, VanDezeRouteBlijft
  <2> QED BY <2>3, <2>4, <2>5
<1> QED BY <1>7, <1>9, <1>10, <1>11, <1>12, <1>13, <1>14 DEF RouteInv

\* The own aanbesteding of step 11 is the one it goes on with.
LEMMA VanStapElf ==
  ASSUME RouteInv, NEW l \in lopen
  PROVE  /\ l.stap = 11 /\ Instructie(l).wat # "onbekende" => "onbekende" \in Eerder(l)
         /\ Instructie(l).wat = "gunning" /\ l.stap = 6 => "aanbesteding" \in Eerder(l)
         /\ Instructie(l).wat = "onbekende" => "onbekende" \notin Eerder(l)
         /\ l.stap = 11 => Instructie(l).wat \in {"onbekende", "inschrijving", "gunning"}
<1>1. pagina \in Paginas /\ l \in Lopend /\ l.pc \in DOMAIN Draaiboek[l.stap]
  BY DEF RouteInv, RouteTypeInv, Loopt
<1>2. /\ PastBij(l.stap, l.pc, Len(Draaiboek[l.stap]), Instructie(l))
      /\ l.pc \in 1 .. Len(Draaiboek[l.stap]) /\ Len(Draaiboek[l.stap]) \in Nat
  BY <1>1, InstructiePast
<1>3. /\ l.stap = 11 /\ l.pc > 1 => "onbekende" \in Eerder(l)
      /\ l.stap = 6 /\ l.pc > 1 => "aanbesteding" \in Eerder(l)
      /\ "onbekende" \in Eerder(l) => Instructie(l).ref # "eigen"
  BY <1>1, EerderPast
<1> QED BY <1>2, <1>3 DEF PastBij

\* The services were not asked, or not reached, or only showed a list.
LEMMA OngewijzigdHoudt ==
  ASSUME RouteInv, NEW l \in lopen, l.fase = "heen", NEW k \in Klassen, NEW i \in Nat, NEW m,
         m = [l EXCEPT !.fase = "terug", !.klasse = k, !.id = i],
         lopen' = (lopen \ {l}) \cup {m}, UNCHANGED <<buitenDienst, dienst, geweigerd>>,
         storingen' \in Nat, storingen <= storingen', storingen' + ingrepen <= MaxVerstoringen,
         \/ k \in {"5xx", "netwerk"}
         \/ /\ Lezen(l) /\ k = "ok"
            /\ i \in Rijen(dienst, Instructie(l).wat) \/ (Rijen(dienst, Instructie(l).wat) = {} /\ i = Geen)
  PROVE  RouteInv'
<1>1. /\ dienst \in Dienst /\ Verwijst(dienst) /\ pagina \in Paginas /\ l \in Lopend /\ geweigerd \in BOOLEAN
      /\ l.pc \in DOMAIN Draaiboek[l.stap] /\ UNCHANGED pagina
  BY DEF RouteInv, RouteTypeInv, Loopt, buitenDienst
<1>2. /\ m \in Lopend /\ m.stap = l.stap /\ m.pc = l.pc /\ m.eigen = l.eigen
      /\ m.fase = "terug" /\ m.klasse = k /\ m.id = i
  BY <1>1 DEF Lopend
<1>3. /\ Eerder(m) = Eerder(l) /\ Instructie(m) = Instructie(l) /\ Gedaan(l) = Eerder(l)
      /\ \A wat \in {"aanbesteding", "onbekende"} \cap Eerder(l) : Eigen(m) = l.eigen /\ Eigen(l) = l.eigen
  <2>1. Gedaan(l) = Eerder(l)
    BY DEF Gedaan
  <2> QED BY <1>1, <1>2, <2>1, EerderBlijft
<1>4. /\ PastBij(l.stap, l.pc, Len(Draaiboek[l.stap]), Instructie(l))
      /\ l.stap \in Stappen /\ l.pc \in Nat
  BY <1>1, InstructiePast DEF Lopend
<1>5. \A q : /\ Instructie(q)' = Instructie(q) /\ Gedaan(q)' = Gedaan(q) /\ Eigen(q)' = Eigen(q)
             /\ Bereikt(q, Instructie(l).wat)' = Bereikt(q, Instructie(l).wat)
  <2>1. \A q : Instructie(q)' = Instructie(q) /\ Gedaan(q)' = Gedaan(q) /\ Eigen(q)' = Eigen(q)
    BY <1>1, DraaiboekBlijft
  <2>2. ASSUME NEW q PROVE Bereikt(q, Instructie(l).wat)' = Bereikt(q, Instructie(l).wat)
    BY <1>1, <2>1 DEF Bereikt, Afgerond
  <2> QED BY <2>1, <2>2
<1>6. ~Lezen(l) => ~Verder(m)
  BY <1>2, <1>3 DEF Verder, Gezien
<1>7. Verder(m) => Bereikt(m, Instructie(l).wat)
  <2> SUFFICES ASSUME Verder(m) PROVE Bereikt(m, Instructie(l).wat)
    OBVIOUS
  <2> DEFINE lijst == Instructie(l).wat
  <2>1. Lezen(l) /\ k = "ok" /\ (Instructie(l).bij = "wacht" => i # Geen)
    BY <1>2, <1>3, <1>4 DEF Verder, Gezien, Lezen, PastBij
  <2>2. lijst \in Lijsten /\ (Instructie(l).bij = "lees" => pagina = "sven" /\ lijst \in {"incidenten", "netwerkrapportages"})
    BY <1>4, <2>1 DEF PastBij, Lezen
  <2>3. lijst = "incidenten" => Rijen(dienst, lijst) # {}
    <3> SUFFICES ASSUME lijst = "incidenten" PROVE Rijen(dienst, lijst) # {}
      OBVIOUS
    <3>1. "metingHoog" \in Eerder(l)
      BY <1>1, <1>4, EerderPast DEF PastBij
    <3>2. dienst.incidenten # <<>>
      BY <1>3, <3>1 DEF RouteInv, StappenKloppen, Bewezen, Bereikt
    <3>3. dienst.incidenten \in Seq(Incidentstand)
      BY <1>1 DEF Dienst
    <3>4. 1 \in DOMAIN dienst.incidenten
      <4>1. Len(dienst.incidenten) \in Nat /\ DOMAIN dienst.incidenten = 1 .. Len(dienst.incidenten)
        BY <3>3
      <4>2. Len(dienst.incidenten) # 0
        BY <3>2, <3>3
      <4> QED BY <4>1, <4>2
    <3> QED BY <1>1, <2>2, <3>4, RijenKlopt
  <2>4. lijst # "netwerkrapportages" \/ pagina = "regiekamer" => i \in Rijen(dienst, lijst)
    BY <2>1, <2>2, <2>3 DEF Lezen, Paginas
  <2>5. /\ lijst = "incidenten" => i \in DOMAIN dienst.incidenten
        /\ lijst = "trajecten" => i \in DOMAIN dienst.trajecten
        /\ lijst = "kunstwerken" => dienst.kunstwerk
        /\ lijst = "eisen" => dienst.eisen = {"onderhoud", "ontwerp"}
        /\ lijst = "sessies" => dienst.sessie
        /\ lijst = "netwerkrapportages" /\ pagina = "regiekamer" => "rapport" \in dienst.beoordelingen
        /\ lijst = "onderhoudsrapporten" => "afgerond" \in dienst.beoordelingen
    BY <1>1, <2>2, <2>4, RijenKlopt
  <2> HIDE DEF lijst
  <2>6. Bereikt(m, lijst)
    BY <1>2, <2>2, <2>5 DEF Lijsten, Bereikt
  <2> QED BY <2>6 DEF lijst
<1>8. NogOngegund(m)' /\ TerechtGeweigerd(m)'
  <2>1. l.stap = 11 => ~Lezen(l)
    BY <1>4 DEF PastBij, Lezen
  <2>2. TerechtGeweigerd(m)
    BY <1>2 DEF TerechtGeweigerd
  <2>3. NogOngegund(m)
    <3> SUFFICES ASSUME l.stap = 11, "onbekende" \in Gedaan(m) PROVE ~dienst.aanbestedingen[Eigen(m)].gegund
      BY <1>2 DEF NogOngegund
    <3>1. "onbekende" \in Eerder(l)
      BY <1>3, <1>6, <2>1 DEF Gedaan
    <3>2. ~dienst.aanbestedingen[Eigen(l)].gegund
      BY <1>3, <3>1 DEF RouteInv, StappenKloppen, NogOngegund
    <3> QED BY <1>3, <3>1, <3>2
  <2> QED BY <1>1, <1>5, <2>2, <2>3 DEF NogOngegund, TerechtGeweigerd
<1>9. \A q \in lopen \ {l} : NogOngegund(q)'
  BY <1>1, <1>5 DEF RouteInv, StappenKloppen, NogOngegund
<1>10. Instructie(l).wat # "onbekende" \/ ~Verder(m)
  BY <1>4, <1>6 DEF PastBij, Lezen, Lijsten
<1>11. Rustig /\ dienst.incidenten # <<>> => Len(dienst.incidenten) = 1 /\ status[4] # "idle" /\ NaMeting(m)
  BY <1>2 DEF RouteInv, Ongestoord, EenIncident, NaMeting
<1>12. Later(dienst, dienst')
  BY <1>1, LaterZelf
<1>13. Verder(m) => Bereikt(m, Instructie(l).wat)'
  BY <1>5, <1>7
<1> QED BY <1>1, <1>8, <1>9, <1>10, <1>11, <1>12, <1>13, BeantwoordHoudt


\* The service did what it was asked; its answer arrives, or is lost on the way.
LEMMA UitgevoerdHoudt ==
  ASSUME RouteInv, NEW l \in lopen, l.fase = "heen", ~Lezen(l), NEW k \in Klassen, NEW i \in Nat, NEW m,
         m = [l EXCEPT !.fase = "terug", !.klasse = k, !.id = i],
         lopen' = (lopen \ {l}) \cup {m}, UNCHANGED buitenDienst,
         storingen' \in Nat, storingen <= storingen', storingen' + ingrepen <= MaxVerstoringen,
         NEW a, a = Uitvoering(dienst, Instructie(l).wat, l.eigen),
         \/ k \in {"5xx", "netwerk"} /\ geweigerd' = geweigerd
         \/ k = a.klasse /\ i = a.id /\ geweigerd' = (geweigerd \/ (GunningOnbekende(l) /\ a.klasse # "ok")),
         NEW bus \in SUBSET a.na.bus, dienst' = [a.na EXCEPT !.bus = bus]
  PROVE  RouteInv'
<1> DEFINE wat == Instructie(l).wat
           e == [a.na EXCEPT !.bus = bus]
<1>1. /\ dienst \in Dienst /\ Verwijst(dienst) /\ pagina \in Paginas /\ l \in Lopend /\ geweigerd \in BOOLEAN
      /\ l.pc \in DOMAIN Draaiboek[l.stap] /\ UNCHANGED <<pagina, status>> /\ l.eigen \in Nat
  BY DEF RouteInv, RouteTypeInv, Loopt, buitenDienst, Lopend
<1>2. /\ m \in Lopend /\ m.stap = l.stap /\ m.pc = l.pc /\ m.eigen = l.eigen
      /\ m.fase = "terug" /\ m.klasse = k /\ m.id = i
  BY <1>1 DEF Lopend
<1>3. /\ Eerder(m) = Eerder(l) /\ Instructie(m) = Instructie(l) /\ Gedaan(l) = Eerder(l)
      /\ \A w \in {"aanbesteding", "onbekende"} \cap Eerder(l) : Eigen(m) = l.eigen /\ Eigen(l) = l.eigen
  <2>1. Gedaan(l) = Eerder(l)
    BY DEF Gedaan
  <2> QED BY <1>1, <1>2, <2>1, EerderBlijft
<1>4. /\ PastBij(l.stap, l.pc, Len(Draaiboek[l.stap]), Instructie(l))
      /\ l.stap \in Stappen /\ l.pc \in Nat
  BY <1>1, InstructiePast DEF Lopend
<1>5. \A q : /\ Instructie(q)' = Instructie(q) /\ Gedaan(q)' = Gedaan(q) /\ Eigen(q)' = Eigen(q)
  BY <1>1, DraaiboekBlijft
<1>6. wat \in Wensen /\ GoedUitgevoerd(dienst, wat, l.eigen, a)
  <2>1. wat \in Wensen
    BY <1>4 DEF PastBij, Lezen
  <2> QED BY <1>1, <2>1, UitvoeringKlopt
<1>7. /\ e.kunstwerk = a.na.kunstwerk /\ e.eisen = a.na.eisen /\ e.sessie = a.na.sessie
      /\ e.rapport = a.na.rapport /\ e.verklaringen = a.na.verklaringen
      /\ e.beoordelingen = a.na.beoordelingen /\ e.incidenten = a.na.incidenten
      /\ e.trajecten = a.na.trajecten /\ e.aanbestedingen = a.na.aanbestedingen /\ e.bus = bus
      /\ e \in Dienst
  <2>1. a.na \in Dienst
    BY <1>6 DEF GoedUitgevoerd, Behoudt
  <2> QED BY <2>1 DEF Dienst
<1>8. Verwijst(e) /\ Later(dienst, e)
  <2>1. Verwijst(a.na) /\ Later(dienst, a.na)
    BY <1>6 DEF GoedUitgevoerd, Behoudt
  <2>2. Verwijst(e)
    BY <1>7, <2>1 DEF Verwijst
  <2>3. Later(dienst, e)
    BY <1>7, <2>1 DEF Later
  <2> QED BY <2>2, <2>3
<1>9. dienst' = e
  OBVIOUS
<1> HIDE DEF wat, e
<1>10. Verder(m) =>
         /\ k = a.klasse /\ i = a.id /\ a.klasse \in {"ok", "conflict"}
         /\ a.klasse = "conflict" => wat = "registreer"
  <2>1. a.klasse = "conflict" => wat = "registreer"
    BY <1>6 DEF GoedUitgevoerd
  <2> QED BY <1>2, <2>1 DEF Verder, Gezien
<1>11. Verder(m) => Bereikt(m, wat)'
  <2> SUFFICES ASSUME Verder(m) PROVE Bereikt(m, wat)'
    OBVIOUS
  <2>1. wat = "registreer" => dienst'.kunstwerk
    BY <1>6, <1>7, <1>9, <1>10 DEF GoedUitgevoerd, Uitgevoerd
  <2>2. wat # "registreer" => Uitgevoerd(wat, l.eigen, a)
    BY <1>6, <1>10 DEF GoedUitgevoerd
  <2>3. wat \in {"aanbesteding", "onbekende"} => Eigen(m)' = i
    BY <1>2, <1>3, <1>4, <1>5 DEF Eigen, PastBij, wat
  <2>4. wat = "afronden" => Afgerond(m.eigen)'
    BY <1>2, <1>7, <1>9, <2>2 DEF Uitgevoerd, Afgerond
  <2>10. wat' = wat
    BY <1>5 DEF wat
  <2>5. CASE wat = "registreer"
    BY <2>10, <2>1, <2>5 DEF Bereikt
  <2>6. CASE wat \in {"aanbesteding", "onbekende"}
    BY <1>2, <1>7, <1>9, <1>10, <2>2, <2>3, <2>6, <2>10, SMTT(20) DEF Uitgevoerd, Bereikt
  <2>7. CASE wat \in {"sessie", "metingHoog", "rapport", "onderhoudseisen", "ontwerpeisen"}
    BY <1>7, <1>9, <2>2, <2>7, <2>10, SMTT(20) DEF Uitgevoerd, Bereikt
  <2>8. CASE wat \in {"gunning", "verklaring", "afronden", "oplossing"}
    BY <1>2, <1>7, <1>9, <1>10, <2>2, <2>4, <2>8, <2>10, SMTT(20) DEF Uitgevoerd, Bereikt
  <2>9. CASE wat \in {"metingLaag", "inschrijving", "start", "inspectie"}
    BY <2>9, <2>10 DEF Bereikt
  <2> QED BY <1>6, <2>5, <2>6, <2>7, <2>8, <2>9 DEF Wensen
<1>12. /\ l.stap = 11 /\ wat # "onbekende" => "onbekende" \in Eerder(l)
       /\ wat = "gunning" /\ l.stap = 6 => "aanbesteding" \in Eerder(l)
       /\ wat = "onbekende" => "onbekende" \notin Eerder(l)
       /\ l.stap = 11 => wat \in {"onbekende", "inschrijving", "gunning"}
  BY VanStapElf DEF wat
<1>13. \A q \in lopen : "onbekende" \in Gedaan(q) =>
         /\ Eigen(q) \in DOMAIN dienst.aanbestedingen
         /\ ~dienst.aanbestedingen[Eigen(q)].demo
  BY DEF RouteInv, StappenKloppen, Bewezen, Bereikt
<1>14. \A b \in DOMAIN dienst.aanbestedingen :
         wat # "gunning" \/ b # l.eigen => e.aanbestedingen[b].gegund = dienst.aanbestedingen[b].gegund
  BY <1>6, <1>7 DEF GoedUitgevoerd
<1>15. ASSUME NEW q \in lopen \ {l} PROVE NogOngegund(q)'
  <2> SUFFICES ASSUME q.stap = 11, "onbekende" \in Gedaan(q), q.fase = "heen" \/ Instructie(q).wat # "gunning"
               PROVE  ~dienst'.aanbestedingen[Eigen(q)].gegund
    BY <1>5 DEF NogOngegund
  <2>1. ~dienst.aanbestedingen[Eigen(q)].gegund
    BY DEF RouteInv, StappenKloppen, NogOngegund
  <2>2. wat = "gunning" => Eigen(q) # l.eigen
    <3> SUFFICES ASSUME wat = "gunning" PROVE Eigen(q) # l.eigen
      OBVIOUS
    <3>1. l.stap \in {6, 11}
      BY <1>4 DEF PastBij, wat
    <3>2. CASE l.stap = 6
      <4>1. "aanbesteding" \in Gedaan(l) /\ Eigen(l) = l.eigen
        BY <1>3, <1>12, <3>2
      <4>2. dienst.aanbestedingen[Eigen(l)].demo
        BY <4>1 DEF RouteInv, StappenKloppen, Bewezen, Bereikt
      <4> QED BY <1>13, <4>1, <4>2
    <3>3. CASE l.stap = 11
      <4>1. "onbekende" \in Gedaan(l) /\ Eigen(l) = l.eigen
        BY <1>3, <1>12, <3>3
      <4> QED BY <3>3, <4>1 DEF RouteInv, EigenInkoop
    <3> QED BY <3>1, <3>2, <3>3
  <2> QED BY <1>9, <1>13, <1>14, <2>1, <2>2
<1>16. NogOngegund(m)'
  <2> SUFFICES ASSUME l.stap = 11, "onbekende" \in Gedaan(m), wat # "gunning"
               PROVE  ~dienst'.aanbestedingen[Eigen(m)].gegund
    BY <1>2, <1>3, <1>5 DEF NogOngegund, wat
  <2>1. CASE wat = "onbekende"
    <3>1. Verder(m) /\ Eigen(m) = i
      BY <1>2, <1>3, <1>4, <1>12, <2>1 DEF Gedaan, Eigen, PastBij, wat
    <3> QED BY <1>6, <1>7, <1>9, <1>10, <2>1, <3>1 DEF GoedUitgevoerd
  <2>2. CASE wat # "onbekende"
    <3>1. "onbekende" \in Gedaan(l) /\ Eigen(l) = l.eigen /\ Eigen(m) = l.eigen
      BY <1>3, <1>12, <2>2
    <3>2. ~dienst.aanbestedingen[l.eigen].gegund /\ l.eigen \in DOMAIN dienst.aanbestedingen
      BY <1>13, <3>1 DEF RouteInv, StappenKloppen, NogOngegund
    <3> QED BY <1>9, <1>14, <3>1, <3>2
  <2> QED BY <2>1, <2>2
<1>17. TerechtGeweigerd(m)'
  <2> SUFFICES ASSUME l.stap = 11, k \in {"conflict", "4xx"} PROVE geweigerd'
    BY <1>2 DEF TerechtGeweigerd
  <2>1. k = a.klasse
    OBVIOUS
  <2>2. wat # "onbekende"
    BY <1>6, <2>1 DEF GoedUitgevoerd
  <2>3. wat # "inschrijving"
    <3> SUFFICES ASSUME wat = "inschrijving" PROVE FALSE
      OBVIOUS
    <3>1. "onbekende" \in Gedaan(l) /\ Eigen(l) = l.eigen
      BY <1>3, <1>12
    <3>2. ~dienst.aanbestedingen[l.eigen].gegund /\ l.eigen \in DOMAIN dienst.aanbestedingen
      BY <1>13, <3>1 DEF RouteInv, StappenKloppen, NogOngegund
    <3> QED BY <1>6, <2>1, <3>2 DEF GoedUitgevoerd
  <2>4. GunningOnbekende(l)
    BY <1>12, <2>2, <2>3 DEF GunningOnbekende, wat
  <2> QED BY <2>1, <2>4
<1>18. wat = "onbekende" /\ Verder(m) => i \notin DOMAIN dienst.aanbestedingen
  BY <1>6, <1>10 DEF GoedUitgevoerd
<1>19. Rustig /\ e.incidenten # <<>> =>
         Len(e.incidenten) = 1 /\ status[4] # "idle" /\ NaMeting(m)
  <2> SUFFICES ASSUME Rustig, e.incidenten # <<>>
               PROVE  Len(e.incidenten) = 1 /\ status[4] # "idle" /\ NaMeting(m)
    OBVIOUS
  <2>1. status[l.stap] = "running" /\ (dienst.incidenten # <<>> =>
          Len(dienst.incidenten) = 1 /\ status[4] # "idle" /\ NaMeting(l))
    BY DEF RouteInv, Ongestoord, OpVolgorde, EenIncident
  <2>2. dienst.incidenten \in Seq(Incidentstand) /\ e.incidenten \in Seq(Incidentstand)
    BY <1>1, <1>7 DEF Dienst
  <2>3. CASE dienst.incidenten # <<>>
    <3>1. wat # "metingHoog" /\ NaMeting(m)
      BY <1>2, <1>4, <2>1, <2>3 DEF PastBij, NaMeting, wat
    <3>2. Len(e.incidenten) = Len(dienst.incidenten)
      BY <1>6, <1>7, <3>1 DEF GoedUitgevoerd
    <3> QED BY <2>1, <2>3, <3>1, <3>2
  <2>4. CASE dienst.incidenten = <<>>
    <3>1. Len(e.incidenten) # 0 /\ Len(dienst.incidenten) = 0
      BY <2>2, <2>4
    <3>2. wat = "metingHoog" /\ Len(e.incidenten) = 1
      BY <1>6, <1>7, <3>1 DEF GoedUitgevoerd
    <3>3. l.stap = 4 /\ l.pc = 2
      BY <1>4, <3>2 DEF PastBij, wat
    <3> QED BY <1>2, <2>1, <3>2, <3>3 DEF NaMeting
  <2> QED BY <2>3, <2>4
<1>20. geweigerd' \in BOOLEAN /\ (geweigerd => geweigerd')
  BY <1>1
<1>21. dienst' \in Dienst /\ Verwijst(dienst') /\ Later(dienst, dienst')
  BY <1>7, <1>8, <1>9
<1>22. Verder(m) => Bereikt(m, Instructie(l).wat)'
  BY <1>5, <1>11 DEF wat
<1>23. Instructie(l).wat = "onbekende" /\ Verder(m) => i \notin DOMAIN dienst.aanbestedingen
  BY <1>18 DEF wat
<1>24. Rustig /\ dienst'.incidenten # <<>> =>
         Len(dienst'.incidenten) = 1 /\ status[4] # "idle" /\ NaMeting(m)
  BY <1>9, <1>19
<1> QED BY <1>15, <1>16, <1>17, <1>20, <1>21, <1>22, <1>23, <1>24, BeantwoordHoudt

LEMMA UitvoeringGaat ==
  ASSUME RouteInv, NEW l \in lopen, ~Lezen(l)
  PROVE  GoedUitgevoerd(dienst, Instructie(l).wat, l.eigen, Uitvoering(dienst, Instructie(l).wat, l.eigen))
<1>1. /\ dienst \in Dienst /\ Verwijst(dienst) /\ pagina \in Paginas /\ l \in Lopend /\ l.eigen \in Nat
      /\ l.pc \in DOMAIN Draaiboek[l.stap]
  BY DEF RouteInv, RouteTypeInv, Loopt, Lopend
<1>2. Instructie(l).wat \in Wensen
  BY <1>1, InstructiePast DEF PastBij, Lezen
<1> QED BY <1>1, <1>2, UitvoeringKlopt

\* A service without an outbox only adds events to those under way.
LEMMA ZonderOutboxLaatStaan ==
  ASSUME NEW d, d \in Dienst, NEW wat \in ZonderOutbox, NEW id
  PROVE  d.bus \subseteq Uitvoering(d, wat, id).na.bus
<1>1. CASE wat = "registreer"
  BY <1>1 DEF Uitvoering, Registreer, Antwoord, Gelukt, Dienst
<1>2. CASE wat \in {"onderhoudseisen", "ontwerpeisen"}
  BY <1>2 DEF Uitvoering, StelEisenVast, Antwoord, Gelukt, Weigering, Dienst
<1>3. CASE wat = "start"
  BY <1>3 DEF Uitvoering, Start, Antwoord, Gelukt, Weigering, Dienst
<1>4. CASE wat = "afronden"
  BY <1>4 DEF Uitvoering, RondAf, Antwoord, Gelukt, Weigering, Dienst
<1> QED BY <1>1, <1>2, <1>3, <1>4 DEF ZonderOutbox

LEMMA VoerHoudt == ASSUME RouteInv, NEW l \in lopen, Voer(l) PROVE RouteInv'
<1>1. /\ l.fase = "heen" /\ UNCHANGED <<buitenDienst, storingen>>
      /\ storingen' \in Nat /\ storingen <= storingen' /\ storingen' + ingrepen <= MaxVerstoringen
      /\ dienst \in Dienst /\ l.eigen \in Nat
  BY DEF Voer, RouteInv, RouteTypeInv, Lopend
<1>2. CASE Lezen(l)
  <2> DEFINE rows == Rijen(dienst, Instructie(l).wat)
  <2>1. PICK r \in IF rows = {} THEN {Geen} ELSE rows : Beantwoord(l, "ok", r)
    BY <1>2 DEF Voer
  <2>2. UNCHANGED <<dienst, geweigerd>>
    BY <1>2 DEF Voer
  <2>3. Instructie(l).wat \in Lijsten
    <3>1. pagina \in Paginas /\ l \in Lopend /\ l.pc \in DOMAIN Draaiboek[l.stap]
      BY DEF RouteInv, RouteTypeInv, Loopt
    <3> QED BY <1>2, <3>1, InstructiePast DEF PastBij, Lezen
  <2>4. r \in Nat /\ (r \in rows \/ (rows = {} /\ r = Geen))
    BY <1>1, <2>3, RijenKlopt DEF Geen
  <2> QED BY <1>1, <1>2, <2>1, <2>2, <2>4, OngewijzigdHoudt DEF Beantwoord, Klassen
<1>3. CASE ~Lezen(l)
  <2> DEFINE a == Uitvoering(dienst, Instructie(l).wat, l.eigen)
  <2>1. /\ Beantwoord(l, a.klasse, a.id) /\ dienst' = a.na
        /\ geweigerd' = (geweigerd \/ (GunningOnbekende(l) /\ a.klasse # "ok"))
    BY <1>3 DEF Voer
  <2>2. Behoudt(dienst, a)
    BY <1>3, UitvoeringGaat DEF GoedUitgevoerd
  <2>3. a.klasse \in Klassen /\ a.id \in Nat /\ [a.na EXCEPT !.bus = a.na.bus] = a.na
    BY <2>2 DEF Behoudt, Klassen, Dienst
  <2>4. dienst' = [a.na EXCEPT !.bus = a.na.bus] /\ a.na.bus \in SUBSET a.na.bus
    BY <2>1, <2>3
  <2>5. lopen' = (lopen \ {l}) \cup {[l EXCEPT !.fase = "terug", !.klasse = a.klasse, !.id = a.id]}
    BY <2>1 DEF Beantwoord
  <2>6. a = Uitvoering(dienst, Instructie(l).wat, l.eigen)
    OBVIOUS
  <2> HIDE DEF a
  <2>7. ASSUME NEW k \in Klassen, NEW i \in Nat, NEW m, NEW bus \in SUBSET a.na.bus,
               k = a.klasse, i = a.id, bus = a.na.bus,
               m = [l EXCEPT !.fase = "terug", !.klasse = k, !.id = i]
        PROVE  RouteInv'
    <3>1. dienst' = [a.na EXCEPT !.bus = bus] /\ lopen' = (lopen \ {l}) \cup {m} /\ UNCHANGED buitenDienst
      BY <1>1, <2>4, <2>5, <2>7
    <3>2. k = a.klasse /\ i = a.id /\ geweigerd' = (geweigerd \/ (GunningOnbekende(l) /\ a.klasse # "ok"))
      BY <2>1, <2>7
    <3> QED BY <1>1, <1>3, <2>6, <2>7, <3>1, <3>2, UitgevoerdHoudt
  <2> QED BY <2>3, <2>4, <2>7
<1> QED BY <1>2, <1>3

LEMMA VerliesHoudt == ASSUME RouteInv, NEW l \in lopen, Verlies(l) PROVE RouteInv'
<1> DEFINE a == Uitvoering(dienst, Instructie(l).wat, l.eigen)
<1>1. /\ l.fase = "heen" /\ UNCHANGED <<buitenDienst, geweigerd>> /\ storingen' = storingen + 1 /\ Ruimte
      /\ ingrepen \in Nat /\ storingen \in Nat
  BY DEF Verlies, RouteInv, RouteTypeInv
<1>2. storingen' \in Nat /\ storingen <= storingen' /\ storingen' + ingrepen <= MaxVerstoringen
  BY <1>1, BegrensdAanname DEF Ruimte
<1>3. CASE UNCHANGED dienst /\ \E klasse \in {"5xx", "netwerk"} : Beantwoord(l, klasse, Geen)
  <2>1. PICK klasse \in {"5xx", "netwerk"} : Beantwoord(l, klasse, Geen)
    BY <1>3
  <2> QED BY <1>1, <1>2, <1>3, <2>1, OngewijzigdHoudt DEF Beantwoord, Klassen, Geen
<1>4. ASSUME ~Lezen(l), NEW klasse \in {"5xx", "netwerk"}, Beantwoord(l, klasse, Geen),
             NEW bus \in SUBSET a.na.bus, dienst' = [a.na EXCEPT !.bus = bus]
      PROVE  RouteInv'
  BY <1>1, <1>2, <1>4, UitgevoerdHoudt DEF Beantwoord, Klassen, Geen
<1>5. ~Lezen(l) => a.na \in Dienst /\ [a.na EXCEPT !.bus = a.na.bus] = a.na
  BY UitvoeringGaat DEF GoedUitgevoerd, Behoudt, Dienst
<1>6. CASE ~Lezen(l) /\ Beantwoord(l, "netwerk", Geen) /\ dienst' = a.na
  BY <1>4, <1>5, <1>6
<1>7. CASE /\ ~Lezen(l) /\ Instructie(l).wat \in ZonderOutbox /\ a.klasse = "ok"
           /\ Beantwoord(l, "5xx", Geen) /\ dienst' = [a.na EXCEPT !.bus = dienst.bus]
  <2>1. dienst.bus \subseteq a.na.bus
    BY <1>7, ZonderOutboxLaatStaan DEF RouteInv, RouteTypeInv
  <2> QED BY <1>4, <1>7, <2>1
<1> QED BY <1>3, <1>6, <1>7 DEF Verlies


LEMMA BezorgHoudt == ASSUME RouteInv, NEW b, Bezorg(b) PROVE RouteInv'
<1>1. /\ b \in dienst.bus /\ dienst' = Bezorgd(dienst, b)
      /\ UNCHANGED <<pagina, status, refs, lopen, alles, pijl, storingen, ingrepen, geweigerd>>
  BY DEF Bezorg
<1>2. /\ dienst \in Dienst /\ Verwijst(dienst)
      /\ RouteTypeInv /\ StappenKloppen /\ EigenInkoop /\ RefsKloppen /\ KlaarIsWaar /\ IdsBekend /\ Ongestoord
  BY DEF RouteInv, RouteTypeInv
<1>3. /\ dienst' \in Dienst /\ Verwijst(dienst') /\ Later(dienst, dienst')
      /\ dienst'.incidenten = dienst.incidenten /\ dienst'.aanbestedingen = dienst.aanbestedingen
  BY <1>1, <1>2, BezorgdKlopt
<1>4. \A q : /\ Instructie(q)' = Instructie(q) /\ Verder(q)' = Verder(q) /\ Gedaan(q)' = Gedaan(q)
             /\ Eigen(q)' = Eigen(q) /\ Draaiboek' = Draaiboek
  BY <1>1, DraaiboekBlijft
<1>5. RouteTypeInv'
  BY <1>1, <1>2, <1>3, <1>4 DEF RouteTypeInv, Loopt
<1>6. \A q, wat : Bereikt(q, wat) => Bereikt(q, wat)'
  BY <1>1, <1>2, <1>3, BereiktBlijft
<1>7. StappenKloppen'
  <2>1. ASSUME NEW q \in lopen PROVE Bewezen(q)' /\ NogOngegund(q)' /\ TerechtGeweigerd(q)'
    <3>1. Bewezen(q) /\ NogOngegund(q) /\ TerechtGeweigerd(q)
      BY <1>2 DEF StappenKloppen
    <3>2. Bewezen(q)'
      BY <1>4, <1>6, <3>1 DEF Bewezen
    <3>3. NogOngegund(q)' /\ TerechtGeweigerd(q)'
      BY <1>1, <1>3, <1>4, <3>1 DEF NogOngegund, TerechtGeweigerd
    <3> QED BY <3>2, <3>3
  <2> QED BY <1>1, <2>1 DEF StappenKloppen
<1>8. EigenInkoop'
  BY <1>1, <1>2, <1>4 DEF EigenInkoop
<1>9. RefsKloppen'
  BY <1>1, <1>2, <1>3, RefsBlijven
<1>10. KlaarIsWaar'
  BY <1>1, <1>2, <1>3, WaarBlijft DEF KlaarIsWaar
<1>11. IdsBekend'
  BY <1>1, <1>2 DEF IdsBekend, Gehaald
<1>12. Ongestoord'
  <2> SUFFICES ASSUME Rustig' PROVE OpVolgorde' /\ EenIncident' /\ VanDezeRoute'
    BY DEF Ongestoord
  <2>1. OpVolgorde /\ EenIncident /\ VanDezeRoute
    BY <1>1, <1>2 DEF Rustig, Ongestoord
  <2>2. OpVolgorde'
    BY <1>1, <2>1 DEF OpVolgorde, MetDitBoek, Licht, Pijlen
  <2>3. EenIncident'
    BY <1>1, <1>3, <2>1 DEF EenIncident
  <2>4. VanDezeRoute'
    BY <1>1, <1>2, <1>3, <2>1, VanDezeRouteBlijft
  <2> QED BY <2>2, <2>3, <2>4
<1> QED BY <1>5, <1>7, <1>8, <1>9, <1>10, <1>11, <1>12 DEF RouteInv

-----------------------------------------------------------------------------
(* Demoroute: the page takes an answer, and the services do nothing.       *)

LEMMA DienstStil ==
  ASSUME UNCHANGED <<pagina, dienst, geweigerd>>
  PROVE  /\ \A q : /\ Bewezen(q)' = Bewezen(q) /\ NogOngegund(q)' = NogOngegund(q)
                   /\ TerechtGeweigerd(q)' = TerechtGeweigerd(q)
                   /\ Gedaan(q)' = Gedaan(q) /\ Eigen(q)' = Eigen(q) /\ Draaiboek' = Draaiboek
         /\ \A n : Waar(n)' = Waar(n)
<1>1. \A q : /\ Instructie(q)' = Instructie(q) /\ Gedaan(q)' = Gedaan(q) /\ Eigen(q)' = Eigen(q)
             /\ Draaiboek' = Draaiboek
  BY DraaiboekBlijft
<1>2. ASSUME NEW q PROVE Bewezen(q)' = Bewezen(q)
  <2>1. ASSUME NEW wat PROVE Bereikt(q, wat)' = Bereikt(q, wat)
    BY <1>1 DEF Bereikt, Afgerond
  <2> QED BY <1>1, <2>1 DEF Bewezen
<1>3. ASSUME NEW q PROVE NogOngegund(q)' = NogOngegund(q) /\ TerechtGeweigerd(q)' = TerechtGeweigerd(q)
  BY <1>1 DEF NogOngegund, TerechtGeweigerd
<1>4. ASSUME NEW n PROVE Waar(n)' = Waar(n)
  BY DEF Waar, Afgerond
<1> QED BY <1>1, <1>2, <1>3, <1>4

\* Step l sends its next request, or the same one again, as m.
Stuurt(l, m) ==
  /\ m \in Lopend /\ Loopt(m) /\ m.stap = l.stap /\ m.fase = "heen" /\ m.klasse = "ok"
  /\ Gedaan(m) = Gedaan(l) /\ \A wat \in Gedaan(l) : Bereikt(l, wat) => Bereikt(m, wat)
  /\ l.stap = 11 => Instructie(l).wat # "gunning" /\ ("onbekende" \in Gedaan(l) => Eigen(m) = Eigen(l))
  /\ l.stap \in {8, 9, 10} \/ "inschrijving" \in Gedaan(l) => m.eigen = l.eigen
  /\ NaMeting(l) => NaMeting(m)
  /\ lopen' = (lopen \ {l}) \cup {m}
  /\ UNCHANGED <<pagina, dienst, status, refs, alles, pijl, storingen, ingrepen, geweigerd>>

LEMMA StuurtHoudt == ASSUME RouteInv, NEW l \in lopen, NEW m, Stuurt(l, m) PROVE RouteInv'
<1> USE DEF Stuurt
<1>1. RouteTypeInv /\ StappenKloppen /\ EigenInkoop /\ RefsKloppen /\ KlaarIsWaar /\ IdsBekend /\ Ongestoord
  BY DEF RouteInv
<1>2. /\ \A q : /\ Bewezen(q)' = Bewezen(q) /\ NogOngegund(q)' = NogOngegund(q)
                /\ TerechtGeweigerd(q)' = TerechtGeweigerd(q)
                /\ Gedaan(q)' = Gedaan(q) /\ Eigen(q)' = Eigen(q) /\ Draaiboek' = Draaiboek
      /\ \A n : Waar(n)' = Waar(n)
  BY DienstStil
<1>3. RouteTypeInv'
  <2>1. lopen' \subseteq Lopend /\ \A q \in lopen' : Loopt(q)'
    BY <1>1, <1>2 DEF RouteTypeInv, Loopt
  <2> QED BY <1>1, <2>1 DEF RouteTypeInv
<1>4. StappenKloppen'
  <2>1. Bewezen(m)
    BY <1>1 DEF StappenKloppen, Bewezen
  <2>2. NogOngegund(m) /\ TerechtGeweigerd(m)
    BY <1>1 DEF StappenKloppen, NogOngegund, TerechtGeweigerd
  <2> QED BY <1>1, <1>2, <2>1, <2>2 DEF StappenKloppen
<1>5. EigenInkoop'
  BY <1>1, <1>2 DEF EigenInkoop
<1>6. RefsKloppen' /\ KlaarIsWaar'
  BY <1>1, <1>2 DEF RefsKloppen, KlaarIsWaar
<1>7. IdsBekend'
  BY <1>1 DEF IdsBekend, Gehaald
<1>8. Ongestoord'
  <2> SUFFICES ASSUME Rustig' PROVE OpVolgorde' /\ EenIncident' /\ VanDezeRoute'
    BY DEF Ongestoord
  <2>1. OpVolgorde /\ EenIncident /\ VanDezeRoute /\ lopen = {l} /\ lopen' = {m}
    BY <1>1 DEF Rustig, Ongestoord, OpVolgorde
  <2>2. OpVolgorde'
    BY <2>1 DEF OpVolgorde, MetDitBoek, Licht, Pijlen
  <2>3. EenIncident' /\ VanDezeRoute'
    BY <2>1 DEF EenIncident, VanDezeRoute, Afgerond
  <2> QED BY <2>2, <2>3
<1> QED BY <1>3, <1>4, <1>5, <1>6, <1>7, <1>8 DEF RouteInv


LEMMA VolgendeVraagStuurt == ASSUME RouteInv, NEW l \in lopen, VolgendeVraag(l) PROVE \E m : Stuurt(l, m)
<1> DEFINE m == [l EXCEPT !.fase = "heen", !.klasse = "ok", !.pc = @ + 1, !.pogingen = 0, !.id = Geen,
                          !.eigen = IF Instructie(l).ref = "eigen" THEN l.id ELSE @]
           s == Draaiboek[l.stap]
<1>1. /\ l.fase = "terug" /\ Verder(l) /\ ~Laatste(l) /\ refs' = Onthoud(l)
      /\ lopen' = (lopen \ {l}) \cup {m}
      /\ UNCHANGED <<pagina, dienst, storingen, ingrepen, geweigerd, status, alles, pijl>>
  BY DEF VolgendeVraag, buitenBlad
<1>2. /\ pagina \in Paginas /\ l \in Lopend /\ Loopt(l) /\ l.pc \in DOMAIN s
  BY DEF RouteInv, RouteTypeInv, Loopt
<1>3. /\ PastBij(l.stap, l.pc, Len(s), Instructie(l)) /\ l.stap \in Stappen
      /\ l.pc \in 1 .. Len(s) /\ Len(s) \in Nat /\ DOMAIN s = 1 .. Len(s)
      /\ \A j \in DOMAIN s : PastBij(l.stap, j, Len(s), s[j])
  BY <1>2, InstructiePast, DraaiboekPast
<1>4. l.pc # Len(s) /\ l.pc + 1 \in DOMAIN s
  BY <1>1, <1>3 DEF Laatste
<1>5. Instructie(l).ref \notin Ids /\ UNCHANGED refs
  <2>1. Instructie(l).ref \notin Ids
    BY <1>3, <1>4 DEF PastBij
  <2> QED BY <1>1, <2>1 DEF Onthoud, LegeRefs, Ids
<1>6. /\ m \in Lopend /\ m.stap = l.stap /\ m.pc = l.pc + 1 /\ m.gen = l.gen /\ m.pogingen = 0
      /\ m.fase = "heen" /\ m.klasse = "ok"
      /\ m.eigen = IF Instructie(l).ref = "eigen" THEN l.id ELSE l.eigen
  <2> DEFINE eigenId == IF Instructie(l).ref = "eigen" THEN l.id ELSE l.eigen
  <2>1. l.pc \in Nat /\ l.pc + 1 \in Nat /\ eigenId \in Nat /\ Geen \in Nat /\ "ok" \in Klassen
    BY <1>2 DEF Lopend, Geen, Klassen
  <2>2. m = [l EXCEPT !.fase = "heen", !.klasse = "ok", !.pc = l.pc + 1, !.pogingen = 0, !.id = Geen,
                      !.eigen = eigenId]
    BY <1>2 DEF Lopend
  <2> HIDE DEF eigenId, m
  <2>3. m \in Lopend /\ m.stap = l.stap /\ m.gen = l.gen
    BY <1>2, <2>1, <2>2 DEF Lopend
  <2>4. m.pc = l.pc + 1 /\ m.pogingen = 0 /\ m.fase = "heen" /\ m.klasse = "ok" /\ m.eigen = eigenId
    BY <1>2, <2>2 DEF Lopend
  <2> QED BY <2>3, <2>4 DEF eigenId
<1> HIDE DEF m
<1>7. Loopt(m)
  BY <1>2, <1>4, <1>6, BegrensdAanname DEF Loopt
<1>8. Gedaan(m) = Gedaan(l)
  <2>1. Gedaan(l) = Eerder(l) \cup {Instructie(l).wat}
    BY <1>1 DEF Gedaan
  <2>2. Gedaan(m) = Eerder(m)
    BY <1>6 DEF Gedaan
  <2>3. \A wat : wat \in Eerder(m) <=> \E j \in DOMAIN s : j < l.pc + 1 /\ wat = s[j].wat
    BY <1>6 DEF Eerder
  <2>4. \A wat : wat \in Eerder(l) <=> \E j \in DOMAIN s : j < l.pc /\ wat = s[j].wat
    BY DEF Eerder
  <2>5. Instructie(l) = s[l.pc]
    BY DEF Instructie
  <2> HIDE DEF s
  <2>6. \A j \in DOMAIN s : j < l.pc + 1 <=> j < l.pc \/ j = l.pc
    BY <1>3
  <2>7. Eerder(m) = Eerder(l) \cup {Instructie(l).wat}
    BY <1>2, <2>3, <2>4, <2>5, <2>6
  <2> QED BY <2>1, <2>2, <2>7
<1>9. Eigen(m) = Eigen(l)
  <2>1. Instructie(m).ref # "eigen"
    <3>1. m.pc \in DOMAIN s /\ Instructie(m) = s[m.pc] /\ m.pc # 1
      BY <1>3, <1>4, <1>6 DEF Instructie
    <3> HIDE DEF s
    <3>2. PastBij(l.stap, m.pc, Len(s), Instructie(m))
      BY <1>3, <3>1
    <3> QED BY <3>1, <3>2 DEF PastBij
  <2> QED BY <1>6, <2>1 DEF Eigen
<1>10. l.stap \notin {6, 11} => m.eigen = l.eigen
  BY <1>3, <1>6 DEF PastBij
<1>11. ASSUME NEW wat \in Gedaan(l), Bereikt(l, wat) PROVE Bereikt(m, wat)
  <2>1. PICK j \in DOMAIN s : j # Len(s) /\ wat = s[j].wat
    <3>1. CASE wat \in Eerder(l)
      BY <1>3, <3>1 DEF Eerder
    <3>2. CASE wat = Instructie(l).wat
      BY <1>2, <1>4, <3>2 DEF Instructie
    <3> QED BY <3>1, <3>2, <1>11 DEF Gedaan
  <2> HIDE DEF s
  <2>2. PastBij(l.stap, j, Len(s), s[j])
    BY <1>3
  <2>3. wat \notin {"incidenten", "trajecten", "gunning"}
    BY <2>1, <2>2 DEF PastBij, Ids
  <2>4. wat \in {"verklaring", "afronden", "oplossing"} => m.eigen = l.eigen
    BY <1>10, <2>1, <2>2 DEF PastBij
  <2> QED BY <1>9, <1>11, <2>3, <2>4 DEF Bereikt
<1>12. l.stap = 11 => Instructie(l).wat # "gunning"
  BY <1>3, <1>4 DEF PastBij
<1>13. NaMeting(l) => NaMeting(m)
  <2>1. l.stap = 4 => l.pc # 3
    BY <1>3, <1>4 DEF PastBij, Ids
  <2> QED BY <1>6, <2>1 DEF NaMeting
<1>14. "inschrijving" \in Gedaan(l) => m.eigen = l.eigen
  <2> SUFFICES ASSUME Instructie(l).ref = "eigen" PROVE "inschrijving" \notin Gedaan(l)
    BY <1>6
  <2>1. l.pc = 1 /\ Instructie(l).wat # "inschrijving"
    BY <1>3 DEF PastBij
  <2>2. \A j \in DOMAIN s : ~(j < 1)
    BY <1>3
  <2> QED BY <2>1, <2>2 DEF Gedaan, Eerder
<1> QED
  BY <1>1, <1>5, <1>6, <1>7, <1>8, <1>9, <1>10, <1>11, <1>12, <1>13, <1>14 DEF Stuurt

LEMMA NogEensStuurt == ASSUME RouteInv, NEW l \in lopen, NogEens(l) PROVE \E m : Stuurt(l, m)
<1> DEFINE m == [l EXCEPT !.fase = "heen", !.klasse = "ok", !.pogingen = @ + 1, !.id = Geen]
<1>1. /\ l.fase = "terug" /\ Opnieuw(l) /\ l.pogingen < MaxPogingen /\ lopen' = (lopen \ {l}) \cup {m}
      /\ UNCHANGED <<pagina, dienst, storingen, ingrepen, geweigerd, status, refs, alles, pijl>>
  BY DEF NogEens, buitenBlad
<1>2. /\ pagina \in Paginas /\ l \in Lopend /\ Loopt(l) /\ l.pc \in DOMAIN Draaiboek[l.stap]
  BY DEF RouteInv, RouteTypeInv, Loopt
<1>3. PastBij(l.stap, l.pc, Len(Draaiboek[l.stap]), Instructie(l)) /\ l.stap \in Stappen
  BY <1>2, InstructiePast
<1>4. /\ m \in Lopend /\ m.stap = l.stap /\ m.pc = l.pc /\ m.gen = l.gen /\ m.pogingen = l.pogingen + 1
      /\ m.fase = "heen" /\ m.klasse = "ok" /\ m.eigen = l.eigen
  <2>1. l.pogingen \in Nat /\ l.pogingen + 1 \in Nat /\ Geen \in Nat /\ "ok" \in Klassen
    BY <1>2 DEF Lopend, Geen, Klassen
  <2>2. m = [l EXCEPT !.fase = "heen", !.klasse = "ok", !.pogingen = l.pogingen + 1, !.id = Geen]
    BY <1>2 DEF Lopend
  <2> HIDE DEF m
  <2> QED BY <1>2, <2>1, <2>2 DEF Lopend
<1> HIDE DEF m
<1>5. Loopt(m)
  BY <1>1, <1>2, <1>4, BegrensdAanname DEF Loopt
<1>6. Gedaan(m) = Gedaan(l) /\ Gedaan(l) = Eerder(l) /\ (\A wat \in Eerder(l) : Bereikt(l, wat) => Bereikt(m, wat))
  <2>1. /\ Eerder(m) = Eerder(l) /\ \A wat \in Eerder(l) : Bereikt(l, wat) => Bereikt(m, wat)
    BY <1>2, <1>4, EerderBlijft
  <2> QED BY <1>1, <1>4, <2>1 DEF Gedaan, Opnieuw
<1>7. l.stap # 11
  BY <1>1, <1>3 DEF PastBij, Opnieuw
<1>8. NaMeting(l) => NaMeting(m)
  <2>1. Instructie(l).wat # "metingHoog"
    BY <1>1, <1>3 DEF PastBij, Opnieuw, Wensen, Lijsten
  <2> QED BY <1>3, <1>4, <2>1 DEF PastBij, NaMeting
<1> QED
  BY <1>1, <1>4, <1>5, <1>6, <1>7, <1>8 DEF Stuurt

-----------------------------------------------------------------------------
(* Demoroute: a step begins.                                               *)

LEMMA LegeKlopt ==
  ASSUME RouteTypeInv, NEW n \in Stappen, NEW g \in DOMAIN refs
  PROVE  LET q == Lege(n, g)
         IN  /\ q \in Lopend /\ q.stap = n /\ q.gen = g /\ q.pc = 1 /\ q.pogingen = 0 /\ Loopt(q)
             /\ (q.fase = "heen" /\ q.klasse = "ok") \/ (q.fase = "terug" /\ q.klasse = "geenId")
             /\ n \in {8, 9, 10} => Nodig(n) \in Ids /\ q.eigen = refs[g][Nodig(n)]
             /\ n \notin {8, 9, 10} \/ refs[g][Nodig(n)] # Geen => q.klasse = "ok"
<1> DEFINE q == Lege(n, g)
           id == IF Nodig(n) = "geen" THEN Geen ELSE refs[g][Nodig(n)]
<1>1. /\ n \in {8, 9, 10} => Nodig(n) \in Ids /\ Nodig(n) # "geen"
      /\ n \notin {8, 9, 10} => Nodig(n) = "geen"
  BY DEF Nodig, Ids
<1>2. refs[g] \in Idboek /\ g \in Nat
  BY DEF RouteTypeInv
<1>3. id \in Nat /\ 0 \in Nat /\ 1 \in Nat /\ Geen \in Nat
  BY <1>1, <1>2 DEF Idboek, Geen
<1>4. q = [stap |-> n, gen |-> g, pc |-> 1, pogingen |-> 0, eigen |-> id, id |-> Geen,
           fase |-> IF Nodig(n) # "geen" /\ id = Geen THEN "terug" ELSE "heen",
           klasse |-> IF Nodig(n) # "geen" /\ id = Geen THEN "geenId" ELSE "ok"]
  BY DEF Lege
<1>5. /\ q.stap = n /\ q.gen = g /\ q.pc = 1 /\ q.pogingen = 0 /\ q.eigen = id
      /\ (q.fase = "heen" /\ q.klasse = "ok") \/ (q.fase = "terug" /\ q.klasse = "geenId")
      /\ n \notin {8, 9, 10} \/ id # Geen => q.klasse = "ok"
  <2> HIDE DEF q, id
  <2> QED BY <1>1, <1>4
<1>6. q \in Lopend
  BY <1>2, <1>3, <1>4 DEF Lopend, Klassen
<1>7. 1 \in DOMAIN Draaiboek[n]
  BY DraaiboekPast DEF RouteTypeInv
<1>8. Loopt(q)
  BY <1>5, <1>7, BegrensdAanname DEF Loopt
<1> HIDE DEF q
<1> QED BY <1>1, <1>5, <1>6, <1>8 DEF q

\* A step that begins has nothing to prove yet.
LEMMA NogNietsGedaan ==
  ASSUME pagina \in Paginas, NEW q \in Lopend, q.pc = 1,
         q.fase = "heen" \/ q.klasse = "geenId"
  PROVE  Gedaan(q) = {} /\ Bewezen(q) /\ NogOngegund(q) /\ TerechtGeweigerd(q)
<1>1. Eerder(q) = {}
  <2>1. \A i \in DOMAIN Draaiboek[q.stap] : ~(i < 1)
    BY DraaiboekPast DEF Lopend
  <2> QED BY <2>1 DEF Eerder
<1>2. Gedaan(q) = {}
  BY <1>1 DEF Gedaan, Verder, Gezien
<1> QED BY <1>2 DEF Bewezen, NogOngegund, TerechtGeweigerd

-----------------------------------------------------------------------------
(* Demoroute: a step is over.                                              *)

\* What step n proved about the ids of the route.
MetDeJuiste(l) ==
  /\ l.stap = 8 => l.eigen \in dienst.verklaringen
  /\ l.stap = 9 => Afgerond(l.eigen)
  /\ l.stap = 10 => l.eigen \in DOMAIN dienst.incidenten /\ dienst.incidenten[l.eigen] = "Opgelost"

\* The ids after the last answer to l are those before it, and the one it may have added.
Aangevuld(l, boek, af) ==
  /\ boek \in Seq(Idboek) /\ Len(boek) = Len(refs)
  /\ \A g \in DOMAIN refs, r \in Ids : refs[g][r] # Geen => boek[g][r] # Geen
  /\ l.stap \notin {4, 5, 6} => boek = refs
  /\ af /\ l.stap = 4 => boek[l.gen].incident # Geen
  /\ af /\ l.stap = 5 => boek[l.gen].onderhoud # Geen
  /\ af /\ l.stap = 6 => boek[l.gen].contract # Geen

LEMMA EindeHoudt ==
  ASSUME RouteInv, NEW l \in lopen, NEW uitkomst \in {"done", "error"}, Einde(l, uitkomst),
         UNCHANGED buitenBlad, Aangevuld(l, refs', uitkomst = "done"), RefsKloppen',
         uitkomst = "done" => Waar(l.stap) /\ MetDeJuiste(l)
  PROVE  RouteInv'
<1> DEFINE n        == l.stap
           vanAlles == alles = n /\ l.gen = Heden
           door     == vanAlles /\ uitkomst = "done" /\ n < 11
           volgende == [Lege(IF door THEN n + 1 ELSE n, l.gen) EXCEPT !.gen = l.gen]
<1>1. /\ RouteTypeInv /\ StappenKloppen /\ EigenInkoop /\ RefsKloppen /\ KlaarIsWaar
      /\ IdsBekend /\ Ongestoord
  BY DEF RouteInv
<1>2. /\ n \in Stappen /\ n \in 1 .. 11 /\ n \in Nat /\ l \in Lopend /\ l.gen \in DOMAIN refs /\ refs \in Seq(Idboek)
      /\ DOMAIN refs = 1 .. Len(refs) /\ Len(refs) \in Nat
      /\ status \in [Stappen -> {"idle", "running", "done", "error"}]
      /\ UNCHANGED <<pagina, dienst, storingen, ingrepen, geweigerd>>
  <2>1. l \in Lopend /\ Loopt(l)
    BY <1>1 DEF RouteTypeInv
  <2>2. n \in Stappen
    BY <2>1 DEF Lopend
  <2>3. n \in 1 .. 11 /\ n \in Nat
    BY <2>2 DEF Stappen
  <2>4. l.gen \in DOMAIN refs
    BY <2>1 DEF Loopt
  <2>5. /\ refs \in Seq(Idboek) /\ DOMAIN refs = 1 .. Len(refs) /\ Len(refs) \in Nat
        /\ status \in [Stappen -> {"idle", "running", "done", "error"}]
    BY <1>1 DEF RouteTypeInv
  <2> HIDE DEF n
  <2> QED BY <2>1, <2>2, <2>3, <2>4, <2>5 DEF buitenBlad
<1>3. /\ refs' \in Seq(Idboek) /\ Len(refs') = Len(refs) /\ DOMAIN refs' = DOMAIN refs
      /\ \A g \in DOMAIN refs, r \in Ids : refs[g][r] # Geen => refs'[g][r] # Geen
      /\ n \notin {4, 5, 6} => refs' = refs
  BY <1>2 DEF Aangevuld
<1>4. /\ status' = IF door THEN [status EXCEPT ![n] = uitkomst, ![n + 1] = "running"]
                   ELSE [status EXCEPT ![n] = uitkomst]
      /\ lopen' = (lopen \ {l}) \cup (IF door THEN {volgende} ELSE {})
      /\ alles' = IF door THEN n + 1 ELSE IF vanAlles THEN Geen ELSE alles
      /\ pijl' = Geen
  BY DEF Einde
<1>5. door => /\ n + 1 \in Stappen /\ volgende = Lege(n + 1, l.gen)
              /\ volgende \in Lopend /\ volgende.stap = n + 1 /\ volgende.gen = l.gen /\ volgende.pc = 1
              /\ volgende.fase = "heen" \/ volgende.klasse = "geenId"
              /\ n + 1 \in {8, 9, 10} => Nodig(n + 1) \in Ids /\ volgende.eigen = refs[l.gen][Nodig(n + 1)]
              /\ Loopt(volgende)
  <2> SUFFICES ASSUME door
               PROVE  /\ n + 1 \in Stappen /\ volgende = Lege(n + 1, l.gen)
                      /\ volgende \in Lopend /\ volgende.stap = n + 1 /\ volgende.gen = l.gen /\ volgende.pc = 1
                      /\ volgende.fase = "heen" \/ volgende.klasse = "geenId"
                      /\ n + 1 \in {8, 9, 10} => Nodig(n + 1) \in Ids /\ volgende.eigen = refs[l.gen][Nodig(n + 1)]
                      /\ Loopt(volgende)
    OBVIOUS
  <2>1. n + 1 \in Stappen
    BY <1>2 DEF Stappen
  <2> DEFINE q == Lege(n + 1, l.gen)
  <2>2. /\ q \in Lopend /\ q.stap = n + 1 /\ q.gen = l.gen /\ q.pc = 1 /\ Loopt(q)
        /\ q.fase = "heen" \/ q.klasse = "geenId"
        /\ n + 1 \in {8, 9, 10} => Nodig(n + 1) \in Ids /\ q.eigen = refs[l.gen][Nodig(n + 1)]
    BY <1>1, <1>2, <2>1, LegeKlopt
  <2>3. volgende = [q EXCEPT !.gen = l.gen]
    OBVIOUS
  <2> HIDE DEF q, volgende
  <2>4. volgende = q
    BY <2>2, <2>3 DEF Lopend
  <2> QED BY <2>1, <2>2, <2>4 DEF q
<1>6. /\ \A q : /\ Bewezen(q)' = Bewezen(q) /\ NogOngegund(q)' = NogOngegund(q)
                /\ TerechtGeweigerd(q)' = TerechtGeweigerd(q)
                /\ Gedaan(q)' = Gedaan(q) /\ Eigen(q)' = Eigen(q) /\ Draaiboek' = Draaiboek
      /\ \A i : Waar(i)' = Waar(i)
  BY <1>2, DienstStil
<1>7. door => Gedaan(volgende) = {} /\ Bewezen(volgende) /\ NogOngegund(volgende) /\ TerechtGeweigerd(volgende)
  BY <1>1, <1>5, NogNietsGedaan DEF RouteTypeInv
<1>8. door => pagina # "regiekamer"
  BY <1>1, <1>2 DEF IdsBekend, Stappen, Geen
<1> HIDE DEF door, vanAlles, volgende
<1>9. /\ status' \in [Stappen -> {"idle", "running", "done", "error"}]
      /\ status'[n] = uitkomst
      /\ \A i \in Stappen : i # n => status'[i] = status[i] \/ (door /\ i = n + 1 /\ status'[i] = "running")
      /\ door => status'[n + 1] = "running"
  BY <1>2, <1>4, <1>5
<1>10. RouteTypeInv'
  <2>1. lopen' \subseteq Lopend /\ \A q \in lopen' : Loopt(q)'
    BY <1>1, <1>2, <1>3, <1>4, <1>5, <1>6 DEF RouteTypeInv, Loopt
  <2>2. alles' \in Stappen \cup {Geen} /\ pijl' \in Stappen \cup {Geen}
    BY <1>1, <1>4, <1>5 DEF RouteTypeInv
  <2> QED BY <1>1, <1>2, <1>3, <1>9, <2>1, <2>2 DEF RouteTypeInv
<1>11. StappenKloppen'
  BY <1>1, <1>4, <1>6, <1>7 DEF StappenKloppen
<1>12. EigenInkoop'
  BY <1>1, <1>4, <1>6, <1>7 DEF EigenInkoop
<1>13. KlaarIsWaar'
  BY <1>1, <1>6, <1>9 DEF KlaarIsWaar
<1>14. IdsBekend'
  <2> SUFFICES ASSUME pagina = "regiekamer" PROVE IdsBekend'
    BY <1>2 DEF IdsBekend
  <2>1. /\ ~door /\ lopen' = lopen \ {l} /\ Len(refs) = 1 /\ alles = Geen /\ l.gen = 1 /\ DOMAIN refs = {1}
        /\ \A i \in Stappen : i # n => status'[i] = status[i]
    BY <1>1, <1>2, <1>4, <1>8, <1>9 DEF IdsBekend
  <2>2. alles' = Geen
    BY <1>4, <2>1
  <2>3. ASSUME NEW k \in {4, 5, 6}, Gehaald(k)' PROVE Gehaald(k) \/ (n = k /\ uitkomst = "done")
    <3>1. CASE \E q \in lopen' : q.stap > k
      BY <2>1, <3>1 DEF Gehaald
    <3>2. CASE status'[k] = "done"
      BY <1>9, <2>1, <3>2 DEF Gehaald, Stappen
    <3>3. CASE \E i \in Stappen : i > k /\ status'[i] # "idle"
      <4>1. PICK i \in Stappen : i > k /\ status'[i] # "idle"
        BY <3>3
      <4> QED BY <2>1, <4>1 DEF Gehaald
    <3> QED BY <2>3, <3>1, <3>2, <3>3 DEF Gehaald
  <2>4. /\ Gehaald(4)' => refs'[1].incident # Geen
        /\ Gehaald(5)' => refs'[1].onderhoud # Geen
        /\ Gehaald(6)' => refs'[1].contract # Geen
    <3>1. /\ Gehaald(4) => refs[1].incident # Geen
          /\ Gehaald(5) => refs[1].onderhoud # Geen
          /\ Gehaald(6) => refs[1].contract # Geen
      BY <1>1 DEF IdsBekend
    <3>2. /\ refs[1].incident # Geen => refs'[1].incident # Geen
          /\ refs[1].onderhoud # Geen => refs'[1].onderhoud # Geen
          /\ refs[1].contract # Geen => refs'[1].contract # Geen
      BY <1>3, <2>1 DEF Ids, Idboek
    <3> QED BY <2>1, <2>3, <3>1, <3>2 DEF Aangevuld
  <2> QED BY <1>1, <1>3, <2>1, <2>2, <2>4 DEF IdsBekend
<1>15. Ongestoord'
  <2> SUFFICES ASSUME Rustig' PROVE OpVolgorde' /\ EenIncident' /\ VanDezeRoute'
    BY DEF Ongestoord
  <2>1. /\ OpVolgorde /\ EenIncident /\ VanDezeRoute /\ lopen = {l} /\ Len(refs) = 1 /\ l.gen = 1
        /\ status[n] = "running" /\ MetDitBoek(l)
        /\ \A a, b \in Stappen : a < b /\ status[b] # "idle" => status[a] = "done"
    BY <1>1, <1>2 DEF Rustig, Ongestoord, OpVolgorde
  <2>2. \A i \in Stappen : (i < n => status[i] = "done") /\ (i > n => status[i] = "idle")
    BY <1>2, <2>1
  <2>3. /\ \A i \in Stappen : i < n => status'[i] = "done"
        /\ \A i \in Stappen : i > n => status'[i] = "idle" \/ (door /\ i = n + 1)
    <3>1. ASSUME NEW i \in Stappen, i < n PROVE status'[i] = "done"
      <4>1. i # n /\ i # n + 1
        BY <1>2, <3>1 DEF Stappen
      <4> QED BY <1>9, <2>2, <3>1, <4>1
    <3>2. ASSUME NEW i \in Stappen, i > n PROVE status'[i] = "idle" \/ (door /\ i = n + 1)
      <4>1. i # n
        BY <1>2, <3>2 DEF Stappen
      <4> QED BY <1>9, <2>2, <3>2, <4>1
    <3> QED BY <3>1, <3>2
  <2>4. \A a, b \in Stappen : a < b /\ status'[b] # "idle" => status'[a] = "done"
    <3> SUFFICES ASSUME NEW a \in Stappen, NEW b \in Stappen, a < b, status'[b] # "idle" PROVE status'[a] = "done"
      OBVIOUS
    <3>1. b <= n \/ (b = n + 1 /\ door)
      BY <1>2, <2>3, SMTT(30) DEF Stappen
    <3>2. door => uitkomst = "done"
      BY DEF door
    <3>3. a < n \/ (a = n /\ door)
      BY <1>2, <3>1 DEF Stappen
    <3> QED BY <1>9, <2>3, <3>2, <3>3
  <2>5. OpVolgorde'
    <3>1. ASSUME door, NEW q, q = volgende
          PROVE  /\ lopen' = {q} /\ status'[q.stap] = "running" /\ MetDitBoek(q)'
                 /\ pagina # "regiekamer"
      <4>1. n + 1 \in {8, 9, 10} => n \notin {4, 5, 6}
        BY <1>2 DEF Stappen
      <4>2. n + 1 \in {8, 9, 10} => q.eigen = refs'[1][Nodig(n + 1)]
        BY <1>3, <1>5, <2>1, <3>1, <4>1
      <4>3. q.stap = n + 1
        BY <1>5, <3>1
      <4>4. MetDitBoek(q)'
        BY <4>2, <4>3 DEF MetDitBoek
      <4> QED BY <1>4, <1>8, <1>9, <2>1, <3>1, <4>3, <4>4
    <3>2. ~door => lopen' = {}
      BY <1>4, <2>1
    <3>3. \/ lopen' = {}
          \/ \E q : /\ lopen' = {q} /\ status'[q.stap] = "running" /\ MetDitBoek(q)'
                    /\ pagina # "regiekamer"
      BY <3>1, <3>2
    <3>4. Len(refs') = 1 /\ pagina' = pagina
      BY <1>2, <1>3, <2>1
    <3> QED BY <2>4, <3>3, <3>4 DEF OpVolgorde
  <2>6. EenIncident'
    <3> SUFFICES ASSUME dienst.incidenten # <<>>
                 PROVE  Len(dienst.incidenten) = 1 /\ status'[4] # "idle" /\ \A q \in lopen' : NaMeting(q)
      BY <1>2 DEF EenIncident, NaMeting
    <3>1. Len(dienst.incidenten) = 1 /\ status[4] # "idle" /\ \A q \in lopen : NaMeting(q)
      BY <2>1 DEF EenIncident
    <3>2. status'[4] # "idle"
      BY <1>9, <3>1 DEF Stappen
    <3>3. n # 3
      BY <2>1, <3>1 DEF Stappen
    <3>4. door => NaMeting(volgende)
      BY <1>2, <1>5, <3>3 DEF NaMeting, Stappen
    <3> QED BY <1>4, <2>1, <3>1, <3>2, <3>4
  <2>7. VanDezeRoute'
    <3>1. \A i \in Stappen : status'[i] = "done" => status[i] = "done" \/ (i = n /\ uitkomst = "done")
      BY <1>9
    <3>2. ASSUME NEW i \in {8, 9, 10}, status'[i] = "done" PROVE refs' = refs
      <4>1. i \in Stappen /\ ~(i > n)
        BY <1>2, <1>9, <2>3, <3>2 DEF Stappen
      <4>2. n \notin {4, 5, 6}
        BY <1>2, <4>1
      <4> QED BY <1>3, <4>2
    <3>3. 1 \in DOMAIN refs
      BY <1>2, <2>1
    <3>4. /\ status'[4] = "done" => refs'[1].incident # Geen
          /\ status'[5] = "done" => refs'[1].onderhoud # Geen
          /\ status'[6] = "done" => refs'[1].contract # Geen
      BY <1>3, <2>1, <3>1, <3>3 DEF VanDezeRoute, Aangevuld, Ids, Stappen
    <3>5. status'[8] = "done" => refs'[1].contract \in dienst.verklaringen
      BY <2>1, <3>1, <3>2 DEF VanDezeRoute, MetDeJuiste, MetDitBoek, Nodig, Stappen
    <3>6. status'[9] = "done" => Afgerond(refs'[1].onderhoud)
      BY <2>1, <3>1, <3>2 DEF VanDezeRoute, MetDeJuiste, MetDitBoek, Nodig, Stappen
    <3>7. status'[10] = "done" => /\ refs'[1].incident \in DOMAIN dienst.incidenten
                                  /\ dienst.incidenten[refs'[1].incident] = "Opgelost"
      BY <2>1, <3>1, <3>2 DEF VanDezeRoute, MetDeJuiste, MetDitBoek, Nodig, Stappen
    <3> QED BY <1>2, <3>4, <3>5, <3>6, <3>7 DEF VanDezeRoute, Afgerond
  <2> QED BY <2>5, <2>6, <2>7
<1> QED BY <1>10, <1>11, <1>12, <1>13, <1>14, <1>15 DEF RouteInv


\* The last answer of a step that is not 11: all its requests have done their work.
LEMMA AllesGedaan ==
  ASSUME RouteInv, NEW l \in lopen, l.fase = "terug", Klaar(l), l.stap # 11
  PROVE  Verder(l) /\ Laatste(l) /\ \A wat \in Watten(l.stap) : wat \in Gedaan(l) /\ Bereikt(l, wat)
<1>1. pagina \in Paginas /\ l \in Lopend /\ l.pc \in DOMAIN Draaiboek[l.stap]
  BY DEF RouteInv, RouteTypeInv, Loopt
<1>2. PastBij(l.stap, l.pc, Len(Draaiboek[l.stap]), Instructie(l))
  BY <1>1, InstructiePast
<1>3. Verder(l) /\ Laatste(l)
  BY <1>2 DEF PastBij, Klaar, Geweigerd
<1>4. \A wat \in Watten(l.stap) : wat \in Gedaan(l)
  <2> DEFINE s == Draaiboek[l.stap]
  <2>1. DOMAIN s = 1 .. Len(s) /\ Len(s) \in Nat /\ l.pc = Len(s)
    BY <1>1, <1>3, DraaiboekPast DEF Lopend, Laatste
  <2>2. Gedaan(l) = Eerder(l) \cup {s[l.pc].wat}
    BY <1>3 DEF Gedaan, Instructie
  <2>3. \A j \in DOMAIN s : j < l.pc => s[j].wat \in Eerder(l)
    BY DEF Eerder
  <2>4. \A wat \in Watten(l.stap) : \E j \in DOMAIN s : wat = s[j].wat
    BY DEF Watten
  <2> HIDE DEF s
  <2>5. \A j \in DOMAIN s : j < l.pc \/ j = l.pc
    BY <2>1
  <2> QED BY <2>2, <2>3, <2>4, <2>5
<1>5. \A wat \in Gedaan(l) : Bereikt(l, wat)
  BY DEF RouteInv, StappenKloppen, Bewezen
<1> QED BY <1>3, <1>4, <1>5

LEMMA KlaarBewijst ==
  ASSUME RouteInv, NEW l \in lopen, l.fase = "terug", Klaar(l)
  PROVE  Waar(l.stap) /\ MetDeJuiste(l)
<1>1. /\ pagina \in Paginas /\ l \in Lopend /\ l.pc \in DOMAIN Draaiboek[l.stap] /\ l.stap \in Stappen
      /\ dienst \in Dienst
  BY DEF RouteInv, RouteTypeInv, Loopt, Lopend
<1>2. PastBij(l.stap, l.pc, Len(Draaiboek[l.stap]), Instructie(l))
  BY <1>1, InstructiePast
<1>3. CASE l.stap = 11
  <2>1. Geweigerd(l)
    BY <1>2, <1>3 DEF PastBij, Klaar
  <2>2. geweigerd
    BY <1>3, <2>1 DEF RouteInv, StappenKloppen, TerechtGeweigerd, Geweigerd
  <2> QED BY <1>3, <2>2 DEF Waar, MetDeJuiste
<1>4. CASE l.stap # 11
  <2>1. \A wat \in Watten(l.stap) : Bereikt(l, wat)
    BY <1>4, AllesGedaan
  <2>2. /\ "registreer" \in Watten(1) /\ {"onderhoudseisen", "ontwerpeisen"} \subseteq Watten(2)
        /\ "sessie" \in Watten(3) /\ {"metingHoog", "incidenten"} \subseteq Watten(4)
        /\ "trajecten" \in Watten(5) /\ {"aanbesteding", "gunning"} \subseteq Watten(6)
        /\ {"rapport", "netwerkrapportages"} \subseteq Watten(7) /\ "verklaring" \in Watten(8)
        /\ "afronden" \in Watten(9) /\ (pagina = "regiekamer" => "onderhoudsrapporten" \in Watten(9))
        /\ "oplossing" \in Watten(10)
    BY <1>1, WattenPast
  <2>3. CASE l.stap = 1
    BY <2>1, <2>2, <2>3 DEF Bereikt, Waar, MetDeJuiste
  <2>4. CASE l.stap = 2
    <3>1. "onderhoud" \in dienst.eisen /\ "ontwerp" \in dienst.eisen
      BY <2>1, <2>2, <2>4 DEF Bereikt
    <3>2. dienst.eisen = {"onderhoud", "ontwerp"}
      BY <1>1, <3>1 DEF Dienst
    <3> QED BY <2>4, <3>2 DEF Waar, MetDeJuiste
  <2>5. CASE l.stap = 3
    BY <2>1, <2>2, <2>5 DEF Bereikt, Waar, MetDeJuiste
  <2>6. CASE l.stap = 4
    <3>1. dienst.incidenten # <<>>
      BY <2>1, <2>2, <2>6 DEF Bereikt
    <3> QED BY <2>6, <3>1 DEF Waar, MetDeJuiste
  <2>7. CASE l.stap = 5
    <3>1. l.id \in DOMAIN dienst.trajecten
      BY <2>1, <2>2, <2>7 DEF Bereikt
    <3>2. dienst.trajecten # <<>>
      BY <3>1
    <3> QED BY <2>7, <3>2 DEF Waar, MetDeJuiste
  <2>8. CASE l.stap = 6
    <3>1. /\ Eigen(l) \in DOMAIN dienst.aanbestedingen /\ dienst.aanbestedingen[Eigen(l)].demo
          /\ dienst.aanbestedingen[l.eigen].gegund
      BY <2>1, <2>2, <2>8 DEF Bereikt
    <3>2. Instructie(l).wat # "aanbesteding"
      <4>1. l.pc = Len(Draaiboek[l.stap])
        BY <1>4, AllesGedaan DEF Laatste
      <4> QED BY <1>2, <2>8, <4>1 DEF PastBij
    <3>3. Eigen(l) = l.eigen
      BY <1>2, <2>8, <3>2 DEF PastBij, Eigen
    <3> QED BY <2>8, <3>1, <3>3 DEF Waar, MetDeJuiste
  <2>9. CASE l.stap = 7
    BY <2>1, <2>2, <2>9 DEF Bereikt, Waar, MetDeJuiste
  <2>10. CASE l.stap = 8
    <3>1. l.eigen \in dienst.verklaringen
      BY <2>1, <2>2, <2>10 DEF Bereikt
    <3> QED BY <2>10, <3>1 DEF Waar, MetDeJuiste
  <2>11. CASE l.stap = 9
    <3>1. Afgerond(l.eigen) /\ (pagina = "regiekamer" => "afgerond" \in dienst.beoordelingen)
      BY <2>1, <2>2, <2>11 DEF Bereikt
    <3>2. \E t \in DOMAIN dienst.trajecten : Afgerond(t)
      BY <3>1 DEF Afgerond
    <3> QED BY <2>11, <3>1, <3>2 DEF Waar, MetDeJuiste
  <2>12. CASE l.stap = 10
    <3>1. l.eigen \in DOMAIN dienst.incidenten /\ dienst.incidenten[l.eigen] = "Opgelost"
      BY <2>1, <2>2, <2>12 DEF Bereikt
    <3> QED BY <2>12, <3>1 DEF Waar, MetDeJuiste
  <2> QED
    BY <1>1, <1>4, <2>3, <2>4, <2>5, <2>6, <2>7, <2>8, <2>9, <2>10, <2>11, <2>12 DEF Stappen
<1> QED BY <1>3, <1>4

\* The id of the last answer is that of an object there is.
LEMMA OnthoudKlopt ==
  ASSUME RouteInv, NEW l \in lopen, l.fase = "terug", Klaar(l), refs' = Onthoud(l), UNCHANGED dienst
  PROVE  Aangevuld(l, refs', TRUE) /\ RefsKloppen'
<1> DEFINE ref == Instructie(l).ref
<1>1. /\ pagina \in Paginas /\ l \in Lopend /\ l.pc \in DOMAIN Draaiboek[l.stap] /\ l.stap \in Stappen
      /\ dienst \in Dienst /\ refs \in Seq(Idboek) /\ l.gen \in DOMAIN refs /\ l.id \in Nat
  BY DEF RouteInv, RouteTypeInv, Loopt, Lopend
<1>2. PastBij(l.stap, l.pc, Len(Draaiboek[l.stap]), Instructie(l))
  BY <1>1, InstructiePast
<1>3. refs' = IF Gezien(l) /\ ref \in Ids THEN [refs EXCEPT ![l.gen][ref] = l.id] ELSE refs
  BY DEF Onthoud, LegeRefs, Ids
<1>4. ref \in Ids => l.stap \in {4, 5, 6}
  BY <1>2 DEF PastBij, Ids
<1>5. l.stap \in {4, 5, 6} =>
        /\ Gezien(l)
        /\ l.stap = 4 => ref = "incident" /\ l.id \in DOMAIN dienst.incidenten
        /\ l.stap = 5 => ref = "onderhoud" /\ l.id \in DOMAIN dienst.trajecten
        /\ l.stap = 6 => /\ ref = "contract" /\ l.id \in DOMAIN dienst.aanbestedingen
                         /\ dienst.aanbestedingen[l.id].gegund
  <2> SUFFICES ASSUME l.stap \in {4, 5, 6}
               PROVE  /\ Gezien(l)
                      /\ l.stap = 4 => ref = "incident" /\ l.id \in DOMAIN dienst.incidenten
                      /\ l.stap = 5 => ref = "onderhoud" /\ l.id \in DOMAIN dienst.trajecten
                      /\ l.stap = 6 => /\ ref = "contract" /\ l.id \in DOMAIN dienst.aanbestedingen
                                       /\ dienst.aanbestedingen[l.id].gegund
    OBVIOUS
  <2> DEFINE s == Draaiboek[l.stap]
             wat == IF l.stap = 4 THEN "incidenten" ELSE IF l.stap = 5 THEN "trajecten" ELSE "gunning"
  <2>1. Verder(l) /\ Laatste(l) /\ \A w \in Watten(l.stap) : Bereikt(l, w)
    BY AllesGedaan
  <2>2. wat \in Watten(l.stap)
    BY <1>1, WattenPast
  <2>3. PICK j \in DOMAIN s : s[j].wat = wat
    BY <2>2 DEF Watten
  <2>4. PastBij(l.stap, j, Len(s), s[j])
    BY <1>1, DraaiboekPast
  <2>5. j = Len(s)
    BY <2>3, <2>4 DEF PastBij, Ids
  <2>6. Instructie(l).wat = wat
    BY <2>1, <2>3, <2>5 DEF Laatste, Instructie
  <2>7. Gezien(l)
    BY <1>2, <2>1, <2>6 DEF PastBij, Verder
  <2>8. Bereikt(l, wat)
    BY <2>1, <2>2
  <2> HIDE DEF s
  <2> QED BY <1>2, <2>6, <2>7, <2>8 DEF PastBij, Bereikt
<1> HIDE DEF ref
<1>6. l.id \in Nat /\ (l.stap \in {4, 5, 6} => l.id # Geen)
  <2>1. /\ DOMAIN dienst.incidenten = 1 .. Len(dienst.incidenten)
        /\ DOMAIN dienst.trajecten = 1 .. Len(dienst.trajecten)
        /\ DOMAIN dienst.aanbestedingen = 1 .. Len(dienst.aanbestedingen)
    BY <1>1 DEF Dienst
  <2>2. l.stap = 4 => l.id \in 1 .. Len(dienst.incidenten)
    BY <1>5, <2>1
  <2>3. l.stap = 5 => l.id \in 1 .. Len(dienst.trajecten)
    BY <1>5, <2>1
  <2>4. l.stap = 6 => l.id \in 1 .. Len(dienst.aanbestedingen)
    BY <1>5, <2>1
  <2> QED BY <1>1, <2>2, <2>3, <2>4 DEF Geen
<1>7. CASE l.stap \notin {4, 5, 6}
  <2>1. refs' = refs
    BY <1>3, <1>4, <1>7
  <2> QED BY <1>1, <1>7, <2>1 DEF Aangevuld, RouteInv, RefsKloppen
<1>8. CASE l.stap \in {4, 5, 6}
  <2>1. refs' = [refs EXCEPT ![l.gen] = [refs[l.gen] EXCEPT ![ref] = l.id]] /\ ref \in Ids
    BY <1>3, <1>5, <1>8 DEF Ids
  <2>2. refs[l.gen] \in Idboek
    BY <1>1
  <2> DEFINE boek == [refs[l.gen] EXCEPT ![ref] = l.id]
  <2>3. boek \in Idboek /\ boek[ref] = l.id /\ \A r \in Ids : r # ref => boek[r] = refs[l.gen][r]
    BY <1>6, <2>1, <2>2 DEF Idboek
  <2>4. refs' = [refs EXCEPT ![l.gen] = boek]
    BY <2>1
  <2> HIDE DEF boek
  <2>5. /\ refs' \in Seq(Idboek) /\ Len(refs') = Len(refs) /\ DOMAIN refs' = DOMAIN refs
        /\ refs'[l.gen] = boek /\ \A g \in DOMAIN refs : g # l.gen => refs'[g] = refs[g]
    BY <1>1, <2>3, <2>4
  <2>6. Aangevuld(l, refs', TRUE)
    <3>1. \A g \in DOMAIN refs, r \in Ids : refs[g][r] # Geen => refs'[g][r] # Geen
      BY <1>6, <1>8, <2>3, <2>5
    <3> QED BY <1>5, <1>6, <1>8, <2>3, <2>5, <3>1 DEF Aangevuld
  <2>7. RefsKloppen'
    <3>1. ASSUME NEW g \in DOMAIN refs
          PROVE  /\ refs'[g].incident \in DOMAIN dienst.incidenten \cup {Geen}
                 /\ refs'[g].onderhoud \in DOMAIN dienst.trajecten \cup {Geen}
                 /\ refs'[g].contract # Geen =>
                      /\ refs'[g].contract \in DOMAIN dienst.aanbestedingen
                      /\ dienst.aanbestedingen[refs'[g].contract].gegund
      <4>1. /\ refs[g].incident \in DOMAIN dienst.incidenten \cup {Geen}
            /\ refs[g].onderhoud \in DOMAIN dienst.trajecten \cup {Geen}
            /\ refs[g].contract # Geen =>
                 /\ refs[g].contract \in DOMAIN dienst.aanbestedingen
                 /\ dienst.aanbestedingen[refs[g].contract].gegund
        BY DEF RouteInv, RefsKloppen
      <4>2. CASE g # l.gen
        BY <2>5, <4>1, <4>2
      <4>3. CASE g = l.gen
        <5>1. /\ refs'[g].incident = IF l.stap = 4 THEN l.id ELSE refs[g].incident
              /\ refs'[g].onderhoud = IF l.stap = 5 THEN l.id ELSE refs[g].onderhoud
              /\ refs'[g].contract = IF l.stap = 6 THEN l.id ELSE refs[g].contract
          BY <1>5, <1>8, <2>3, <2>5, <4>3 DEF Ids
        <5> QED BY <1>5, <1>8, <4>1, <5>1
      <4> QED BY <4>2, <4>3
    <3> QED BY <2>5, <3>1 DEF RefsKloppen
  <2> QED BY <2>6, <2>7
<1> QED BY <1>7, <1>8

LEMMA StapKlaarHoudt == ASSUME RouteInv, NEW l \in lopen, StapKlaar(l) PROVE RouteInv'
<1>1. l.fase = "terug" /\ Klaar(l) /\ refs' = Onthoud(l) /\ Einde(l, "done") /\ UNCHANGED buitenBlad
  BY DEF StapKlaar
<1>2. UNCHANGED dienst
  BY <1>1 DEF buitenBlad
<1>3. Aangevuld(l, refs', TRUE) /\ RefsKloppen'
  BY <1>1, <1>2, OnthoudKlopt
<1>4. Waar(l.stap) /\ MetDeJuiste(l)
  BY <1>1, KlaarBewijst
<1> QED BY <1>1, <1>3, <1>4, EindeHoudt

LEMMA StapMisluktHoudt == ASSUME RouteInv, NEW l \in lopen, StapMislukt(l) PROVE RouteInv'
<1>1. Einde(l, "error") /\ UNCHANGED buitenBlad /\ UNCHANGED refs /\ UNCHANGED dienst
  BY DEF StapMislukt, buitenBlad
<1>2. Aangevuld(l, refs', FALSE) /\ RefsKloppen'
  BY <1>1 DEF Aangevuld, RouteInv, RouteTypeInv, RefsKloppen
<1> QED BY <1>1, <1>2, EindeHoudt

-----------------------------------------------------------------------------
(* Demoroute: clicks.                                                      *)

\* The steps that run keep what they have proved when another one joins them.
LEMMA ErbijKomt ==
  ASSUME RouteInv, NEW q \in Lopend, q.pc = 1, q.fase = "heen" \/ q.klasse = "geenId",
         lopen' = lopen \cup {q}, UNCHANGED <<pagina, dienst, geweigerd>>
  PROVE  StappenKloppen' /\ EigenInkoop'
<1>1. /\ \A p : /\ Bewezen(p)' = Bewezen(p) /\ NogOngegund(p)' = NogOngegund(p)
                /\ TerechtGeweigerd(p)' = TerechtGeweigerd(p)
                /\ Gedaan(p)' = Gedaan(p) /\ Eigen(p)' = Eigen(p)
  BY DienstStil
<1>2. Gedaan(q) = {} /\ Bewezen(q) /\ NogOngegund(q) /\ TerechtGeweigerd(q)
  BY NogNietsGedaan DEF RouteInv, RouteTypeInv
<1>3. StappenKloppen'
  BY <1>1, <1>2 DEF RouteInv, StappenKloppen
<1>4. EigenInkoop'
  BY <1>1, <1>2 DEF RouteInv, EigenInkoop
<1> QED BY <1>3, <1>4

LEMMA KlikHoudt == ASSUME RouteInv, NEW n \in Stappen, Klik(n) PROVE RouteInv'
<1> DEFINE q == Lege(n, Heden)
<1>1. /\ RouteTypeInv /\ RefsKloppen /\ KlaarIsWaar /\ IdsBekend /\ Ongestoord
  BY DEF RouteInv
<1>2. /\ Klikbaar(n) /\ lopen' = lopen \cup {q} /\ status' = [status EXCEPT ![n] = "running"]
      /\ pijl' = Licht(n) /\ UNCHANGED <<pagina, dienst, refs, alles, storingen, geweigerd>>
      /\ IF OpDeRoute(n) THEN UNCHANGED ingrepen ELSE Ingreep
  BY DEF Klik
<1>3. refs \in Seq(Idboek) /\ Len(refs) \in Nat \ {0} /\ DOMAIN refs = 1 .. Len(refs) /\ Heden \in DOMAIN refs
  BY <1>1 DEF RouteTypeInv, Heden
<1>4. /\ q \in Lopend /\ q.stap = n /\ q.gen = Heden /\ q.pc = 1 /\ Loopt(q)
      /\ q.fase = "heen" \/ q.klasse = "geenId"
      /\ n \in {8, 9, 10} => Nodig(n) \in Ids /\ q.eigen = refs[Heden][Nodig(n)]
      /\ n \notin {8, 9, 10} \/ refs[Heden][Nodig(n)] # Geen => q.klasse = "ok"
  BY <1>1, <1>3, LegeKlopt
<1>5. Draaiboek' = Draaiboek
  BY <1>2 DEF Draaiboek
<1>6. n \in 1 .. 11
  BY DEF Stappen
<1>7. ASSUME NEW m, m = q PROVE RouteInv'
  <2> HIDE DEF q
  <2>1. /\ status' \in [Stappen -> {"idle", "running", "done", "error"}] /\ status'[n] = "running"
        /\ \A i \in Stappen : i # n => status'[i] = status[i]
    BY <1>1, <1>2 DEF RouteTypeInv
  <2>2. RouteTypeInv'
    <3>1. lopen' \subseteq Lopend /\ \A p \in lopen' : Loopt(p)'
      BY <1>1, <1>2, <1>4, <1>5, <1>7 DEF RouteTypeInv, Loopt
    <3>2. ingrepen' \in Nat /\ storingen + ingrepen' <= MaxVerstoringen
      BY <1>1, <1>2, BegrensdAanname DEF RouteTypeInv, Ingreep, Ruimte
    <3>3. pijl' \in Stappen \cup {Geen}
      BY <1>2 DEF Licht
    <3> QED BY <1>1, <1>2, <2>1, <3>1, <3>2, <3>3 DEF RouteTypeInv
  <2>3. StappenKloppen' /\ EigenInkoop'
    BY <1>2, <1>4, ErbijKomt
  <2>4. RefsKloppen'
    BY <1>1, <1>2 DEF RefsKloppen
  <2>5. KlaarIsWaar'
    <3>1. \A i : Waar(i)' = Waar(i)
      BY <1>2, DienstStil
    <3> QED BY <1>1, <2>1, <3>1 DEF KlaarIsWaar
  <2>6. IdsBekend'
    <3> SUFFICES ASSUME pagina = "regiekamer" PROVE IdsBekend'
      BY <1>2 DEF IdsBekend
    <3>1. /\ Len(refs) = 1 /\ alles = Geen /\ Heden = 1
          /\ Gehaald(4) => refs[1].incident # Geen
          /\ Gehaald(5) => refs[1].onderhoud # Geen
          /\ Gehaald(6) => refs[1].contract # Geen
          /\ \A l \in lopen : l.klasse # "geenId"
      BY <1>1 DEF IdsBekend, Heden
    <3>2. n > 1 => status[n - 1] = "done"
      BY <1>2 DEF Klikbaar
    <3>3. ASSUME NEW k \in {4, 5, 6}, n > k PROVE Gehaald(k)
      <4>1. CASE n - 1 = k
        BY <1>6, <3>2, <3>3, <4>1 DEF Gehaald
      <4>2. CASE n - 1 # k
        <5>1. n - 1 \in Stappen /\ n - 1 > k /\ status[n - 1] # "idle"
          BY <1>6, <3>2, <3>3, <4>2 DEF Stappen
        <5> QED BY <5>1 DEF Gehaald
      <4> QED BY <4>1, <4>2
    <3>4. ASSUME NEW k \in {4, 5, 6}, Gehaald(k)' PROVE Gehaald(k)
      <4>1. CASE status'[k] = "done"
        BY <2>1, <4>1 DEF Gehaald, Stappen
      <4>2. CASE \E i \in Stappen : i > k /\ status'[i] # "idle"
        BY <2>1, <3>3, <4>2 DEF Gehaald
      <4>3. CASE \E l \in lopen' : l.stap > k
        BY <1>2, <1>4, <3>3, <4>3 DEF Gehaald
      <4> QED BY <3>4, <4>1, <4>2, <4>3 DEF Gehaald
    <3>5. q.klasse = "ok"
      <4>1. n = 8 => Gehaald(6) /\ Nodig(n) = "contract"
        BY <3>3 DEF Nodig
      <4>2. n = 9 => Gehaald(5) /\ Nodig(n) = "onderhoud"
        BY <3>3 DEF Nodig
      <4>3. n = 10 => Gehaald(4) /\ Nodig(n) = "incident"
        BY <3>3 DEF Nodig
      <4> QED BY <1>4, <3>1, <4>1, <4>2, <4>3
    <3> QED BY <1>2, <3>1, <3>4, <3>5 DEF IdsBekend
  <2>7. Ongestoord'
    <3> SUFFICES ASSUME Rustig' PROVE OpVolgorde' /\ EenIncident' /\ VanDezeRoute'
      BY DEF Ongestoord
    <3>1. Rustig /\ OpDeRoute(n)
      BY <1>1, <1>2 DEF Rustig, Ingreep, RouteTypeInv
    <3>2. /\ OpVolgorde /\ EenIncident /\ VanDezeRoute /\ lopen = {} /\ status[n] = "idle"
          /\ n > 1 => status[n - 1] = "done"
      BY <1>1, <3>1 DEF Ongestoord, OpDeRoute
    <3>3. lopen' = {m}
      BY <1>2, <1>7, <3>2
    <3>4. /\ Len(refs) = 1 /\ Heden = 1
          /\ \A a, b \in Stappen : a < b /\ status[b] # "idle" => status[a] = "done"
      BY <3>2 DEF OpVolgorde, Heden
    <3>5. \A a, b \in Stappen : a < b /\ status'[b] # "idle" => status'[a] = "done"
      <4> SUFFICES ASSUME NEW a \in Stappen, NEW b \in Stappen, a < b, status'[b] # "idle" PROVE status'[a] = "done"
        OBVIOUS
      <4>1. CASE b = n
        <5>1. a \in 1 .. 11 /\ (a = n - 1 \/ a < n - 1) /\ n > 1 /\ n - 1 \in Stappen /\ a # n
          BY <1>6, <4>1 DEF Stappen
        <5> QED BY <2>1, <3>2, <3>4, <5>1
      <4>2. CASE b # n
        <5>1. status[b] # "idle" /\ status[a] = "done"
          BY <2>1, <3>4, <4>2
        <5> QED BY <2>1, <3>2, <5>1
      <4> QED BY <4>1, <4>2
    <3>6. MetDitBoek(m)'
      BY <1>2, <1>4, <1>7, <3>4 DEF MetDitBoek
    <3>7. (pagina = "regiekamer" => pijl = Licht(m.stap))'
      BY <1>2, <1>4, <1>7 DEF Licht, Pijlen
    <3>8. OpVolgorde'
      BY <1>2, <1>4, <1>7, <2>1, <3>3, <3>4, <3>5, <3>6, <3>7 DEF OpVolgorde
    <3>9. EenIncident'
      <4> SUFFICES ASSUME dienst.incidenten # <<>>
                   PROVE  Len(dienst.incidenten) = 1 /\ status'[4] # "idle" /\ NaMeting(m)
        BY <1>2, <3>3 DEF EenIncident, NaMeting
      <4>1. Len(dienst.incidenten) = 1 /\ status[4] # "idle"
        BY <3>2 DEF EenIncident
      <4>2. n # 4
        BY <3>2, <4>1
      <4> QED BY <1>4, <1>7, <2>1, <4>1, <4>2 DEF NaMeting, Stappen
    <3>10. VanDezeRoute'
      <4>1. \A i \in Stappen : status'[i] = "done" => status[i] = "done"
        BY <2>1
      <4> QED BY <1>2, <3>2, <4>1 DEF VanDezeRoute, Afgerond, Stappen
    <3> QED BY <3>8, <3>9, <3>10
  <2> QED BY <2>2, <2>3, <2>4, <2>5, <2>6, <2>7 DEF RouteInv
<1> QED BY <1>7

\* The new object for the ids is empty; the steps that run keep theirs.
LEMMA VerseRefsKloppen ==
  ASSUME RouteInv
  PROVE  /\ VerseRefs \in Seq(Idboek) /\ Len(VerseRefs) # 0 /\ Len(VerseRefs) \in DOMAIN VerseRefs
         /\ lopen # {} => DOMAIN refs \subseteq DOMAIN VerseRefs
         /\ lopen = {} => VerseRefs = <<LegeRefs>>
         /\ \A g \in DOMAIN VerseRefs : VerseRefs[g] = LegeRefs \/ (g \in DOMAIN refs /\ VerseRefs[g] = refs[g])
<1>1. refs \in Seq(Idboek) /\ Len(refs) \in Nat
  BY DEF RouteInv, RouteTypeInv
<1>2. LegeRefs \in Idboek
  BY DEF LegeRefs, Idboek, Ids, Geen
<1>3. CASE lopen = {}
  BY <1>2, <1>3 DEF VerseRefs
<1>4. CASE lopen # {}
  <2>1. VerseRefs = Append(refs, LegeRefs)
    BY <1>4 DEF VerseRefs
  <2>2. /\ VerseRefs \in Seq(Idboek) /\ Len(VerseRefs) = Len(refs) + 1
        /\ DOMAIN VerseRefs = 1 .. Len(refs) + 1 /\ DOMAIN refs = 1 .. Len(refs)
        /\ \A g \in 1 .. Len(refs) : VerseRefs[g] = refs[g]
        /\ VerseRefs[Len(refs) + 1] = LegeRefs
    BY <1>1, <1>2, <2>1
  <2> HIDE DEF VerseRefs
  <2>3. \A g \in 1 .. Len(refs) + 1 : g \in 1 .. Len(refs) \/ g = Len(refs) + 1
    BY <1>1
  <2> QED BY <1>1, <1>4, <2>2, <2>3
<1> QED BY <1>3, <1>4

LEMMA VersBoekKlopt ==
  ASSUME RouteInv, refs' = VerseRefs, UNCHANGED dienst
  PROVE  RefsKloppen'
<1>1. \A g \in DOMAIN VerseRefs : VerseRefs[g] = LegeRefs \/ (g \in DOMAIN refs /\ VerseRefs[g] = refs[g])
  BY VerseRefsKloppen
<1>2. LegeRefs.incident = Geen /\ LegeRefs.onderhoud = Geen /\ LegeRefs.contract = Geen
  BY DEF LegeRefs
<1> QED BY <1>1, <1>2 DEF RouteInv, RefsKloppen

LEMMA StartAllesHoudt == ASSUME RouteInv, StartAlles PROVE RouteInv'
<1> DEFINE q0 == Lege(1, Heden)
<1>1. /\ RouteTypeInv /\ KlaarIsWaar /\ IdsBekend /\ Ongestoord
  BY DEF RouteInv
<1>2. /\ pagina = "sven" /\ refs' = VerseRefs /\ status' = [AllesIdle EXCEPT ![1] = "running"] /\ alles' = 1
      /\ lopen' = lopen \cup {[q0 EXCEPT !.gen = Len(refs')]}
      /\ UNCHANGED <<pagina, dienst, pijl, storingen, geweigerd>>
      /\ IF OpDeRoute(1) /\ status = AllesIdle THEN UNCHANGED ingrepen ELSE Ingreep
  BY DEF StartAlles
<1>3. 1 \in Stappen /\ Heden \in DOMAIN refs
  BY <1>1 DEF Stappen, RouteTypeInv, Heden
<1>4. /\ q0 \in Lopend /\ q0.stap = 1 /\ q0.pc = 1 /\ (q0.fase = "heen" \/ q0.klasse = "geenId")
      /\ Loopt(q0)
  BY <1>1, <1>3, LegeKlopt
<1>5. /\ VerseRefs \in Seq(Idboek) /\ Len(VerseRefs) # 0 /\ Len(VerseRefs) \in DOMAIN VerseRefs
      /\ lopen # {} => DOMAIN refs \subseteq DOMAIN VerseRefs
      /\ lopen = {} => VerseRefs = <<LegeRefs>>
  BY VerseRefsKloppen
<1>6. ASSUME NEW q, q = [q0 EXCEPT !.gen = Len(VerseRefs)] PROVE RouteInv'
  <2> HIDE DEF q0
  <2>1. Len(VerseRefs) \in Nat
    BY <1>5
  <2>2. /\ q \in Lopend /\ q.stap = 1 /\ q.pc = 1 /\ (q.fase = "heen" \/ q.klasse = "geenId")
        /\ q.gen = Len(VerseRefs) /\ q.pogingen = q0.pogingen
    BY <1>4, <1>6, <2>1 DEF Lopend
  <2>3. lopen' = lopen \cup {q}
    BY <1>2, <1>6
  <2>4. Draaiboek' = Draaiboek
    BY <1>2 DEF Draaiboek
  <2>5. /\ status' \in [Stappen -> {"idle", "running", "done", "error"}] /\ status'[1] = "running"
        /\ \A i \in Stappen : i # 1 => status'[i] = "idle"
    BY <1>2, <1>3 DEF AllesIdle
  <2>6. RouteTypeInv'
    <3>1. lopen' \subseteq Lopend
      BY <1>1, <2>2, <2>3 DEF RouteTypeInv
    <3>2. ASSUME NEW p \in lopen' PROVE Loopt(p)'
      <4>1. CASE p = q
        <5>1. q0.pc \in DOMAIN Draaiboek[q0.stap] /\ q0.pogingen <= MaxPogingen
          BY <1>4 DEF Loopt
        <5> QED BY <1>2, <1>4, <1>5, <2>2, <2>4, <4>1, <5>1 DEF Loopt
      <4>2. CASE p \in lopen
        BY <1>1, <1>2, <1>5, <2>4, <4>2 DEF RouteTypeInv, Loopt
      <4> QED BY <2>3, <4>1, <4>2
    <3>3. ingrepen' \in Nat /\ storingen + ingrepen' <= MaxVerstoringen
      BY <1>1, <1>2, BegrensdAanname DEF RouteTypeInv, Ingreep, Ruimte
    <3> QED BY <1>1, <1>2, <1>3, <1>5, <2>5, <3>1, <3>2, <3>3 DEF RouteTypeInv
  <2>7. StappenKloppen' /\ EigenInkoop'
    BY <1>2, <2>2, <2>3, ErbijKomt
  <2>8. RefsKloppen'
    BY <1>2, VersBoekKlopt
  <2>9. KlaarIsWaar'
    BY <2>5 DEF KlaarIsWaar
  <2>10. IdsBekend'
    BY <1>2 DEF IdsBekend
  <2>11. Ongestoord'
    <3> SUFFICES ASSUME Rustig' PROVE OpVolgorde' /\ EenIncident' /\ VanDezeRoute'
      BY DEF Ongestoord
    <3>1. Rustig /\ OpDeRoute(1) /\ status = AllesIdle
      BY <1>1, <1>2 DEF Rustig, Ingreep, RouteTypeInv
    <3>2. lopen = {} /\ refs' = <<LegeRefs>> /\ lopen' = {q} /\ EenIncident
      BY <1>1, <1>2, <1>5, <2>3, <3>1 DEF OpDeRoute, Ongestoord
    <3>3. dienst.incidenten = <<>>
      BY <3>1, <3>2 DEF EenIncident, AllesIdle, Stappen
    <3>4. OpVolgorde'
      <4>1. Len(refs') = 1
        BY <3>2
      <4>2. \A a, b \in Stappen : a < b /\ status'[b] # "idle" => status'[a] = "done"
        BY <2>5 DEF Stappen
      <4>3. ASSUME NEW p \in lopen' PROVE p = q
        BY <3>2
      <4>4. status'[q.stap] = "running" /\ MetDitBoek(q)' /\ pagina' # "regiekamer"
        BY <1>2, <2>2, <2>5 DEF MetDitBoek
      <4> QED BY <4>1, <4>2, <4>3, <4>4 DEF OpVolgorde
    <3> QED BY <1>2, <2>5, <3>3, <3>4 DEF EenIncident, VanDezeRoute, Stappen
  <2> QED BY <2>6, <2>7, <2>8, <2>9, <2>10, <2>11 DEF RouteInv
<1> QED BY <1>6

LEMMA ResetHoudt == ASSUME RouteInv, Reset PROVE RouteInv'
<1>1. /\ pagina = "sven" /\ refs' = VerseRefs /\ status' = AllesIdle /\ Ingreep
      /\ UNCHANGED <<pagina, dienst, lopen, alles, pijl, storingen, geweigerd>>
      /\ RouteTypeInv
  BY DEF Reset, RouteInv
<1>2. /\ VerseRefs \in Seq(Idboek) /\ Len(VerseRefs) # 0
      /\ lopen # {} => DOMAIN refs \subseteq DOMAIN VerseRefs
  BY VerseRefsKloppen
<1>3. /\ \A p : /\ Bewezen(p)' = Bewezen(p) /\ NogOngegund(p)' = NogOngegund(p)
                /\ TerechtGeweigerd(p)' = TerechtGeweigerd(p)
                /\ Gedaan(p)' = Gedaan(p) /\ Eigen(p)' = Eigen(p) /\ Draaiboek' = Draaiboek
  BY <1>1, DienstStil
<1>4. RouteTypeInv'
  <2>1. \A p \in lopen : Loopt(p)'
    BY <1>1, <1>2, <1>3 DEF RouteTypeInv, Loopt
  <2>2. ingrepen' \in Nat /\ storingen + ingrepen' <= MaxVerstoringen
    BY <1>1, BegrensdAanname DEF RouteTypeInv, Ingreep, Ruimte
  <2> QED BY <1>1, <1>2, <2>1, <2>2 DEF RouteTypeInv, AllesIdle
<1>5. StappenKloppen' /\ EigenInkoop'
  BY <1>1, <1>3 DEF RouteInv, StappenKloppen, EigenInkoop
<1>6. RefsKloppen'
  BY <1>1, VersBoekKlopt
<1>7. KlaarIsWaar' /\ IdsBekend'
  BY <1>1 DEF KlaarIsWaar, IdsBekend, AllesIdle
<1>8. ~Rustig'
  BY <1>1 DEF Rustig, Ingreep, RouteTypeInv
<1> QED BY <1>4, <1>5, <1>6, <1>7, <1>8 DEF RouteInv, Ongestoord

LEMMA HerlaadHoudt == ASSUME RouteInv, Herlaad PROVE RouteInv'
<1>1. /\ refs' = <<LegeRefs>> /\ status' = AllesIdle /\ lopen' = {} /\ alles' = Geen /\ pijl' = Geen
      /\ Ingreep /\ UNCHANGED <<pagina, dienst, storingen, geweigerd>> /\ RouteTypeInv
  BY DEF Herlaad, RouteInv
<1>2. LegeRefs \in Idboek /\ LegeRefs.incident = Geen /\ LegeRefs.onderhoud = Geen /\ LegeRefs.contract = Geen
  BY DEF LegeRefs, Idboek, Ids, Geen
<1>3. refs' \in Seq(Idboek) /\ Len(refs') = 1 /\ DOMAIN refs' = {1} /\ refs'[1] = LegeRefs
  BY <1>1, <1>2
<1>4. RouteTypeInv'
  <2>1. ingrepen' \in Nat /\ storingen + ingrepen' <= MaxVerstoringen
    BY <1>1, BegrensdAanname DEF RouteTypeInv, Ingreep, Ruimte
  <2> QED BY <1>1, <1>3, <2>1 DEF RouteTypeInv, AllesIdle
<1>5. StappenKloppen' /\ EigenInkoop'
  BY <1>1 DEF StappenKloppen, EigenInkoop
<1>6. RefsKloppen'
  BY <1>1, <1>2, <1>3 DEF RefsKloppen
<1>7. KlaarIsWaar' /\ IdsBekend'
  BY <1>1, <1>3 DEF KlaarIsWaar, IdsBekend, AllesIdle, Gehaald, Stappen
<1>8. ~Rustig'
  BY <1>1 DEF Rustig, Ingreep, RouteTypeInv
<1> QED BY <1>4, <1>5, <1>6, <1>7, <1>8 DEF RouteInv, Ongestoord

LEMMA NietsHoudt == ASSUME RouteInv, UNCHANGED routeVars PROVE RouteInv'
<1>1. /\ UNCHANGED <<pagina, dienst, status, refs, lopen, alles, pijl, storingen, ingrepen, geweigerd>>
      /\ RouteTypeInv /\ StappenKloppen /\ EigenInkoop /\ RefsKloppen /\ KlaarIsWaar /\ IdsBekend /\ Ongestoord
  BY DEF routeVars, RouteInv
<1>2. /\ \A p : /\ Bewezen(p)' = Bewezen(p) /\ NogOngegund(p)' = NogOngegund(p)
                /\ TerechtGeweigerd(p)' = TerechtGeweigerd(p)
                /\ Gedaan(p)' = Gedaan(p) /\ Eigen(p)' = Eigen(p) /\ Draaiboek' = Draaiboek
      /\ \A n : Waar(n)' = Waar(n)
  BY <1>1, DienstStil
<1>3. RouteTypeInv' /\ StappenKloppen' /\ EigenInkoop'
  BY <1>1, <1>2 DEF RouteTypeInv, Loopt, StappenKloppen, EigenInkoop
<1>4. RefsKloppen' /\ KlaarIsWaar' /\ IdsBekend'
  BY <1>1, <1>2 DEF RefsKloppen, KlaarIsWaar, IdsBekend, Gehaald
<1>5. Ongestoord'
  BY <1>1 DEF Ongestoord, Rustig, OpVolgorde, MetDitBoek, Licht, Pijlen, EenIncident, NaMeting, VanDezeRoute, Afgerond
<1> QED BY <1>3, <1>4, <1>5 DEF RouteInv

LEMMA RouteStap == RouteInv /\ [RouteNext]_routeVars => RouteInv'
<1>1. CASE UNCHANGED routeVars
  <2> SUFFICES ASSUME RouteInv PROVE RouteInv'
    BY <1>1
  <2> QED BY <1>1, NietsHoudt
<1>2. CASE RouteNext
  BY <1>2, KlikHoudt, StartAllesHoudt, ResetHoudt, HerlaadHoudt, VoerHoudt, VerliesHoudt,
     StuurtHoudt, VolgendeVraagStuurt, NogEensStuurt, StapKlaarHoudt, StapMisluktHoudt, BezorgHoudt DEF RouteNext
<1> QED BY <1>1, <1>2

-----------------------------------------------------------------------------
(* Demoroute: the undisturbed route.  FoutIsTeVroeg needs more: on such a  *)
(* route the services hold nothing that the route has not asked for yet,   *)
(* a step finds what its own requests left behind, and what an event tells *)
(* has arrived unless the event is still under way.                        *)

\* Step n has not been answered its request `wat` yet.
NogNiets(n, wat) == status[n] = "idle" \/ \E l \in lopen : l.stap = n /\ wat \notin Gedaan(l)

Ongevraagd(wat, d) ==
  CASE wat = "registreer" -> ~d.kunstwerk
    [] wat = "sessie"     -> ~d.sessie
    [] wat = "gunning"    -> \A a \in DOMAIN d.aanbestedingen : ~d.aanbestedingen[a].gegund
    [] wat = "start"      -> \A t \in DOMAIN d.trajecten : d.trajecten[t].status = "Gepland"
    [] wat = "oplossing"  -> \A i \in DOMAIN d.incidenten : d.incidenten[i] = "Open"

\* The requests that can be granted only once, at their steps.
Eenmalig == {<<1, "registreer">>, <<3, "sessie">>, <<6, "gunning">>, <<9, "start">>, <<10, "oplossing">>}
NietVooruit == \A e \in Eenmalig : NogNiets(e[1], e[2]) => Ongevraagd(e[2], dienst)

\* What a step left behind for its own later requests.
Verricht(l) ==
  /\ l.stap = 6 /\ "inschrijving" \in Gedaan(l) =>
       l.eigen \in DOMAIN dienst.aanbestedingen /\ dienst.aanbestedingen[l.eigen].inschrijving
  /\ l.stap = 9 /\ "start" \in Gedaan(l) =>
       /\ l.eigen \in DOMAIN dienst.trajecten
       /\ "afronden" \notin Gedaan(l) => dienst.trajecten[l.eigen].status = "Gestart"
       /\ "inspectie" \in Gedaan(l) => dienst.trajecten[l.eigen].inspectie

Verwacht(d, welke, naar) == \E b \in d.bus : b.soort = welke /\ b.naar = naar

\* What one service knows, another has been told or is about to be told.
Aangekomen(d) ==
  /\ d.kunstwerk => \A s \in {"monitoring", "contract"} : s \in d.kent \/ Verwacht(d, "kunstwerk", s)
  /\ d.incidenten # <<>> => d.trajecten # <<>> \/ Verwacht(d, "incident", "onderhoud")
  /\ d.rapport => /\ d.kpi \/ Verwacht(d, "rapport", "contract")
                  /\ "rapport" \in d.beoordelingen \/ Verwacht(d, "rapport", "beheer")
  /\ (\E a \in DOMAIN d.aanbestedingen : d.aanbestedingen[a].demo /\ d.aanbestedingen[a].gegund) =>
       d.geldend \/ Verwacht(d, "gegund", "onderhoud")
  /\ (\E t \in DOMAIN d.trajecten : d.trajecten[t].status = "Afgerond") =>
       "afgerond" \in d.beoordelingen \/ Verwacht(d, "afgerond", "beheer")
  /\ (\E b \in d.bus : b.naar = "beheer") => d.kunstwerk
  /\ d.sessie => Bewaakt(d)

Rust == Rustig => NietVooruit /\ (\A l \in lopen : Verricht(l)) /\ Aangekomen(dienst)

-----------------------------------------------------------------------------
(* The services keep Aangekomen. *)

\* What comes along on the bus hides nothing that was expected.
LEMMA BlijftVerwacht ==
  ASSUME NEW d, NEW e, d.bus \subseteq e.bus, NEW welke, NEW naar, Verwacht(d, welke, naar)
  PROVE  Verwacht(e, welke, naar)
BY DEF Verwacht

\* A request that tells nobody anything.
LEMMA StilAangekomen ==
  ASSUME NEW d \in Dienst, NEW e \in Dienst, Aangekomen(d),
         e.bus = d.bus, e.kunstwerk = d.kunstwerk, e.kent = d.kent, e.incidenten # <<>> => d.incidenten # <<>>,
         d.trajecten # <<>> => e.trajecten # <<>>, e.rapport = d.rapport, e.kpi = d.kpi,
         e.beoordelingen = d.beoordelingen, e.geldend = d.geldend,
         \A a \in DOMAIN e.aanbestedingen : e.aanbestedingen[a].gegund =>
            a \in DOMAIN d.aanbestedingen /\ d.aanbestedingen[a].gegund
            /\ e.aanbestedingen[a].demo = d.aanbestedingen[a].demo,
         \A t \in DOMAIN e.trajecten : e.trajecten[t].status = "Afgerond" =>
            t \in DOMAIN d.trajecten /\ d.trajecten[t].status = "Afgerond",
         e.sessie => Bewaakt(e)
  PROVE  Aangekomen(e)
<1>1. \A welke, naar : Verwacht(e, welke, naar) <=> Verwacht(d, welke, naar)
  BY DEF Verwacht
<1>2. /\ e.kunstwerk => \A s \in {"monitoring", "contract"} : s \in e.kent \/ Verwacht(e, "kunstwerk", s)
      /\ e.incidenten # <<>> => e.trajecten # <<>> \/ Verwacht(e, "incident", "onderhoud")
      /\ e.rapport => /\ e.kpi \/ Verwacht(e, "rapport", "contract")
                      /\ "rapport" \in e.beoordelingen \/ Verwacht(e, "rapport", "beheer")
      /\ (\E b \in e.bus : b.naar = "beheer") => e.kunstwerk
  BY <1>1 DEF Aangekomen
<1>3. (\E a \in DOMAIN e.aanbestedingen : e.aanbestedingen[a].demo /\ e.aanbestedingen[a].gegund) =>
       e.geldend \/ Verwacht(e, "gegund", "onderhoud")
  BY <1>1 DEF Aangekomen
<1>4. (\E t \in DOMAIN e.trajecten : e.trajecten[t].status = "Afgerond") =>
       "afgerond" \in e.beoordelingen \/ Verwacht(e, "afgerond", "beheer")
  BY <1>1 DEF Aangekomen
<1> QED BY <1>2, <1>3, <1>4 DEF Aangekomen

-----------------------------------------------------------------------------
\* A request that also sends events.
LEMMA MeldtAangekomen ==
  ASSUME NEW d \in Dienst, NEW e \in Dienst, Aangekomen(d), d.bus \subseteq e.bus,
         e.kent = d.kent, e.trajecten # <<>> \/ d.trajecten = <<>>, e.kpi = d.kpi,
         e.beoordelingen = d.beoordelingen, e.geldend = d.geldend, e.sessie = d.sessie,
         e.kunstwerk # d.kunstwerk =>
           Verwacht(e, "kunstwerk", "monitoring") /\ Verwacht(e, "kunstwerk", "contract"),
         d.kunstwerk => e.kunstwerk,
         e.incidenten # d.incidenten => Verwacht(e, "incident", "onderhoud"),
         e.rapport # d.rapport => Verwacht(e, "rapport", "contract") /\ Verwacht(e, "rapport", "beheer"),
         \A a \in DOMAIN e.aanbestedingen : e.aanbestedingen[a].demo /\ e.aanbestedingen[a].gegund =>
            \/ Verwacht(e, "gegund", "onderhoud")
            \/ /\ a \in DOMAIN d.aanbestedingen /\ d.aanbestedingen[a].gegund /\ d.aanbestedingen[a].demo,
         \A t \in DOMAIN e.trajecten : e.trajecten[t].status = "Afgerond" =>
            \/ Verwacht(e, "afgerond", "beheer")
            \/ t \in DOMAIN d.trajecten /\ d.trajecten[t].status = "Afgerond",
         \A b \in e.bus : b \in d.bus \/ (b.naar = "beheer" => e.kunstwerk)
  PROVE  Aangekomen(e)
<1>1. \A welke, naar : Verwacht(d, welke, naar) => Verwacht(e, welke, naar)
  BY BlijftVerwacht
<1>2. /\ e.kunstwerk => \A s \in {"monitoring", "contract"} : s \in e.kent \/ Verwacht(e, "kunstwerk", s)
      /\ e.incidenten # <<>> => e.trajecten # <<>> \/ Verwacht(e, "incident", "onderhoud")
      /\ e.rapport => /\ e.kpi \/ Verwacht(e, "rapport", "contract")
                      /\ "rapport" \in e.beoordelingen \/ Verwacht(e, "rapport", "beheer")
  BY <1>1 DEF Aangekomen, Dienst
<1>3. (\E a \in DOMAIN e.aanbestedingen : e.aanbestedingen[a].demo /\ e.aanbestedingen[a].gegund) =>
       e.geldend \/ Verwacht(e, "gegund", "onderhoud")
  BY <1>1 DEF Aangekomen
<1>4. (\E t \in DOMAIN e.trajecten : e.trajecten[t].status = "Afgerond") =>
       "afgerond" \in e.beoordelingen \/ Verwacht(e, "afgerond", "beheer")
  BY <1>1 DEF Aangekomen
<1>5. (\E b \in e.bus : b.naar = "beheer") => e.kunstwerk
  BY DEF Aangekomen
<1>6. e.sessie => Bewaakt(e)
  BY DEF Aangekomen, Bewaakt
<1> QED BY <1>2, <1>3, <1>4, <1>5, <1>6 DEF Aangekomen

\* A request that is refused changes nothing.
LEMMA WeigeringDoetNiets ==
  ASSUME NEW d, NEW wat \in Wensen, NEW id, Uitvoering(d, wat, id).klasse # "ok"
  PROVE  Uitvoering(d, wat, id).na = d
BY DEF Wensen, Uitvoering, Registreer, StelEisenVast, StartSessie, Meet, LosOp, StelRapportOp, Publiceer,
       SchrijfIn, Gun, VerklaarPrestatie, Start, Inspecteer, RondAf, Antwoord, Weigering, Gelukt

\* What the requests make of the rows of Contract.
LEMMA InkoopNa ==
  ASSUME NEW d \in Dienst, Verwijst(d), NEW wat \in {"aanbesteding", "onbekende", "inschrijving", "gunning"},
         NEW id \in Nat, NEW a, a = Uitvoering(d, wat, id)
  PROVE  /\ \A k \in DOMAIN a.na.aanbestedingen :
              LET r == a.na.aanbestedingen[k]
              IN  \/ k \notin DOMAIN d.aanbestedingen /\ ~r.gegund
                  \/ /\ k \in DOMAIN d.aanbestedingen /\ r.demo = d.aanbestedingen[k].demo
                     /\ d.aanbestedingen[k].inschrijving => r.inschrijving
                     /\ r.gegund <=> d.aanbestedingen[k].gegund \/ (wat = "gunning" /\ k = id /\ a.klasse = "ok")
         /\ wat = "inschrijving" /\ a.klasse = "ok" =>
              id \in DOMAIN a.na.aanbestedingen /\ a.na.aanbestedingen[id].inschrijving
<1>1. d.aanbestedingen \in Seq(Inkoop)
  BY DEF Dienst
<1>6. \A k \in DOMAIN d.aanbestedingen : d.aanbestedingen[k] \in Inkoop
  BY <1>1
<1>2. CASE a.klasse # "ok"
  <2>1. a.na = d
    BY <1>2, WeigeringDoetNiets DEF Wensen
  <2> QED BY <1>2, <2>1
<1>3. CASE wat \in {"aanbesteding", "onbekende"}
  <2> DEFINE nieuw == [demo |-> wat = "aanbesteding", inschrijving |-> FALSE, gegund |-> FALSE]
             rij == Append(d.aanbestedingen, nieuw)
  <2>1. a.na = [d EXCEPT !.aanbestedingen = rij]
    BY <1>3 DEF Uitvoering, Publiceer, Antwoord
  <2>2. nieuw \in Inkoop /\ ~nieuw.gegund
    BY DEF Inkoop
  <2> HIDE DEF nieuw
  <2>3. /\ DOMAIN rij = 1 .. Len(d.aanbestedingen) + 1 /\ rij[Len(d.aanbestedingen) + 1] = nieuw
        /\ \A k \in DOMAIN d.aanbestedingen : rij[k] = d.aanbestedingen[k]
    BY <1>1, <2>2
  <2> HIDE DEF rij
  <2>4. a.na.aanbestedingen = rij
    BY <2>1 DEF Dienst
  <2>5. \A k \in DOMAIN rij : k \in DOMAIN d.aanbestedingen \/
           (k = Len(d.aanbestedingen) + 1 /\ k \notin DOMAIN d.aanbestedingen)
    BY <1>1, <2>3
  <2> QED BY <1>3, <2>2, <2>3, <2>4, <2>5
<1>4. CASE wat = "inschrijving" /\ a.klasse = "ok"
  <2> DEFINE r == [d.aanbestedingen[id] EXCEPT !.inschrijving = TRUE]
             rij == [d.aanbestedingen EXCEPT ![id] = r]
  <2>1. id \in DOMAIN d.aanbestedingen /\ a.na = [d EXCEPT !.aanbestedingen = rij]
    BY <1>4 DEF Uitvoering, SchrijfIn, Gelukt, Weigering, Antwoord
  <2>2. d.aanbestedingen[id] \in Inkoop
    BY <1>1, <2>1
  <2>3. r.demo = d.aanbestedingen[id].demo /\ (r.gegund <=> d.aanbestedingen[id].gegund) /\ r.inschrijving
    BY <2>2 DEF Inkoop
  <2> HIDE DEF r
  <2>4. /\ DOMAIN rij = DOMAIN d.aanbestedingen /\ rij[id] = r
        /\ \A k \in DOMAIN d.aanbestedingen : k # id => rij[k] = d.aanbestedingen[k]
    BY <2>1
  <2> HIDE DEF rij
  <2>5. a.na.aanbestedingen = rij
    BY <2>1 DEF Dienst
  <2> QED BY <1>4, <2>1, <2>3, <2>4, <2>5
<1>5. CASE wat = "gunning" /\ a.klasse = "ok"
  <2> DEFINE r == [d.aanbestedingen[id] EXCEPT !.gegund = TRUE]
             rij == [d.aanbestedingen EXCEPT ![id] = r]
  <2>1. /\ id \in DOMAIN d.aanbestedingen
        /\ \E bus : a.na = [d EXCEPT !.aanbestedingen = rij, !.bus = bus]
    BY <1>5 DEF Uitvoering, Gun, Gunbaar, Weigering, Antwoord
  <2>2. d.aanbestedingen[id] \in Inkoop
    BY <1>1, <2>1
  <2>3. /\ r.demo = d.aanbestedingen[id].demo /\ r.gegund
        /\ r.inschrijving <=> d.aanbestedingen[id].inschrijving
    BY <2>2 DEF Inkoop
  <2> HIDE DEF r
  <2>4. /\ DOMAIN rij = DOMAIN d.aanbestedingen /\ rij[id] = r
        /\ \A k \in DOMAIN d.aanbestedingen : k # id => rij[k] = d.aanbestedingen[k]
    BY <2>1
  <2> HIDE DEF rij
  <2>5. a.na.aanbestedingen = rij
    BY <2>1 DEF Dienst
  <2> QED BY <1>5, <2>1, <2>3, <2>4, <2>5
<1> QED BY <1>2, <1>3, <1>4, <1>5

\* What the requests make of the rows of Onderhoud.
LEMMA TrajectenNa ==
  ASSUME NEW d \in Dienst, NEW wat \in {"start", "inspectie", "afronden"}, NEW id \in Nat,
         NEW a, a = Uitvoering(d, wat, id), a.klasse = "ok"
  PROVE  /\ id \in DOMAIN d.trajecten /\ DOMAIN a.na.trajecten = DOMAIN d.trajecten
         /\ \A k \in DOMAIN d.trajecten : k # id => a.na.trajecten[k] = d.trajecten[k]
         /\ d.trajecten[id].status = IF wat = "start" THEN "Gepland" ELSE "Gestart"
         /\ a.na.trajecten[id].status = IF wat = "afronden" THEN "Afgerond" ELSE "Gestart"
         /\ a.na.trajecten[id].inspectie <=> d.trajecten[id].inspectie \/ wat = "inspectie"
<1> DEFINE oud == d.trajecten[id]
           r == CASE wat = "start" -> [oud EXCEPT !.status = "Gestart"]
                  [] wat = "inspectie" -> [oud EXCEPT !.inspectie = TRUE]
                  [] wat = "afronden" -> [oud EXCEPT !.status = "Afgerond"]
           rij == [d.trajecten EXCEPT ![id] = r]
<1>1. d.trajecten \in Seq(Traject)
  BY DEF Dienst
<1>2. id \in DOMAIN d.trajecten /\ oud.status = IF wat = "start" THEN "Gepland" ELSE "Gestart"
  BY DEF Uitvoering, Start, Inspecteer, RondAf, Heeft, Weigering, Antwoord
<1>3. oud \in Traject
  BY <1>1, <1>2
<1>4. a.na.trajecten = rij
  <2>1. CASE wat = "start"
    <3> DEFINE q == [oud EXCEPT !.status = "Gestart"]
               nieuw == [d.trajecten EXCEPT ![id] = q]
    <3>1. r = q
      BY <2>1
    <3>2. a.na = [d EXCEPT !.trajecten = nieuw]
      BY <2>1 DEF Uitvoering, Start, Weigering, Gelukt, Antwoord
    <3> HIDE DEF nieuw
    <3>3. a.na.trajecten = nieuw
      BY <3>2 DEF Dienst
    <3> HIDE DEF q, r
    <3> QED BY <3>1, <3>3 DEF nieuw
  <2>2. CASE wat = "inspectie"
    <3> DEFINE q == [oud EXCEPT !.inspectie = TRUE]
               nieuw == [d.trajecten EXCEPT ![id] = q]
    <3>1. r = q
      BY <2>2
    <3>2. a.na = [d EXCEPT !.trajecten = nieuw]
      BY <2>2 DEF Uitvoering, Inspecteer, Weigering, Gelukt, Antwoord
    <3> HIDE DEF nieuw
    <3>3. a.na.trajecten = nieuw
      BY <3>2 DEF Dienst
    <3> HIDE DEF q, r
    <3> QED BY <3>1, <3>3 DEF nieuw
  <2>3. CASE wat = "afronden"
    <3> DEFINE q == [oud EXCEPT !.status = "Afgerond"]
               nieuw == [d.trajecten EXCEPT ![id] = q]
    <3>1. r = q
      BY <2>3
    <3>2. \E bus : a.na = [d EXCEPT !.trajecten = nieuw, !.bus = bus]
      BY <2>3 DEF Uitvoering, RondAf, Weigering, Gelukt, Antwoord
    <3> HIDE DEF nieuw
    <3>3. a.na.trajecten = nieuw
      BY <3>2 DEF Dienst
    <3> HIDE DEF q, r
    <3> QED BY <3>1, <3>3 DEF nieuw
  <2> QED BY <2>1, <2>2, <2>3
<1>5. /\ r.status = IF wat = "afronden" THEN "Afgerond" ELSE "Gestart"
      /\ r.inspectie <=> oud.inspectie \/ wat = "inspectie"
  <2> HIDE DEF oud
  <2>1. CASE wat = "start"
    BY <1>3, <2>1 DEF Traject
  <2>2. CASE wat = "inspectie"
    BY <1>2, <1>3, <2>2 DEF Traject
  <2>3. CASE wat = "afronden"
    BY <1>3, <2>3 DEF Traject
  <2> QED BY <2>1, <2>2, <2>3
<1> HIDE DEF r
<1>6. DOMAIN rij = DOMAIN d.trajecten /\ rij[id] = r /\ \A k \in DOMAIN d.trajecten : k # id => rij[k] = d.trajecten[k]
  BY <1>2
<1> HIDE DEF rij
<1> QED BY <1>2, <1>4, <1>5, <1>6

LEMMA UitvoeringAangekomen ==
  ASSUME NEW d \in Dienst, Verwijst(d), Aangekomen(d), NEW wat \in Wensen, NEW id \in Nat,
         wat \in {"rapport", "afronden"} => d.kunstwerk
  PROVE  Aangekomen(Uitvoering(d, wat, id).na)
<1> SUFFICES ASSUME NEW a, a = Uitvoering(d, wat, id) PROVE Aangekomen(a.na)
  OBVIOUS
<1>0. a.na \in Dienst
  BY UitvoeringKlopt DEF GoedUitgevoerd, Behoudt
<1>99. d.sessie => Bewaakt(d)
  BY DEF Aangekomen
<1> USE DEF Antwoord, Gelukt, Weigering
<1>1. CASE wat = "registreer"
  <2>1. a = Registreer(d)
    BY <1>1 DEF Uitvoering
  <2>2. CASE d.kunstwerk
    BY <2>1, <2>2 DEF Registreer
  <2>3. CASE ~d.kunstwerk
    <3> DEFINE bm == Bericht("kunstwerk", "monitoring", Geen)
               bc == Bericht("kunstwerk", "contract", Geen)
    <3>1. a.na = [d EXCEPT !.kunstwerk = TRUE, !.bus = d.bus \cup {bm, bc}]
      BY <2>1, <2>3 DEF Registreer, Dienst
    <3>2. bm.soort = "kunstwerk" /\ bm.naar = "monitoring" /\ bc.soort = "kunstwerk" /\ bc.naar = "contract"
      BY DEF Bericht
    <3> HIDE DEF bm, bc
    <3>3. /\ a.na.kunstwerk /\ a.na.bus = d.bus \cup {bm, bc} /\ a.na.kent = d.kent
          /\ a.na.trajecten = d.trajecten /\ a.na.kpi = d.kpi /\ a.na.beoordelingen = d.beoordelingen
          /\ a.na.geldend = d.geldend /\ a.na.sessie = d.sessie /\ a.na.incidenten = d.incidenten
          /\ a.na.rapport = d.rapport /\ a.na.aanbestedingen = d.aanbestedingen
      BY <3>1 DEF Dienst
    <3>4. Verwacht(a.na, "kunstwerk", "monitoring") /\ Verwacht(a.na, "kunstwerk", "contract")
      BY <3>2, <3>3 DEF Verwacht
    <3> QED BY <1>0, <3>2, <3>3, <3>4, MeldtAangekomen
  <2> QED BY <2>2, <2>3
<1>2. CASE wat \in {"onderhoudseisen", "ontwerpeisen", "verklaring"}
  <2>1. \/ a.na = d
        \/ \E S : a.na = [d EXCEPT !.eisen = S]
        \/ \E S : a.na = [d EXCEPT !.verklaringen = S]
    BY <1>2 DEF Uitvoering, StelEisenVast, VerklaarPrestatie
  <2>2. a.na = d \/ (/\ a.na.bus = d.bus /\ a.na.kunstwerk = d.kunstwerk /\ a.na.kent = d.kent
                     /\ a.na.incidenten = d.incidenten /\ a.na.trajecten = d.trajecten
                     /\ a.na.rapport = d.rapport /\ a.na.kpi = d.kpi /\ a.na.beoordelingen = d.beoordelingen
                     /\ a.na.geldend = d.geldend /\ a.na.aanbestedingen = d.aanbestedingen
                     /\ a.na.sessie = d.sessie)
    BY <2>1 DEF Dienst
  <2> QED BY <1>0, <1>99, <2>2, StilAangekomen DEF Bewaakt
<1>3. CASE wat = "sessie"
  <2>1. a.na = d \/ (Bewaakt(d) /\ a.na = [d EXCEPT !.sessie = TRUE])
    BY <1>3 DEF Uitvoering, StartSessie
  <2>2. a.na = d \/ (/\ a.na.bus = d.bus /\ a.na.kunstwerk = d.kunstwerk /\ a.na.kent = d.kent
                     /\ a.na.incidenten = d.incidenten /\ a.na.trajecten = d.trajecten
                     /\ a.na.rapport = d.rapport /\ a.na.kpi = d.kpi /\ a.na.beoordelingen = d.beoordelingen
                     /\ a.na.geldend = d.geldend /\ a.na.aanbestedingen = d.aanbestedingen
                     /\ Bewaakt(d))
    BY <2>1 DEF Dienst
  <2> QED BY <1>0, <1>99, <2>2, StilAangekomen DEF Bewaakt
<1>4. CASE wat \in {"metingLaag", "metingHoog"}
  <2> DEFINE b == Bericht("incident", "onderhoud", Len(d.incidenten) + 1)
  <2>1. a.na = d \/ a.na = [d EXCEPT !.incidenten = Append(d.incidenten, "Open"), !.bus = d.bus \cup {b}]
    BY <1>4 DEF Uitvoering, Meet, Dienst
  <2>2. b.soort = "incident" /\ b.naar = "onderhoud"
    BY DEF Bericht
  <2> HIDE DEF b
  <2>3. a.na = d \/
          (/\ a.na.kunstwerk = d.kunstwerk /\ a.na.bus = d.bus \cup {b} /\ a.na.kent = d.kent
           /\ a.na.trajecten = d.trajecten /\ a.na.kpi = d.kpi /\ a.na.beoordelingen = d.beoordelingen
           /\ a.na.geldend = d.geldend /\ a.na.sessie = d.sessie
           /\ a.na.rapport = d.rapport /\ a.na.aanbestedingen = d.aanbestedingen)
    BY <2>1 DEF Dienst
  <2>4. a.na = d \/ Verwacht(a.na, "incident", "onderhoud")
    BY <2>2, <2>3 DEF Verwacht
  <2> QED BY <1>0, <2>2, <2>3, <2>4, MeldtAangekomen
<1>5. CASE wat = "oplossing"
  <2>1. a.na = d \/ (id \in DOMAIN d.incidenten /\ a.na = [d EXCEPT !.incidenten[id] = "Opgelost"])
    BY <1>5 DEF Uitvoering, LosOp
  <2>2. a.na = d \/ (/\ a.na.bus = d.bus /\ a.na.kunstwerk = d.kunstwerk /\ a.na.kent = d.kent
                     /\ d.incidenten # <<>> /\ a.na.trajecten = d.trajecten
                     /\ a.na.rapport = d.rapport /\ a.na.kpi = d.kpi /\ a.na.beoordelingen = d.beoordelingen
                     /\ a.na.geldend = d.geldend /\ a.na.aanbestedingen = d.aanbestedingen
                     /\ a.na.sessie = d.sessie)
    BY <2>1 DEF Dienst
  <2> QED BY <1>0, <1>99, <2>2, StilAangekomen DEF Bewaakt
<1>6. CASE wat = "rapport"
  <2> DEFINE bb == Bericht("rapport", "beheer", Geen)
             bc == Bericht("rapport", "contract", Geen)
  <2>1. a.na = [d EXCEPT !.rapport = TRUE, !.bus = d.bus \cup {bb, bc}]
    BY <1>6 DEF Uitvoering, StelRapportOp, Dienst
  <2>2. bb.soort = "rapport" /\ bb.naar = "beheer" /\ bc.soort = "rapport" /\ bc.naar = "contract"
    BY DEF Bericht
  <2> HIDE DEF bb, bc
  <2>3. /\ a.na.kunstwerk = d.kunstwerk /\ a.na.bus = d.bus \cup {bb, bc} /\ a.na.kent = d.kent
        /\ a.na.trajecten = d.trajecten /\ a.na.kpi = d.kpi /\ a.na.beoordelingen = d.beoordelingen
        /\ a.na.geldend = d.geldend /\ a.na.sessie = d.sessie /\ a.na.incidenten = d.incidenten
        /\ a.na.aanbestedingen = d.aanbestedingen
    BY <2>1 DEF Dienst
  <2>4. Verwacht(a.na, "rapport", "contract") /\ Verwacht(a.na, "rapport", "beheer")
    BY <2>2, <2>3 DEF Verwacht
  <2> QED BY <1>0, <1>6, <2>2, <2>3, <2>4, MeldtAangekomen
<1>7. CASE wat \in {"aanbesteding", "onbekende", "inschrijving"}
  <2>1. a.na = d \/ \E rij : a.na = [d EXCEPT !.aanbestedingen = rij]
    BY <1>7 DEF Uitvoering, Publiceer, SchrijfIn
  <2>2. a.na = d \/ (/\ a.na.bus = d.bus /\ a.na.kunstwerk = d.kunstwerk /\ a.na.kent = d.kent
                     /\ a.na.incidenten = d.incidenten /\ a.na.trajecten = d.trajecten
                     /\ a.na.rapport = d.rapport /\ a.na.kpi = d.kpi /\ a.na.beoordelingen = d.beoordelingen
                     /\ a.na.geldend = d.geldend /\ a.na.sessie = d.sessie)
    BY <2>1 DEF Dienst
  <2>3. \A k \in DOMAIN a.na.aanbestedingen : a.na.aanbestedingen[k].gegund =>
           /\ k \in DOMAIN d.aanbestedingen /\ d.aanbestedingen[k].gegund
           /\ a.na.aanbestedingen[k].demo = d.aanbestedingen[k].demo
    BY <1>7, InkoopNa
  <2> QED BY <1>0, <1>99, <2>2, <2>3, StilAangekomen DEF Bewaakt
<1>8. CASE wat = "gunning"
  <2> DEFINE b == Bericht("gegund", "onderhoud", id)
             bus == IF d.aanbestedingen[id].demo THEN d.bus \cup {b} ELSE d.bus
  <2>1. a.na = d \/ (id \in DOMAIN d.aanbestedingen /\
                     a.na = [d EXCEPT !.aanbestedingen[id].gegund = TRUE, !.bus = bus])
    BY <1>8 DEF Uitvoering, Gun, Gunbaar, Dienst
  <2>2. b.soort = "gegund" /\ b.naar = "onderhoud"
    BY DEF Bericht
  <2>3. d.bus \subseteq bus /\ (\A m \in bus : m \in d.bus \/ m = b) /\ (d.aanbestedingen[id].demo => b \in bus)
    OBVIOUS
  <2> HIDE DEF b, bus
  <2>4. a.na = d \/
          (/\ a.na.kunstwerk = d.kunstwerk /\ a.na.bus = bus /\ a.na.kent = d.kent
           /\ a.na.trajecten = d.trajecten /\ a.na.kpi = d.kpi /\ a.na.beoordelingen = d.beoordelingen
           /\ a.na.geldend = d.geldend /\ a.na.sessie = d.sessie
           /\ a.na.rapport = d.rapport /\ a.na.incidenten = d.incidenten)
    BY <2>1 DEF Dienst
  <2>5. a.na = d \/ \A k \in DOMAIN a.na.aanbestedingen :
                      /\ k \in DOMAIN d.aanbestedingen
                      /\ a.na.aanbestedingen[k].demo = d.aanbestedingen[k].demo
                      /\ k # id /\ a.na.aanbestedingen[k].gegund => d.aanbestedingen[k].gegund
    <3>1. a.na # d => \A k \in DOMAIN a.na.aanbestedingen : k \in DOMAIN d.aanbestedingen
      BY <2>1 DEF Dienst
    <3> QED BY <1>8, <3>1, InkoopNa
  <2>6. a.na = d \/ (d.aanbestedingen[id].demo => Verwacht(a.na, "gegund", "onderhoud"))
    BY <2>2, <2>3, <2>4 DEF Verwacht
  <2> QED BY <1>0, <2>2, <2>3, <2>4, <2>5, <2>6, MeldtAangekomen
<1>9. CASE wat \in {"start", "inspectie"}
  <2>1. \/ a.na = d
        \/ /\ id \in DOMAIN d.trajecten
           /\ \/ a.na = [d EXCEPT !.trajecten[id].status = "Gestart"]
              \/ a.na = [d EXCEPT !.trajecten[id].inspectie = TRUE]
    BY <1>9 DEF Uitvoering, Start, Inspecteer, Heeft
  <2>2. a.na = d \/ (/\ a.na.bus = d.bus /\ a.na.kunstwerk = d.kunstwerk /\ a.na.kent = d.kent
                     /\ a.na.incidenten = d.incidenten /\ a.na.aanbestedingen = d.aanbestedingen
                     /\ a.na.rapport = d.rapport /\ a.na.kpi = d.kpi /\ a.na.beoordelingen = d.beoordelingen
                     /\ a.na.geldend = d.geldend /\ a.na.sessie = d.sessie)
    BY <2>1 DEF Dienst
  <2>3. /\ d.trajecten # <<>> => a.na.trajecten # <<>>
        /\ \A t \in DOMAIN a.na.trajecten : a.na.trajecten[t].status = "Afgerond" =>
             t \in DOMAIN d.trajecten /\ d.trajecten[t].status = "Afgerond"
    <3>1. CASE a.klasse # "ok"
      BY <1>9, <3>1, WeigeringDoetNiets DEF Wensen
    <3>2. CASE a.klasse = "ok"
      <4>1. /\ id \in DOMAIN d.trajecten /\ DOMAIN a.na.trajecten = DOMAIN d.trajecten
            /\ \A k \in DOMAIN d.trajecten : k # id => a.na.trajecten[k] = d.trajecten[k]
            /\ a.na.trajecten[id].status = "Gestart"
        BY <1>9, <3>2, TrajectenNa
      <4>2. a.na.trajecten # <<>>
        BY <4>1
      <4> QED BY <4>1, <4>2
    <3> QED BY <3>1, <3>2
  <2> QED BY <1>0, <1>99, <2>2, <2>3, StilAangekomen DEF Bewaakt
<1>10. CASE wat = "afronden"
  <2> DEFINE b == Bericht("afgerond", "beheer", id)
  <2>1. a.na = d \/ (id \in DOMAIN d.trajecten /\
                     a.na = [d EXCEPT !.trajecten[id].status = "Afgerond", !.bus = d.bus \cup {b}])
    BY <1>10 DEF Uitvoering, RondAf, Heeft, Dienst
  <2>2. b.soort = "afgerond" /\ b.naar = "beheer"
    BY DEF Bericht
  <2> HIDE DEF b
  <2>3. a.na = d \/
          (/\ a.na.kunstwerk = d.kunstwerk /\ a.na.bus = d.bus \cup {b} /\ a.na.kent = d.kent
           /\ a.na.kpi = d.kpi /\ a.na.beoordelingen = d.beoordelingen
           /\ a.na.geldend = d.geldend /\ a.na.sessie = d.sessie /\ a.na.aanbestedingen = d.aanbestedingen
           /\ a.na.rapport = d.rapport /\ a.na.incidenten = d.incidenten)
    BY <2>1 DEF Dienst
  <2>4. a.na = d \/ Verwacht(a.na, "afgerond", "beheer")
    BY <2>2, <2>3 DEF Verwacht
  <2>5. a.na = d \/ a.na.trajecten # <<>>
    <3>1. CASE a.klasse # "ok"
      BY <1>10, <3>1, WeigeringDoetNiets DEF Wensen
    <3>2. CASE a.klasse = "ok"
      <4>1. id \in DOMAIN d.trajecten /\ DOMAIN a.na.trajecten = DOMAIN d.trajecten
        BY <1>10, <3>2, TrajectenNa
      <4> QED BY <4>1
    <3> QED BY <3>1, <3>2
  <2> QED BY <1>0, <1>10, <2>2, <2>3, <2>4, <2>5, MeldtAangekomen
<1> QED BY <1>1, <1>2, <1>3, <1>4, <1>5, <1>6, <1>7, <1>8, <1>9, <1>10 DEF Wensen

-----------------------------------------------------------------------------
\* The fields that a delivery changes.
LEMMA BezorgdNa ==
  ASSUME NEW d \in Dienst, Verwijst(d), NEW b \in d.bus, NEW e, e = Bezorgd(d, b)
  PROVE  /\ e.bus = d.bus \ {b} /\ d.kent \subseteq e.kent /\ d.beoordelingen \subseteq e.beoordelingen
         /\ e.kunstwerk = d.kunstwerk /\ e.sessie = d.sessie /\ e.rapport = d.rapport
         /\ d.geldend => e.geldend
         /\ d.kpi => e.kpi
         /\ b.soort = "kunstwerk" => b.naar \in e.kent
         /\ b.soort = "gegund" => e.geldend
         /\ b.soort = "rapport" /\ b.naar = "contract" => e.kpi
         /\ b.soort \in {"rapport", "afgerond"} /\ b.naar = "beheer" /\ d.kunstwerk => b.soort \in e.beoordelingen
         /\ b.soort = "incident" => e.trajecten # <<>>
         /\ \A t \in DOMAIN d.trajecten : t \in DOMAIN e.trajecten /\ e.trajecten[t] = d.trajecten[t]
         /\ \A t \in DOMAIN e.trajecten : t \in DOMAIN d.trajecten \/ e.trajecten[t].status = "Gepland"
<1> DEFINE r == [d EXCEPT !.bus = @ \ {b}]
<1>1. b \in Bezorgbaar
  BY DEF Dienst
<1>2. r \in Dienst /\ r = [d EXCEPT !.bus = d.bus \ {b}]
  BY DEF Dienst
<1>3. e = CASE b.soort = "kunstwerk" -> [r EXCEPT !.kent = @ \cup {b.naar}]
            [] b.soort = "incident"  ->
                 [r EXCEPT !.trajecten = Append(@, [incident |-> b.id, status |-> "Gepland", inspectie |-> FALSE])]
            [] b.soort = "gegund"    -> [r EXCEPT !.geldend = TRUE]
            [] b.soort = "rapport" /\ b.naar = "contract" -> [r EXCEPT !.kpi = TRUE]
            [] b.naar = "beheer"     ->
                 IF d.kunstwerk THEN [r EXCEPT !.beoordelingen = @ \cup {b.soort}] ELSE r
  BY DEF Bezorgd
<1>4. /\ r.bus = d.bus \ {b} /\ r.kent = d.kent /\ r.beoordelingen = d.beoordelingen
      /\ r.kunstwerk = d.kunstwerk /\ r.sessie = d.sessie /\ r.rapport = d.rapport
      /\ r.geldend = d.geldend /\ r.kpi = d.kpi /\ r.trajecten = d.trajecten
  BY <1>2 DEF Dienst
<1>5. d.trajecten \in Seq(Traject)
  BY DEF Dienst
<1> HIDE DEF r
<1>6. CASE b.soort = "incident"
  <2> DEFINE nieuw == [incident |-> b.id, status |-> "Gepland", inspectie |-> FALSE]
             rij == Append(d.trajecten, nieuw)
  <2>1. e = [r EXCEPT !.trajecten = rij]
    BY <1>1, <1>2, <1>3, <1>4, <1>6 DEF Bezorgbaar, Dienst
  <2>2. nieuw.status = "Gepland"
    OBVIOUS
  <2>3. nieuw \in Traject
    BY <1>1 DEF Traject, Bezorgbaar
  <2> HIDE DEF nieuw
  <2>4. /\ DOMAIN rij = 1 .. Len(d.trajecten) + 1 /\ rij[Len(d.trajecten) + 1] = nieuw
        /\ \A k \in DOMAIN d.trajecten : rij[k] = d.trajecten[k]
    BY <1>5, <2>3
  <2> HIDE DEF rij
  <2>5. /\ e.bus = r.bus /\ e.kent = r.kent /\ e.beoordelingen = r.beoordelingen /\ e.kunstwerk = r.kunstwerk
        /\ e.sessie = r.sessie /\ e.rapport = r.rapport /\ e.geldend = r.geldend /\ e.kpi = r.kpi
        /\ e.trajecten = rij
    BY <1>2, <2>1 DEF Dienst
  <2>6. rij # <<>>
    BY <1>5, <2>4
  <2>7. /\ \A t \in DOMAIN d.trajecten : t \in DOMAIN rij
        /\ \A t \in DOMAIN rij : t \in DOMAIN d.trajecten \/ t = Len(d.trajecten) + 1
    BY <1>5, <2>4
  <2> QED BY <1>4, <1>6, <2>2, <2>4, <2>5, <2>6, <2>7
<1>7. CASE b.soort = "kunstwerk"
  <2>1. e = [r EXCEPT !.kent = @ \cup {b.naar}]
    BY <1>1, <1>3, <1>7 DEF Bezorgbaar
  <2> QED BY <1>2, <1>4, <1>7, <2>1 DEF Dienst
<1>8. CASE b.soort = "gegund"
  <2>1. e = [r EXCEPT !.geldend = TRUE]
    BY <1>1, <1>3, <1>8 DEF Bezorgbaar
  <2> QED BY <1>2, <1>4, <1>8, <2>1 DEF Dienst
<1>9. CASE b.soort = "rapport" /\ b.naar = "contract"
  <2>1. e = [r EXCEPT !.kpi = TRUE]
    BY <1>1, <1>3, <1>9 DEF Bezorgbaar
  <2> QED BY <1>2, <1>4, <1>9, <2>1 DEF Dienst
<1>10. CASE b.soort \in {"rapport", "afgerond"} /\ b.naar = "beheer"
  <2>1. e = IF d.kunstwerk THEN [r EXCEPT !.beoordelingen = @ \cup {b.soort}] ELSE r
    BY <1>1, <1>3, <1>10 DEF Bezorgbaar
  <2> QED BY <1>2, <1>4, <1>10, <2>1 DEF Dienst
<1> QED BY <1>1, <1>6, <1>7, <1>8, <1>9, <1>10 DEF Bezorgbaar

LEMMA BezorgdAangekomen ==
  ASSUME NEW d \in Dienst, Verwijst(d), Aangekomen(d), NEW b \in d.bus
  PROVE  Aangekomen(Bezorgd(d, b))
<1> SUFFICES ASSUME NEW e, e = Bezorgd(d, b) PROVE Aangekomen(e)
  OBVIOUS
<1>1. e.incidenten = d.incidenten /\ e.aanbestedingen = d.aanbestedingen
  BY BezorgdKlopt
<1>2. /\ e.bus = d.bus \ {b} /\ d.kent \subseteq e.kent /\ d.beoordelingen \subseteq e.beoordelingen
      /\ e.kunstwerk = d.kunstwerk /\ e.sessie = d.sessie /\ e.rapport = d.rapport
      /\ d.geldend => e.geldend
      /\ d.kpi => e.kpi
      /\ b.soort = "kunstwerk" => b.naar \in e.kent
      /\ b.soort = "gegund" => e.geldend
      /\ b.soort = "rapport" /\ b.naar = "contract" => e.kpi
      /\ b.soort \in {"rapport", "afgerond"} /\ b.naar = "beheer" /\ d.kunstwerk => b.soort \in e.beoordelingen
      /\ b.soort = "incident" => e.trajecten # <<>>
      /\ \A t \in DOMAIN d.trajecten : t \in DOMAIN e.trajecten /\ e.trajecten[t] = d.trajecten[t]
      /\ \A t \in DOMAIN e.trajecten : t \in DOMAIN d.trajecten \/ e.trajecten[t].status = "Gepland"
  BY BezorgdNa
<1>3. \A welke, naar : Verwacht(d, welke, naar) => Verwacht(e, welke, naar) \/ (b.soort = welke /\ b.naar = naar)
  BY <1>2 DEF Verwacht
<1>4. d.trajecten # <<>> => e.trajecten # <<>>
  <2>1. d.trajecten # <<>> => 1 \in DOMAIN d.trajecten
    BY DEF Dienst
  <2> QED BY <1>2, <2>1
<1>5. /\ e.kunstwerk => \A s \in {"monitoring", "contract"} : s \in e.kent \/ Verwacht(e, "kunstwerk", s)
      /\ e.incidenten # <<>> => e.trajecten # <<>> \/ Verwacht(e, "incident", "onderhoud")
  BY <1>1, <1>2, <1>3, <1>4 DEF Aangekomen
<1>6. (\E m \in d.bus : m.naar = "beheer") => d.kunstwerk
  BY DEF Aangekomen
<1>7. e.rapport => /\ e.kpi \/ Verwacht(e, "rapport", "contract")
                   /\ "rapport" \in e.beoordelingen \/ Verwacht(e, "rapport", "beheer")
  BY <1>2, <1>3, <1>6 DEF Aangekomen
<1>8. (\E a \in DOMAIN e.aanbestedingen : e.aanbestedingen[a].demo /\ e.aanbestedingen[a].gegund) =>
       e.geldend \/ Verwacht(e, "gegund", "onderhoud")
  BY <1>1, <1>2, <1>3 DEF Aangekomen
<1>9. (\E t \in DOMAIN e.trajecten : e.trajecten[t].status = "Afgerond") =>
       "afgerond" \in e.beoordelingen \/ Verwacht(e, "afgerond", "beheer")
  <2>1. \A t \in DOMAIN e.trajecten : e.trajecten[t].status = "Afgerond" =>
          t \in DOMAIN d.trajecten /\ d.trajecten[t].status = "Afgerond"
    BY <1>2
  <2> QED BY <1>2, <1>3, <1>6, <2>1 DEF Aangekomen
<1>10. (\E m \in e.bus : m.naar = "beheer") => e.kunstwerk
  BY <1>2, <1>6
<1>11. e.sessie => Bewaakt(e)
  BY <1>2 DEF Aangekomen, Bewaakt
<1> QED BY <1>5, <1>7, <1>8, <1>9, <1>10, <1>11 DEF Aangekomen

-----------------------------------------------------------------------------
(* The services do nothing that was not asked. *)

LEMMA StandBlijft ==
  ASSUME NEW d \in Dienst, NEW id \in Nat, NEW wat \in Wensen
  PROVE  /\ wat # "registreer" => Uitvoering(d, wat, id).na.kunstwerk = d.kunstwerk
         /\ wat # "sessie" => Uitvoering(d, wat, id).na.sessie = d.sessie
         /\ wat \notin {"start", "inspectie", "afronden"} =>
              Uitvoering(d, wat, id).na.trajecten = d.trajecten
<1>1. CASE wat \in {"registreer", "onderhoudseisen", "ontwerpeisen", "sessie", "metingLaag", "rapport"}
  BY <1>1 DEF Dienst, Uitvoering, Registreer, StelEisenVast, StartSessie, Meet, StelRapportOp,
              Antwoord, Gelukt, Weigering
<1>2. CASE wat \in {"start", "inspectie", "afronden", "verklaring"}
  BY <1>2 DEF Dienst, Uitvoering, Start, Inspecteer, RondAf, VerklaarPrestatie, Antwoord, Gelukt, Weigering
<1>3. CASE wat \in {"aanbesteding", "onbekende", "inschrijving", "gunning"}
  BY <1>3 DEF Dienst, Uitvoering, Publiceer, SchrijfIn, Gun, Antwoord, Gelukt, Weigering
<1>4. CASE wat \in {"metingHoog", "oplossing"}
  BY <1>4 DEF Dienst, Uitvoering, Meet, LosOp, Antwoord, Gelukt, Weigering
<1> QED BY <1>1, <1>2, <1>3, <1>4 DEF Wensen

LEMMA UitvoeringOngevraagd ==
  ASSUME NEW d \in Dienst, Verwijst(d), NEW wat \in Wensen, NEW id \in Nat, NEW a, a = Uitvoering(d, wat, id),
         NEW w \in {"registreer", "sessie", "gunning", "start", "oplossing"}, Ongevraagd(w, d),
         wat # w \/ a.klasse # "ok"
  PROVE  Ongevraagd(w, a.na)
<1>1. CASE a.klasse # "ok"
  BY <1>1, WeigeringDoetNiets
<1> SUFFICES ASSUME a.klasse = "ok", wat # w PROVE Ongevraagd(w, a.na)
  BY <1>1
<1>2. CASE w = "registreer"
  BY <1>2, StandBlijft DEF Ongevraagd
<1>3. CASE w = "sessie"
  BY <1>3, StandBlijft DEF Ongevraagd
<1>4. CASE w = "gunning"
  <2>1. \A k \in DOMAIN d.aanbestedingen : ~d.aanbestedingen[k].gegund
    BY <1>4 DEF Ongevraagd
  <2>2. \A k \in DOMAIN a.na.aanbestedingen : ~a.na.aanbestedingen[k].gegund
    <3>1. CASE wat \notin {"aanbesteding", "onbekende", "inschrijving", "gunning"}
      BY <2>1, <3>1, RijenBlijven
    <3>2. CASE wat \in {"aanbesteding", "onbekende", "inschrijving"}
      BY <2>1, <3>2, InkoopNa
    <3> QED BY <1>4, <3>1, <3>2
  <2> QED BY <1>4, <2>2 DEF Ongevraagd
<1>5. CASE w = "start"
  <2>1. \A t \in DOMAIN d.trajecten : d.trajecten[t].status = "Gepland"
    BY <1>5 DEF Ongevraagd
  <2>2. wat \notin {"inspectie", "afronden"}
    <3> SUFFICES ASSUME wat \in {"inspectie", "afronden"} PROVE FALSE
      OBVIOUS
    <3>1. id \in DOMAIN d.trajecten /\ d.trajecten[id].status = IF wat = "start" THEN "Gepland" ELSE "Gestart"
      BY TrajectenNa
    <3> QED BY <2>1, <3>1
  <2>3. a.na.trajecten = d.trajecten
    BY <1>5, <2>2, StandBlijft
  <2> QED BY <1>5, <2>1, <2>3 DEF Ongevraagd
<1>6. CASE w = "oplossing"
  <2>1. \A i \in DOMAIN d.incidenten : d.incidenten[i] = "Open"
    BY <1>6 DEF Ongevraagd
  <2>2. \A i \in DOMAIN a.na.incidenten : a.na.incidenten[i] = "Open"
    <3>1. CASE wat # "metingHoog"
      BY <1>6, <2>1, <3>1, RijenBlijven
    <3>2. CASE wat = "metingHoog"
      <4>1. \E bus : a.na = [d EXCEPT !.incidenten = Append(d.incidenten, "Open"), !.bus = bus]
        BY <3>2 DEF Uitvoering, Meet, Weigering, Gelukt, Antwoord
      <4>2. a.na.incidenten = Append(d.incidenten, "Open") /\ d.incidenten \in Seq(Incidentstand)
        BY <4>1 DEF Dienst
      <4>3. /\ DOMAIN a.na.incidenten = 1 .. Len(d.incidenten) + 1
            /\ a.na.incidenten[Len(d.incidenten) + 1] = "Open"
            /\ \A i \in DOMAIN d.incidenten : a.na.incidenten[i] = d.incidenten[i]
        BY <4>2 DEF Incidentstand
      <4> QED BY <2>1, <4>2, <4>3
    <3> QED BY <3>1, <3>2
  <2> QED BY <1>6, <2>2 DEF Ongevraagd
<1> QED BY <1>2, <1>3, <1>4, <1>5, <1>6

-----------------------------------------------------------------------------
(* Demoroute: what an undisturbed page may count on.                       *)

\* Which requests of its step lie behind the one that l is at.
LEMMA EerderPlaats ==
  ASSUME pagina \in Paginas, NEW l \in Lopend, l.pc \in DOMAIN Draaiboek[l.stap]
  PROVE  LET wat == Instructie(l).wat
         IN  /\ <<l.stap, wat>> \in Eenmalig => wat \notin Eerder(l)
             /\ wat \in {"registreer", "sessie", "start", "oplossing"} => <<l.stap, wat>> \in Eenmalig
             /\ wat = "gunning" => l.stap = 11 \/ (<<l.stap, wat>> \in Eenmalig /\ "inschrijving" \in Eerder(l))
             /\ wat \in {"inschrijving", "gunning"} /\ l.stap = 6 => "aanbesteding" \in Eerder(l)
             /\ wat = "inschrijving" => l.stap = 11 \/ (l.stap = 6 /\ "gunning" \notin Eerder(l))
             /\ wat \in {"inspectie", "afronden"} => "start" \in Eerder(l) /\ "afronden" \notin Eerder(l)
             /\ wat = "afronden" => "inspectie" \in Eerder(l)
             /\ wat = "start" => Eerder(l) = {}
             /\ wat = "kunstwerken" => "registreer" \in Eerder(l)
             /\ wat = "eisen" => {"onderhoudseisen", "ontwerpeisen"} \subseteq Eerder(l)
             /\ wat = "sessies" => "sessie" \in Eerder(l)
             /\ wat = "incidenten" => "metingHoog" \in Eerder(l)
             /\ wat = "netwerkrapportages" => "rapport" \in Eerder(l)
             /\ wat = "onderhoudsrapporten" => "afronden" \in Eerder(l)
<1> DEFINE s == Draaiboek[l.stap]
           wat == Instructie(l).wat
<1>1. /\ l.stap \in Stappen /\ Len(s) \in Nat /\ DOMAIN s = 1 .. Len(s)
      /\ \A i \in DOMAIN s : PastBij(l.stap, i, Len(s), s[i]) /\ PlaatsBij(l.stap, i, s[i])
  BY DraaiboekPast DEF Lopend
<1>2. \A w : w \in Eerder(l) <=> \E i \in DOMAIN s : i < l.pc /\ s[i].wat = w
  BY DEF Eerder
<1>3. wat = s[l.pc].wat /\ l.pc \in DOMAIN s /\ l.pc \in Nat
  BY DEF Instructie, Lopend
<1> HIDE DEF s, wat
<1>4. /\ PlaatsBij(l.stap, l.pc, s[l.pc]) /\ PastBij(l.stap, l.pc, Len(s), s[l.pc])
      /\ \A i \in 1 .. 4 : i < l.pc => i \in DOMAIN s /\ PlaatsBij(l.stap, i, s[i]) /\ PastBij(l.stap, i, Len(s), s[i])
  BY <1>1, <1>3
<1>5. \A i \in 1 .. 4 : \A w : i < l.pc /\ s[i].wat = w => w \in Eerder(l)
  BY <1>2, <1>4
<1>6. <<l.stap, wat>> \in Eenmalig => wat \notin Eerder(l)
  <2>1. \A i \in DOMAIN s : PlaatsBij(l.stap, i, s[i])
    BY <1>1
  <2>2. <<l.stap, wat>> \in Eenmalig =>
          /\ wat \in {"registreer", "sessie", "start", "oplossing"} => \A i \in DOMAIN s : s[i].wat = wat => i = 1
          /\ wat = "gunning" => \A i \in DOMAIN s : s[i].wat = wat => i = 4
    BY <2>1 DEF PlaatsBij, Eenmalig
  <2>3. <<l.stap, wat>> \in Eenmalig => wat \in {"registreer", "sessie", "start", "oplossing", "gunning"}
    BY DEF Eenmalig
  <2> QED BY <1>2, <1>3, <2>2, <2>3
<1>7. /\ wat \in {"registreer", "sessie", "start", "oplossing"} => <<l.stap, wat>> \in Eenmalig
      /\ wat = "gunning" => l.stap = 11 \/ (<<l.stap, wat>> \in Eenmalig /\ l.pc = 4)
  BY <1>3, <1>4 DEF PlaatsBij, PastBij, Eenmalig
<1>8. l.stap = 6 /\ l.pc > 2 => "inschrijving" \in Eerder(l)
  BY <1>3, <1>4, <1>5 DEF PlaatsBij
<1>9. l.stap = 6 /\ l.pc > 1 => "aanbesteding" \in Eerder(l)
  BY EerderPast
<1>10. wat \in {"inschrijving", "gunning"} => l.stap \in {6, 11} /\ (l.stap = 6 => l.pc > 1)
  BY <1>3, <1>4 DEF PlaatsBij, PastBij
<1>11. wat = "inschrijving" => "gunning" \notin Eerder(l)
  BY EerderPast
<1>12. l.stap = 9 =>
         /\ l.pc > 1 => "start" \in Eerder(l)
         /\ l.pc > 2 => "inspectie" \in Eerder(l)
         /\ l.pc > 3 => "afronden" \in Eerder(l)
         /\ l.pc <= 3 => "afronden" \notin Eerder(l)
  <2> SUFFICES ASSUME l.stap = 9
               PROVE  /\ l.pc > 1 => "start" \in Eerder(l)
                      /\ l.pc > 2 => "inspectie" \in Eerder(l)
                      /\ l.pc > 3 => "afronden" \in Eerder(l)
                      /\ l.pc <= 3 => "afronden" \notin Eerder(l)
    OBVIOUS
  <2>1. /\ l.pc > 1 => s[1].wat = "start"
        /\ l.pc > 2 => s[2].wat = "inspectie"
        /\ l.pc > 3 => s[3].wat = "afronden"
    BY <1>3, <1>4 DEF PlaatsBij
  <2>2. \A i \in DOMAIN s : s[i].wat = "afronden" => i = 3
    BY <1>1 DEF PlaatsBij
  <2>3. l.pc <= 3 => "afronden" \notin Eerder(l)
    BY <1>1, <1>2, <1>3, <2>2
  <2> QED BY <1>3, <1>5, <2>1, <2>3
<1>13. /\ wat = "start" => l.stap = 9 /\ l.pc = 1
       /\ wat = "inspectie" => l.stap = 9 /\ l.pc = 2
       /\ wat = "afronden" => l.stap = 9 /\ l.pc = 3
       /\ wat = "onderhoudsrapporten" => l.stap = 9 /\ l.pc = 4
  BY <1>3, <1>4 DEF PlaatsBij
<1>14. wat = "start" => Eerder(l) = {}
  <2>1. \A i \in DOMAIN s : ~(i < 1)
    BY <1>1
  <2> QED BY <1>2, <1>13, <2>1
<1>15. wat = "kunstwerken" => "registreer" \in Eerder(l)
  BY <1>3, <1>4, <1>5 DEF PlaatsBij
<1>16. wat = "eisen" => {"onderhoudseisen", "ontwerpeisen"} \subseteq Eerder(l)
  BY <1>3, <1>4, <1>5 DEF PlaatsBij
<1>17. wat = "sessies" => "sessie" \in Eerder(l)
  BY <1>3, <1>4, <1>5 DEF PlaatsBij
<1>18. wat = "incidenten" => "metingHoog" \in Eerder(l)
  <2>1. wat = "incidenten" => l.stap = 4 /\ l.pc = 3
    BY <1>3, <1>4 DEF PastBij
  <2> QED BY <2>1, EerderPast
<1>19. wat = "netwerkrapportages" => "rapport" \in Eerder(l)
  BY <1>3, <1>4, <1>5 DEF PlaatsBij
<1> QED
  BY <1>3, <1>6, <1>7, <1>8, <1>9, <1>10, <1>11, <1>12, <1>13, <1>14, <1>15, <1>16, <1>17, <1>18, <1>19
     DEF wat

\* The step that runs is the only one; all before it are done and none after it has begun.
LEMMA OpRoute ==
  ASSUME RouteInv, Rust, Rustig, NEW l \in lopen
  PROVE  /\ lopen = {l} /\ l \in Lopend /\ l.stap \in 1 .. 11 /\ status[l.stap] = "running"
         /\ \A n \in Stappen : n < l.stap => status[n] = "done" /\ Waar(n)
         /\ NietVooruit /\ Verricht(l) /\ Aangekomen(dienst)
         /\ MetDitBoek(l) /\ Len(refs) = 1 /\ DOMAIN refs = {1}
<1>1. OpVolgorde
  BY DEF RouteInv, Ongestoord
<1>2. l \in Lopend /\ l.stap \in Stappen /\ refs \in Seq(Idboek)
  BY DEF RouteInv, RouteTypeInv, Lopend
<1>3. l.stap \in 1 .. 11
  BY <1>2 DEF Stappen
<1>4. lopen = {l} /\ status[l.stap] = "running" /\ MetDitBoek(l) /\ Len(refs) = 1
  BY <1>1 DEF OpVolgorde
<1>5. \A n \in Stappen : n < l.stap => status[n] = "done"
  BY <1>1, <1>2, <1>4 DEF OpVolgorde
<1>6. \A n \in Stappen : n < l.stap => Waar(n)
  BY <1>5 DEF RouteInv, KlaarIsWaar
<1>7. NietVooruit /\ Verricht(l) /\ Aangekomen(dienst)
  BY DEF Rust
<1>8. DOMAIN refs = {1}
  BY <1>2, <1>4
<1> QED BY <1>2, <1>3, <1>4, <1>5, <1>6, <1>7, <1>8

-----------------------------------------------------------------------------
(* Demoroute: the page takes an answer or is clicked, and Rust remains. *)

\* A page that goes on without asking: nothing is asked for that was not asked for before.
LEMMA StilRust ==
  ASSUME Rust, Rustig' => Rustig, UNCHANGED <<pagina, dienst>>,
         Rustig' => \A e \in Eenmalig : NogNiets(e[1], e[2])' => NogNiets(e[1], e[2]),
         Rustig' => \A q \in lopen' : Verricht(q)
  PROVE  Rust'
<1> SUFFICES ASSUME Rustig' PROVE NietVooruit' /\ (\A q \in lopen' : Verricht(q)') /\ Aangekomen(dienst')
  BY DEF Rust
<1>1. NietVooruit /\ Aangekomen(dienst)
  BY DEF Rust
<1>2. \A q : Gedaan(q)' = Gedaan(q)
  BY DraaiboekBlijft
<1>3. \A q \in lopen' : Verricht(q)'
  BY <1>2 DEF Verricht
<1>4. NietVooruit'
  BY <1>1 DEF NietVooruit
<1> QED BY <1>1, <1>3, <1>4

\* The step that begins has done nothing.
LEMMA LeegVerricht ==
  ASSUME pagina \in Paginas, NEW q \in Lopend, q.pc = 1, q.fase = "heen" \/ q.klasse = "geenId"
  PROVE  Gedaan(q) = {} /\ Verricht(q)
BY NogNietsGedaan DEF Verricht

LEMMA StuurtRust ==
  ASSUME RouteInv, Rust, NEW l \in lopen, NEW m, Stuurt(l, m)
  PROVE  Rust'
<1>1. /\ m.stap = l.stap /\ Gedaan(m) = Gedaan(l) /\ lopen' = (lopen \ {l}) \cup {m}
      /\ l.stap = 9 \/ "inschrijving" \in Gedaan(l) => m.eigen = l.eigen
      /\ UNCHANGED <<pagina, dienst, status, storingen, ingrepen>>
  BY DEF Stuurt
<1>2. \A q : Gedaan(q)' = Gedaan(q)
  BY <1>1, DraaiboekBlijft
<1>3. ASSUME NEW n, NEW wat, NogNiets(n, wat)' PROVE NogNiets(n, wat)
  BY <1>1, <1>2, <1>3 DEF NogNiets
<1>4. Rustig => Verricht(m)
  BY <1>1 DEF Rust, Verricht
<1>5. Rustig' <=> Rustig
  BY <1>1 DEF Rustig
<1>6. Rustig => \A q \in lopen' : Verricht(q)
  BY <1>1, <1>4 DEF Rust
<1>7. \A e \in Eenmalig : NogNiets(e[1], e[2])' => NogNiets(e[1], e[2])
  BY <1>3
<1> QED BY <1>1, <1>5, <1>6, <1>7, StilRust

LEMMA EindeRust ==
  ASSUME RouteInv, Rust, NEW l \in lopen, NEW uitkomst \in {"done", "error"}, Einde(l, uitkomst),
         UNCHANGED buitenBlad
  PROVE  Rust'
<1> DEFINE n        == l.stap
           vanAlles == alles = n /\ l.gen = Heden
           door     == vanAlles /\ uitkomst = "done" /\ n < 11
           volgende == [Lege(IF door THEN n + 1 ELSE n, l.gen) EXCEPT !.gen = l.gen]
<1>1. /\ UNCHANGED <<pagina, dienst, storingen, ingrepen>>
      /\ status' = IF door THEN [status EXCEPT ![n] = uitkomst, ![n + 1] = "running"]
                   ELSE [status EXCEPT ![n] = uitkomst]
      /\ lopen' = (lopen \ {l}) \cup (IF door THEN {volgende} ELSE {})
  BY DEF Einde, buitenBlad
<1>2. Rustig' <=> Rustig
  BY <1>1 DEF Rustig
<1> SUFFICES ASSUME Rustig PROVE Rust'
  BY <1>2 DEF Rust
<1>3. /\ lopen = {l} /\ l \in Lopend /\ n \in 1 .. 11 /\ status[n] = "running"
      /\ OpVolgorde /\ pagina \in Paginas /\ RouteTypeInv /\ l.gen \in DOMAIN refs
      /\ status \in [Stappen -> {"idle", "running", "done", "error"}]
  BY OpRoute DEF RouteInv, Ongestoord, RouteTypeInv, Loopt
<1>4. door => /\ n + 1 \in Stappen /\ status[n + 1] = "idle"
              /\ volgende.stap = n + 1 /\ Gedaan(volgende) = {} /\ Verricht(volgende)
  <2> SUFFICES ASSUME door
               PROVE  /\ n + 1 \in Stappen /\ status[n + 1] = "idle"
                      /\ volgende.stap = n + 1 /\ Gedaan(volgende) = {} /\ Verricht(volgende)
    OBVIOUS
  <2>1. n + 1 \in Stappen /\ n \in Stappen /\ n < n + 1
    BY <1>3 DEF Stappen
  <2>2. status[n + 1] = "idle"
    BY <1>3, <2>1 DEF OpVolgorde
  <2> DEFINE q == Lege(n + 1, l.gen)
  <2>3. /\ q \in Lopend /\ q.stap = n + 1 /\ q.gen = l.gen /\ q.pc = 1
        /\ q.fase = "heen" \/ q.klasse = "geenId"
    BY <1>3, <2>1, LegeKlopt
  <2>4. volgende = [q EXCEPT !.gen = l.gen]
    OBVIOUS
  <2> HIDE DEF q, volgende
  <2>5. volgende = q
    BY <2>3, <2>4 DEF Lopend
  <2>6. Gedaan(q) = {} /\ Verricht(q)
    BY <1>3, <2>3, LeegVerricht
  <2> QED BY <2>1, <2>2, <2>3, <2>5, <2>6
<1>5. \A q : Gedaan(q)' = Gedaan(q)
  BY <1>1, DraaiboekBlijft
<1>10. n \in Stappen
  BY <1>3 DEF Stappen
<1> HIDE DEF door, volgende
<1>6. ASSUME NEW k \in Stappen, status'[k] = "idle" PROVE status[k] = "idle"
  BY <1>1, <1>3, <1>4, <1>6, <1>10
<1>7. ASSUME NEW k \in Stappen, NEW wat, NogNiets(k, wat)' PROVE NogNiets(k, wat)
  <2>1. CASE status'[k] = "idle"
    BY <1>6, <2>1 DEF NogNiets
  <2>2. CASE \E q \in lopen' : q.stap = k
    <3>1. door /\ k = n + 1
      BY <1>1, <1>3, <1>4, <2>2
    <3> QED BY <1>4, <3>1 DEF NogNiets
  <2> QED BY <1>7, <2>1, <2>2 DEF NogNiets
<1>8. \A e \in Eenmalig : e[1] \in Stappen
  BY DEF Eenmalig, Stappen
<1>9. \A q \in lopen' : Verricht(q)
  BY <1>1, <1>3, <1>4
<1> QED BY <1>1, <1>2, <1>7, <1>8, <1>9, StilRust

LEMMA KlikRust == ASSUME RouteInv, Rust, NEW n \in Stappen, Klik(n) PROVE Rust'
<1> DEFINE q == Lege(n, Heden)
<1> SUFFICES ASSUME Rustig' PROVE Rust'
  BY DEF Rust
<1>1. /\ lopen' = lopen \cup {q} /\ status' = [status EXCEPT ![n] = "running"]
      /\ UNCHANGED <<pagina, dienst, storingen>>
      /\ IF OpDeRoute(n) THEN UNCHANGED ingrepen ELSE Ingreep
  BY DEF Klik
<1>2. RouteTypeInv /\ pagina \in Paginas /\ Heden \in DOMAIN refs
  BY DEF RouteInv, RouteTypeInv, Heden
<1>3. Rustig /\ lopen = {} /\ status[n] = "idle"
  BY <1>1, <1>2 DEF Rustig, Ingreep, RouteTypeInv, OpDeRoute
<1>4. /\ q \in Lopend /\ q.stap = n /\ q.pc = 1 /\ (q.fase = "heen" \/ q.klasse = "geenId")
  BY <1>2, LegeKlopt
<1>5. Gedaan(q) = {} /\ Verricht(q)
  BY <1>2, <1>4, LeegVerricht
<1> HIDE DEF q
<1>6. status \in [Stappen -> {"idle", "running", "done", "error"}]
  BY <1>2 DEF RouteTypeInv
<1>7. ASSUME NEW k \in Stappen, NEW wat, NogNiets(k, wat)' PROVE NogNiets(k, wat)
  BY <1>1, <1>3, <1>4, <1>6, <1>7 DEF NogNiets
<1>8. \A e \in Eenmalig : e[1] \in Stappen
  BY DEF Eenmalig, Stappen
<1>9. \A p \in lopen' : Verricht(p)
  BY <1>1, <1>3, <1>5
<1> QED BY <1>1, <1>3, <1>7, <1>8, <1>9, StilRust

LEMMA StartAllesRust == ASSUME RouteInv, Rust, StartAlles PROVE Rust'
<1> SUFFICES ASSUME Rustig' PROVE Rust'
  BY DEF Rust
<1> DEFINE q0 == Lege(1, Heden)
<1>1. /\ lopen' = lopen \cup {[q0 EXCEPT !.gen = Len(refs')]} /\ refs' = VerseRefs
      /\ UNCHANGED <<pagina, dienst, storingen>>
      /\ IF OpDeRoute(1) /\ status = AllesIdle THEN UNCHANGED ingrepen ELSE Ingreep
  BY DEF StartAlles
<1>2. RouteTypeInv /\ pagina \in Paginas /\ Heden \in DOMAIN refs /\ 1 \in Stappen
  BY DEF RouteInv, RouteTypeInv, Heden, Stappen
<1>3. Rustig /\ lopen = {} /\ status = AllesIdle
  BY <1>1, <1>2 DEF Rustig, Ingreep, RouteTypeInv, OpDeRoute
<1>4. q0 \in Lopend /\ q0.pc = 1 /\ (q0.fase = "heen" \/ q0.klasse = "geenId")
  BY <1>2, LegeKlopt
<1>5. Len(refs') \in Nat
  BY <1>1, VerseRefsKloppen
<1>6. PICK q : q = [q0 EXCEPT !.gen = Len(refs')]
  OBVIOUS
<1> HIDE DEF q0
<1>7. q \in Lopend /\ q.pc = 1 /\ (q.fase = "heen" \/ q.klasse = "geenId")
  BY <1>4, <1>5, <1>6 DEF Lopend
<1>8. Gedaan(q) = {} /\ Verricht(q)
  BY <1>2, <1>7, LeegVerricht
<1>9. \A e \in Eenmalig : NogNiets(e[1], e[2])
  BY <1>3 DEF Eenmalig, NogNiets, AllesIdle, Stappen
<1>10. \A p \in lopen' : Verricht(p)
  BY <1>1, <1>3, <1>6, <1>8
<1> QED BY <1>1, <1>3, <1>9, <1>10, StilRust

\* Off the route, and after a failed request, Rust says nothing.
LEMMA OnrustRust ==
  ASSUME RouteInv, Reset \/ Herlaad \/ \E l \in lopen : Verlies(l)
  PROVE  Rust' /\ ~Rustig'
<1>1. storingen \in Nat /\ ingrepen \in Nat
  BY DEF RouteInv, RouteTypeInv
<1>2. ~Rustig'
  BY <1>1 DEF Reset, Herlaad, Verlies, Ingreep, Rustig
<1> QED BY <1>2 DEF Rust

-----------------------------------------------------------------------------
(* Demoroute: an event arrives or a request is answered, and Rust remains. *)

LEMMA BezorgRust == ASSUME RouteInv, Rust, NEW b, Bezorg(b) PROVE Rust'
<1>1. /\ b \in dienst.bus /\ dienst' = Bezorgd(dienst, b)
      /\ UNCHANGED <<pagina, status, lopen, storingen, ingrepen>>
  BY DEF Bezorg
<1> SUFFICES ASSUME Rustig PROVE NietVooruit' /\ (\A q \in lopen' : Verricht(q)') /\ Aangekomen(dienst')
  BY <1>1 DEF Rust, Rustig
<1>2. dienst \in Dienst /\ Verwijst(dienst)
  BY DEF RouteInv, RouteTypeInv
<1>3. NietVooruit /\ (\A q \in lopen : Verricht(q)) /\ Aangekomen(dienst)
  BY DEF Rust
<1>4. /\ dienst'.kunstwerk = dienst.kunstwerk /\ dienst'.sessie = dienst.sessie
      /\ \A t \in DOMAIN dienst.trajecten : t \in DOMAIN dienst'.trajecten /\ dienst'.trajecten[t] = dienst.trajecten[t]
      /\ \A t \in DOMAIN dienst'.trajecten :
           t \in DOMAIN dienst.trajecten \/ dienst'.trajecten[t].status = "Gepland"
  BY <1>1, <1>2, BezorgdNa
<1>5. dienst'.incidenten = dienst.incidenten /\ dienst'.aanbestedingen = dienst.aanbestedingen
  BY <1>1, <1>2, BezorgdKlopt
<1>6. \A q : Gedaan(q)' = Gedaan(q)
  BY <1>1, DraaiboekBlijft
<1>7. \A n, wat : NogNiets(n, wat)' <=> NogNiets(n, wat)
  BY <1>1, <1>6 DEF NogNiets
<1>8. \A wat \in {"registreer", "sessie", "gunning", "start", "oplossing"} :
        Ongevraagd(wat, dienst) => Ongevraagd(wat, dienst')
  BY <1>4, <1>5 DEF Ongevraagd
<1>9. NietVooruit'
  BY <1>3, <1>7, <1>8 DEF NietVooruit, Eenmalig
<1>10. \A q \in lopen' : Verricht(q)'
  BY <1>1, <1>3, <1>4, <1>5, <1>6 DEF Verricht
<1>11. Aangekomen(dienst')
  BY <1>1, <1>2, <1>3, BezorgdAangekomen
<1> QED BY <1>9, <1>10, <1>11

\* m is l with its answer.
Geantwoord(l, m) ==
  /\ l.fase = "heen" /\ m \in Lopend /\ m.fase = "terug"
  /\ m.stap = l.stap /\ m.pc = l.pc /\ m.eigen = l.eigen
  /\ lopen' = (lopen \ {l}) \cup {m}
  /\ UNCHANGED <<pagina, status, storingen, ingrepen>>
  /\ \/ /\ Lezen(l) /\ UNCHANGED dienst /\ m.klasse = "ok"
        /\ LET lijst == Rijen(dienst, Instructie(l).wat)
           IN  m.id \in lijst \/ (lijst = {} /\ m.id = Geen)
     \/ LET a == Uitvoering(dienst, Instructie(l).wat, l.eigen)
        IN  ~Lezen(l) /\ m.klasse = a.klasse /\ m.id = a.id /\ dienst' = a.na

LEMMA VoerAntwoordt == ASSUME RouteInv, NEW l \in lopen, Voer(l) PROVE \E m : Geantwoord(l, m)
<1>1. /\ l.fase = "heen" /\ UNCHANGED <<pagina, status, storingen, ingrepen>>
      /\ l \in Lopend /\ dienst \in Dienst
  BY DEF Voer, buitenDienst, RouteInv, RouteTypeInv
<1>2. ASSUME NEW k \in Klassen, NEW i \in Nat, Beantwoord(l, k, i)
      PROVE  \E m : /\ m \in Lopend /\ m.fase = "terug" /\ m.stap = l.stap /\ m.pc = l.pc /\ m.eigen = l.eigen
                    /\ m.klasse = k /\ m.id = i /\ lopen' = (lopen \ {l}) \cup {m}
  <2> DEFINE m == [l EXCEPT !.fase = "terug", !.klasse = k, !.id = i]
  <2>1. /\ m \in Lopend /\ m.fase = "terug" /\ m.stap = l.stap /\ m.pc = l.pc /\ m.eigen = l.eigen
        /\ m.klasse = k /\ m.id = i
    BY <1>1 DEF Lopend
  <2>2. lopen' = (lopen \ {l}) \cup {m}
    BY <1>2 DEF Beantwoord
  <2> HIDE DEF m
  <2> QED BY <2>1, <2>2
<1>3. CASE Lezen(l)
  <2> DEFINE lijst == Rijen(dienst, Instructie(l).wat)
  <2>1. PICK r \in IF lijst = {} THEN {Geen} ELSE lijst : Beantwoord(l, "ok", r)
    BY <1>3 DEF Voer
  <2>2. UNCHANGED dienst
    BY <1>3 DEF Voer
  <2>3. Instructie(l).wat \in Lijsten
    <3>1. pagina \in Paginas /\ l \in Lopend /\ l.pc \in DOMAIN Draaiboek[l.stap]
      BY DEF RouteInv, RouteTypeInv, Loopt
    <3> QED BY <1>3, <3>1, InstructiePast DEF PastBij, Lezen
  <2>4. r \in Nat /\ (r \in lijst \/ (lijst = {} /\ r = Geen)) /\ "ok" \in Klassen
    BY <1>1, <2>3, RijenKlopt DEF Geen, Klassen
  <2> HIDE DEF lijst
  <2>5. PICK m : /\ m \in Lopend /\ m.fase = "terug" /\ m.stap = l.stap /\ m.pc = l.pc /\ m.eigen = l.eigen
                 /\ m.klasse = "ok" /\ m.id = r /\ lopen' = (lopen \ {l}) \cup {m}
    BY <1>2, <2>1, <2>4
  <2> QED BY <1>1, <1>3, <2>2, <2>4, <2>5 DEF Geantwoord, lijst
<1>4. CASE ~Lezen(l)
  <2> DEFINE a == Uitvoering(dienst, Instructie(l).wat, l.eigen)
  <2>1. Beantwoord(l, a.klasse, a.id) /\ dienst' = a.na
    BY <1>4 DEF Voer
  <2>2. a.klasse \in Klassen /\ a.id \in Nat
    BY <1>4, UitvoeringGaat DEF GoedUitgevoerd, Behoudt, Klassen
  <2> HIDE DEF a
  <2>3. PICK m : /\ m \in Lopend /\ m.fase = "terug" /\ m.stap = l.stap /\ m.pc = l.pc /\ m.eigen = l.eigen
                 /\ m.klasse = a.klasse /\ m.id = a.id /\ lopen' = (lopen \ {l}) \cup {m}
    BY <1>2, <2>1, <2>2
  <2> QED BY <1>1, <1>4, <2>1, <2>3 DEF Geantwoord, a
<1> QED BY <1>3, <1>4

LEMMA VoerRust == ASSUME RouteInv, Rust, NEW l \in lopen, NEW m, Geantwoord(l, m) PROVE Rust'
<1> DEFINE wat == Instructie(l).wat
           a   == Uitvoering(dienst, wat, l.eigen)
<1>1. /\ l.fase = "heen" /\ m \in Lopend /\ m.fase = "terug"
      /\ m.stap = l.stap /\ m.pc = l.pc /\ m.eigen = l.eigen
      /\ lopen' = (lopen \ {l}) \cup {m}
      /\ UNCHANGED <<pagina, status, storingen, ingrepen>>
      /\ \/ Lezen(l) /\ UNCHANGED dienst
         \/ ~Lezen(l) /\ m.klasse = a.klasse /\ dienst' = a.na
  BY DEF Geantwoord
<1> SUFFICES ASSUME Rustig PROVE NietVooruit' /\ (\A q \in lopen' : Verricht(q)') /\ Aangekomen(dienst')
  BY <1>1 DEF Rust, Rustig
<1>2. /\ lopen = {l} /\ l \in Lopend /\ l.stap \in 1 .. 11 /\ status[l.stap] = "running"
      /\ \A n \in Stappen : n < l.stap => status[n] = "done" /\ Waar(n)
      /\ NietVooruit /\ Verricht(l) /\ Aangekomen(dienst)
  BY OpRoute
<1>3. /\ dienst \in Dienst /\ Verwijst(dienst) /\ pagina \in Paginas /\ l.eigen \in Nat
      /\ l.pc \in DOMAIN Draaiboek[l.stap] /\ lopen' = {m}
  BY <1>1, <1>2 DEF RouteInv, RouteTypeInv, Loopt, Lopend
<1>4. /\ Eerder(m) = Eerder(l) /\ Instructie(m) = Instructie(l) /\ Gedaan(l) = Eerder(l)
      /\ Eerder(l) \subseteq Gedaan(m) /\ Gedaan(m) \subseteq Eerder(l) \cup {wat}
      /\ Verder(m) => wat \in Gedaan(m)
      /\ wat \in Gedaan(m) => wat \in Eerder(l) \/ Verder(m)
  <2>1. Eerder(m) = Eerder(l) /\ Instructie(m) = Instructie(l)
    BY <1>1, <1>2, <1>3, EerderBlijft
  <2> QED BY <1>1, <2>1 DEF Gedaan
<1>5. \A q : Gedaan(q)' = Gedaan(q)
  BY <1>1, DraaiboekBlijft
<1>6. \A n, w : NogNiets(n, w)' => NogNiets(n, w)
  BY <1>1, <1>2, <1>3, <1>4, <1>5 DEF NogNiets
<1>7. PastBij(l.stap, l.pc, Len(Draaiboek[l.stap]), Instructie(l)) /\ l.stap \in Stappen
  BY <1>2, <1>3, InstructiePast
<1>10. /\ wat \in {"registreer", "sessie", "start", "oplossing"} => <<l.stap, wat>> \in Eenmalig
       /\ wat = "gunning" => l.stap = 11 \/ <<l.stap, wat>> \in Eenmalig
       /\ wat = "start" => Eerder(l) = {}
       /\ wat \in {"inspectie", "afronden"} => "start" \in Eerder(l) /\ "afronden" \notin Eerder(l)
       /\ wat = "afronden" => "inspectie" \in Eerder(l)
  BY <1>2, <1>3, EerderPlaats
<1>8. CASE Lezen(l)
  <2>1. UNCHANGED dienst /\ wat \notin {"inschrijving", "start", "inspectie"}
    BY <1>1, <1>7, <1>8 DEF PastBij, Lezen, Lijsten
  <2>2. Verricht(m)
    BY <1>1, <1>2, <1>4, <2>1 DEF Verricht
  <2>3. NietVooruit'
    BY <1>2, <1>6, <2>1 DEF NietVooruit
  <2> QED BY <1>2, <1>3, <1>5, <2>1, <2>2, <2>3 DEF Verricht
<1>9. CASE ~Lezen(l)
  <2>1. m.klasse = a.klasse /\ dienst' = a.na /\ wat \in Wensen
    BY <1>1, <1>7, <1>9 DEF PastBij, Lezen
  <2>2. m.klasse = "ok" => Verder(m)
    BY <1>4, <1>9 DEF Verder, Gezien, Lezen
  <2>7. Verder(m) => m.klasse = "ok" \/ wat = "registreer"
    BY <1>4, <1>7 DEF Verder, Gezien, PastBij
  <2>3. \A w : NogNiets(6, w)' => l.stap # 11
    <3>1. l.stap = 11 => status[6] = "done"
      BY <1>2 DEF Stappen
    <3> QED BY <1>1, <1>3, <3>1 DEF NogNiets
  <2>4. NietVooruit'
    <3> SUFFICES ASSUME NEW e \in Eenmalig, NogNiets(e[1], e[2])' PROVE Ongevraagd(e[2], dienst')
      BY DEF NietVooruit
    <3>1. Ongevraagd(e[2], dienst)
      BY <1>2, <1>6 DEF NietVooruit
    <3>2. wat # e[2] \/ a.klasse # "ok"
      <4> SUFFICES ASSUME wat = e[2], a.klasse = "ok" PROVE FALSE
        OBVIOUS
      <4>1. wat \in Gedaan(m)
        BY <1>4, <2>1, <2>2
      <4>2. l.stap = e[1]
        <5>1. /\ wat \in {"registreer", "sessie", "start", "oplossing"} => <<l.stap, wat>> \in Eenmalig
              /\ wat = "gunning" => l.stap = 11 \/ <<l.stap, wat>> \in Eenmalig
          BY <1>10
        <5>2. \A x, y \in Eenmalig : x[2] = y[2] => x[1] = y[1]
          BY DEF Eenmalig
        <5>3. \A x \in Eenmalig : x[2] = "gunning" => x[1] = 6
          BY DEF Eenmalig
        <5>4. e[2] \in {"registreer", "sessie", "gunning", "start", "oplossing"}
          BY DEF Eenmalig
        <5>5. wat = "gunning" => l.stap # 11
          BY <2>3, <5>3
        <5>6. <<l.stap, wat>> \in Eenmalig
          BY <5>1, <5>4, <5>5
        <5> QED BY <5>2, <5>6
      <4> QED BY <1>1, <1>2, <1>3, <1>5, <4>1, <4>2 DEF NogNiets
    <3>3. e[2] \in {"registreer", "sessie", "gunning", "start", "oplossing"}
      BY DEF Eenmalig
    <3> HIDE DEF wat, a
    <3>4. a = Uitvoering(dienst, wat, l.eigen)
      BY DEF a
    <3> QED BY <1>3, <2>1, <3>1, <3>2, <3>3, <3>4, UitvoeringOngevraagd
  <2>5. Aangekomen(dienst')
    <3>1. wat \in {"rapport", "afronden"} => l.stap \in {7, 9}
      BY <1>2, <1>3, DraaiboekPast DEF PlaatsBij, Instructie, Lopend
    <3>2. wat \in {"rapport", "afronden"} => dienst.kunstwerk
      BY <1>2, <3>1 DEF Waar, Stappen
    <3> QED BY <1>2, <1>3, <2>1, <3>2, UitvoeringAangekomen
  <2>6. Verricht(m)'
    <3>1. l.stap = 6 /\ "inschrijving" \in Gedaan(m) =>
            l.eigen \in DOMAIN dienst'.aanbestedingen /\ dienst'.aanbestedingen[l.eigen].inschrijving
      <4> SUFFICES ASSUME l.stap = 6, "inschrijving" \in Gedaan(m)
                   PROVE  l.eigen \in DOMAIN dienst'.aanbestedingen /\ dienst'.aanbestedingen[l.eigen].inschrijving
        OBVIOUS
      <4>1. \/ wat = "inschrijving" /\ a.klasse = "ok"
            \/ l.eigen \in DOMAIN dienst.aanbestedingen /\ dienst.aanbestedingen[l.eigen].inschrijving
        BY <1>2, <1>4, <2>1, <2>7 DEF Verricht
      <4>2. CASE wat \notin {"aanbesteding", "onbekende", "inschrijving", "gunning"}
        <5>1. dienst'.aanbestedingen = dienst.aanbestedingen
          BY <1>3, <2>1, <4>2, RijenBlijven
        <5> QED BY <4>1, <4>2, <5>1
      <4>3. CASE wat \in {"aanbesteding", "onbekende", "inschrijving", "gunning"}
        <5>1. /\ \A k \in DOMAIN a.na.aanbestedingen :
                   \/ k \notin DOMAIN dienst.aanbestedingen
                   \/ dienst.aanbestedingen[k].inschrijving => a.na.aanbestedingen[k].inschrijving
              /\ wat = "inschrijving" /\ a.klasse = "ok" =>
                   l.eigen \in DOMAIN a.na.aanbestedingen /\ a.na.aanbestedingen[l.eigen].inschrijving
          BY <1>3, <4>3, InkoopNa
        <5>2. \A k \in DOMAIN dienst.aanbestedingen : k \in DOMAIN dienst'.aanbestedingen
          BY <1>3, <2>1, UitvoeringKlopt, LaterBlijft DEF GoedUitgevoerd, Behoudt
        <5> HIDE DEF a, wat
        <5> QED BY <2>1, <4>1, <5>1, <5>2
      <4> QED BY <4>2, <4>3
    <3>2. l.stap = 9 /\ "start" \in Gedaan(m) =>
            /\ l.eigen \in DOMAIN dienst'.trajecten
            /\ "afronden" \notin Gedaan(m) => dienst'.trajecten[l.eigen].status = "Gestart"
            /\ "inspectie" \in Gedaan(m) => dienst'.trajecten[l.eigen].inspectie
      <4> SUFFICES ASSUME l.stap = 9, "start" \in Gedaan(m)
                   PROVE  /\ l.eigen \in DOMAIN dienst'.trajecten
                          /\ "afronden" \notin Gedaan(m) => dienst'.trajecten[l.eigen].status = "Gestart"
                          /\ "inspectie" \in Gedaan(m) => dienst'.trajecten[l.eigen].inspectie
        OBVIOUS
      <4>1. "start" \in Eerder(l) =>
              /\ l.eigen \in DOMAIN dienst.trajecten
              /\ "afronden" \notin Eerder(l) => dienst.trajecten[l.eigen].status = "Gestart"
              /\ "inspectie" \in Eerder(l) => dienst.trajecten[l.eigen].inspectie
        BY <1>2, <1>4 DEF Verricht
      <4>2. CASE wat \notin {"start", "inspectie", "afronden"}
        <5>1. dienst'.trajecten = dienst.trajecten
          BY <1>3, <2>1, <4>2, StandBlijft
        <5> HIDE DEF wat, a
        <5> QED BY <1>4, <4>1, <4>2, <5>1
      <4>3. CASE wat \in {"start", "inspectie", "afronden"} /\ a.klasse = "ok"
        <5>1. /\ l.eigen \in DOMAIN dienst.trajecten /\ DOMAIN dienst'.trajecten = DOMAIN dienst.trajecten
              /\ dienst'.trajecten[l.eigen].status = IF wat = "afronden" THEN "Afgerond" ELSE "Gestart"
              /\ dienst'.trajecten[l.eigen].inspectie <=> dienst.trajecten[l.eigen].inspectie \/ wat = "inspectie"
          BY <1>3, <2>1, <4>3, TrajectenNa
        <5>2. wat \in Gedaan(m)
          BY <1>4, <2>1, <2>2, <4>3
        <5> HIDE DEF wat, a
        <5> QED BY <1>4, <1>10, <4>1, <4>3, <5>1, <5>2
      <4>4. CASE wat \in {"start", "inspectie", "afronden"} /\ a.klasse # "ok"
        <5>1. dienst' = dienst
          BY <2>1, <4>4, WeigeringDoetNiets
        <5>2. ~Verder(m)
          BY <2>1, <2>7, <4>4
        <5> HIDE DEF wat, a
        <5> QED BY <1>4, <4>1, <5>1, <5>2
      <4> QED BY <4>2, <4>3, <4>4
    <3> QED BY <1>1, <1>5, <3>1, <3>2 DEF Verricht
  <2> QED BY <1>3, <2>4, <2>5, <2>6
<1> QED BY <1>8, <1>9

-----------------------------------------------------------------------------
(* Demoroute: every step keeps Rust.                                       *)

LEMMA RustBegin == RouteInit => Rust
<1> SUFFICES ASSUME RouteInit PROVE NietVooruit /\ (\A l \in lopen : Verricht(l)) /\ Aangekomen(dienst)
  BY DEF Rust
<1>1. dienst = LegeDiensten /\ lopen = {}
  BY DEF RouteInit
<1>2. NietVooruit
  <2>1. \A wat \in {"registreer", "sessie", "gunning", "start", "oplossing"} : Ongevraagd(wat, dienst)
    <3>1. /\ ~dienst.kunstwerk /\ ~dienst.sessie /\ DOMAIN dienst.aanbestedingen = {}
          /\ DOMAIN dienst.trajecten = {} /\ DOMAIN dienst.incidenten = {}
      BY <1>1 DEF LegeDiensten
    <3> QED BY <3>1 DEF Ongevraagd
  <2>2. \A e \in Eenmalig : e[2] \in {"registreer", "sessie", "gunning", "start", "oplossing"}
    BY DEF Eenmalig
  <2> QED BY <2>1, <2>2 DEF NietVooruit
<1>3. Aangekomen(dienst)
  BY <1>1 DEF Aangekomen, LegeDiensten
<1> QED BY <1>1, <1>2, <1>3

LEMMA RustStap == RouteInv /\ Rust /\ [RouteNext]_routeVars => Rust'
<1> SUFFICES ASSUME RouteInv, Rust, [RouteNext]_routeVars PROVE Rust'
  OBVIOUS
<1>1. CASE UNCHANGED routeVars
  <2>1. UNCHANGED <<pagina, dienst, status, lopen, storingen, ingrepen>>
    BY <1>1 DEF routeVars
  <2>2. \A q : Gedaan(q)' = Gedaan(q)
    BY <2>1, DraaiboekBlijft
  <2>3. \A e \in Eenmalig : NogNiets(e[1], e[2])' => NogNiets(e[1], e[2])
    BY <2>1, <2>2 DEF NogNiets
  <2>4. (Rustig' => Rustig) /\ (Rustig' => \A q \in lopen' : Verricht(q))
    BY <2>1 DEF Rustig, Rust
  <2> QED BY <2>1, <2>3, <2>4, StilRust
<1>2. ASSUME NEW l \in lopen, VolgendeVraag(l) \/ NogEens(l) PROVE Rust'
  BY <1>2, VolgendeVraagStuurt, NogEensStuurt, StuurtRust
<1>3. ASSUME NEW l \in lopen, StapKlaar(l) \/ StapMislukt(l) PROVE Rust'
  <2>1. PICK uitkomst \in {"done", "error"} : Einde(l, uitkomst)
    BY <1>3 DEF StapKlaar, StapMislukt
  <2>2. UNCHANGED buitenBlad
    BY <1>3 DEF StapKlaar, StapMislukt, buitenBlad
  <2> QED BY <2>1, <2>2, EindeRust
<1>4. ASSUME NEW l \in lopen, Voer(l) PROVE Rust'
  BY <1>4, VoerAntwoordt, VoerRust
<1> QED
  BY <1>1, <1>2, <1>3, <1>4, KlikRust, StartAllesRust, OnrustRust, BezorgRust DEF RouteNext

-----------------------------------------------------------------------------
(* Demoroute: what is refused, or shows no row, is asked too early.        *)

\* Why a service refuses.
LEMMA WaaromGeweigerd ==
  ASSUME NEW d, NEW wat \in Wensen, NEW id, Uitvoering(d, wat, id).klasse # "ok"
  PROVE  /\ wat \notin {"rapport", "aanbesteding", "onbekende"}
         /\ wat = "registreer" => d.kunstwerk
         /\ wat \in {"onderhoudseisen", "ontwerpeisen"} => ~d.kunstwerk
         /\ wat = "sessie" => ~Bewaakt(d) \/ d.sessie
         /\ wat \in {"metingLaag", "metingHoog"} => ~Bewaakt(d) \/ ~d.sessie
         /\ wat = "oplossing" => ~(id \in DOMAIN d.incidenten /\ d.incidenten[id] = "Open")
         /\ wat = "inschrijving" => ~(id \in DOMAIN d.aanbestedingen /\ ~d.aanbestedingen[id].gegund)
         /\ wat = "gunning" => ~Gunbaar(d, id)
         /\ wat = "verklaring" => ~(id \in DOMAIN d.aanbestedingen /\ d.aanbestedingen[id].gegund /\ d.kpi)
         /\ wat = "start" => ~(Heeft(d, id, "Gepland") /\ (Streng => d.geldend))
         /\ wat = "inspectie" => ~Heeft(d, id, "Gestart")
         /\ wat = "afronden" => ~(Heeft(d, id, "Gestart") /\ d.trajecten[id].inspectie)
<1> USE DEF Antwoord, Gelukt, Weigering
<1>1. CASE wat \in {"rapport", "aanbesteding", "onbekende"}
  BY <1>1 DEF Uitvoering, StelRapportOp, Publiceer
<1>2. CASE wat \in {"registreer", "onderhoudseisen", "ontwerpeisen"}
  BY <1>2 DEF Uitvoering, Registreer, StelEisenVast
<1>3. CASE wat \in {"sessie", "metingLaag", "metingHoog", "oplossing"}
  BY <1>3 DEF Uitvoering, StartSessie, Meet, LosOp
<1>4. CASE wat \in {"inschrijving", "gunning", "verklaring"}
  BY <1>4 DEF Uitvoering, SchrijfIn, Gun, VerklaarPrestatie
<1>5. CASE wat \in {"start", "inspectie", "afronden"}
  BY <1>5 DEF Uitvoering, Start, Inspecteer, RondAf
<1> QED BY <1>1, <1>2, <1>3, <1>4, <1>5 DEF Wensen

\* What an empty list says.
LEMMA LegeLijst ==
  ASSUME NEW d \in Dienst, NEW lijst \in Lijsten, Rijen(d, lijst) = {}
  PROVE  /\ lijst = "kunstwerken" => ~d.kunstwerk
         /\ lijst = "eisen" => d.eisen # {"onderhoud", "ontwerp"}
         /\ lijst = "sessies" => ~d.sessie
         /\ lijst = "incidenten" => d.incidenten = <<>>
         /\ lijst = "trajecten" => d.trajecten = <<>>
         /\ lijst = "netwerkrapportages" => "rapport" \notin d.beoordelingen
         /\ lijst = "onderhoudsrapporten" => "afgerond" \notin d.beoordelingen
<1>1. d.incidenten \in Seq(Incidentstand) /\ d.trajecten \in Seq(Traject)
  BY DEF Dienst
<1>2. CASE lijst = "incidenten"
  <2>1. DOMAIN d.incidenten = {}
    BY <1>2 DEF Rijen
  <2>2. DOMAIN d.incidenten = 1 .. Len(d.incidenten) /\ Len(d.incidenten) \in Nat
    BY <1>1
  <2>3. 1 \notin 1 .. Len(d.incidenten)
    BY <2>1, <2>2
  <2>4. Len(d.incidenten) = 0
    BY <2>2, <2>3
  <2> QED BY <1>1, <1>2, <2>4
<1>3. CASE lijst = "trajecten"
  <2>1. DOMAIN d.trajecten = {}
    BY <1>3 DEF Rijen
  <2>2. DOMAIN d.trajecten = 1 .. Len(d.trajecten) /\ Len(d.trajecten) \in Nat
    BY <1>1
  <2>3. 1 \notin 1 .. Len(d.trajecten)
    BY <2>1, <2>2
  <2>4. Len(d.trajecten) = 0
    BY <2>2, <2>3
  <2> QED BY <1>1, <1>3, <2>4
<1>4. CASE lijst \notin {"incidenten", "trajecten"}
  <2>1. /\ lijst = "kunstwerken" => ~d.kunstwerk
        /\ lijst = "eisen" => d.eisen # {"onderhoud", "ontwerp"}
        /\ lijst = "sessies" => ~d.sessie
    BY <1>4 DEF Rijen
  <2>2. /\ lijst = "netwerkrapportages" => "rapport" \notin d.beoordelingen
        /\ lijst = "onderhoudsrapporten" => "afgerond" \notin d.beoordelingen
    BY <1>4 DEF Rijen
  <2> QED BY <1>4, <2>1, <2>2
<1> QED BY <1>2, <1>3, <1>4

-----------------------------------------------------------------------------
(* Demoroute: FoutIsTeVroeg. *)

LEMMA VerwachtIsOnderweg ==
  /\ Verwacht(dienst, "kunstwerk", "monitoring") => Onderweg(3)
  /\ Verwacht(dienst, "incident", "onderhoud") => Onderweg(5)
  /\ Verwacht(dienst, "kunstwerk", "contract") => Onderweg(6)
  /\ Verwacht(dienst, "rapport", "beheer") => Onderweg(7)
  /\ Verwacht(dienst, "rapport", "contract") => Onderweg(8)
  /\ Verwacht(dienst, "gegund", "onderhoud") \/ Verwacht(dienst, "afgerond", "beheer") => Onderweg(9)
BY DEF Verwacht, Onderweg, VanEvent

\* A service refuses a step its request only while the event that it lacks is under way.
LEMMA WeigeringIsTeVroeg ==
  ASSUME RouteInv, Rust, Rustig, NEW l \in lopen, l.fase = "heen", NEW wat, wat = Instructie(l).wat,
         wat \in Wensen, Uitvoering(dienst, wat, l.eigen).klasse # "ok"
  PROVE  l.stap = 11 \/ Onderweg(l.stap)
<1>1. /\ l \in Lopend /\ l.stap \in 1 .. 11 /\ lopen = {l} /\ status[l.stap] = "running"
      /\ \A n \in Stappen : n < l.stap => status[n] = "done" /\ Waar(n)
      /\ NietVooruit /\ Verricht(l) /\ Aangekomen(dienst)
      /\ MetDitBoek(l) /\ DOMAIN refs = {1}
  BY OpRoute
<1>2. /\ dienst \in Dienst /\ pagina \in Paginas /\ l.pc \in DOMAIN Draaiboek[l.stap] /\ l.stap \in Stappen
      /\ RefsKloppen /\ VanDezeRoute /\ Bewezen(l)
  BY <1>1 DEF RouteInv, RouteTypeInv, Loopt, Lopend, Ongestoord, StappenKloppen
<1>3. PastBij(l.stap, l.pc, Len(Draaiboek[l.stap]), Instructie(l)) /\ PlaatsBij(l.stap, l.pc, Instructie(l))
  BY <1>2, DraaiboekPast DEF Instructie
<1>4. Gedaan(l) = Eerder(l) /\ \A w \in Eerder(l) : Bereikt(l, w)
  BY <1>2 DEF Gedaan, Bewezen
<1>5. /\ <<l.stap, wat>> \in Eenmalig => wat \notin Eerder(l)
      /\ wat \in {"registreer", "sessie", "start", "oplossing"} => <<l.stap, wat>> \in Eenmalig
      /\ wat = "gunning" => l.stap = 11 \/ (<<l.stap, wat>> \in Eenmalig /\ "inschrijving" \in Eerder(l))
      /\ wat \in {"inschrijving", "gunning"} /\ l.stap = 6 => "aanbesteding" \in Eerder(l)
      /\ wat = "inschrijving" => l.stap = 11 \/ (l.stap = 6 /\ "gunning" \notin Eerder(l))
      /\ wat \in {"inspectie", "afronden"} => "start" \in Eerder(l) /\ "afronden" \notin Eerder(l)
      /\ wat = "afronden" => "inspectie" \in Eerder(l)
  BY <1>1, <1>2, EerderPlaats
<1>6. ASSUME NEW e \in Eenmalig, e[1] = l.stap, e[2] \notin Eerder(l) PROVE Ongevraagd(e[2], dienst)
  BY <1>1, <1>4, <1>6 DEF NietVooruit, NogNiets
<1>7. ASSUME NEW w, <<l.stap, w>> \in Eenmalig, w \notin Eerder(l) PROVE Ongevraagd(w, dienst)
  BY <1>6, <1>7
<1>8. /\ l.stap > 1 => dienst.kunstwerk
      /\ l.stap > 3 => dienst.sessie /\ Bewaakt(dienst)
      /\ l.stap > 6 => \E a \in DOMAIN dienst.aanbestedingen :
                         dienst.aanbestedingen[a].demo /\ dienst.aanbestedingen[a].gegund
      /\ l.stap > 7 => dienst.rapport
  BY <1>1 DEF Waar, Stappen, Aangekomen
<1>9. /\ l.stap = 8 => /\ l.eigen \in DOMAIN dienst.aanbestedingen
                       /\ dienst.aanbestedingen[l.eigen].gegund
      /\ l.stap = 9 => l.eigen \in DOMAIN dienst.trajecten
      /\ l.stap = 10 => l.eigen \in DOMAIN dienst.incidenten
  <2>1. /\ l.stap = 8 => refs[1].contract # Geen /\ l.eigen = refs[1].contract
        /\ l.stap = 9 => refs[1].onderhoud # Geen /\ l.eigen = refs[1].onderhoud
        /\ l.stap = 10 => refs[1].incident # Geen /\ l.eigen = refs[1].incident
    BY <1>1, <1>2 DEF VanDezeRoute, MetDitBoek, Nodig, Stappen
  <2> QED BY <1>1, <1>2, <2>1 DEF RefsKloppen
<1>10. "aanbesteding" \in Eerder(l) => /\ l.eigen \in DOMAIN dienst.aanbestedingen
                                       /\ dienst.aanbestedingen[l.eigen].demo
  <2>1. "aanbesteding" \in Eerder(l) => Instructie(l).ref # "eigen"
    BY <1>1, <1>2, EerderPast
  <2> QED BY <1>4, <2>1 DEF Bereikt, Eigen
<1>11. CASE wat \in {"registreer", "oplossing", "sessie"}
  <2>1. Ongevraagd(wat, dienst)
    BY <1>5, <1>7, <1>11
  <2>2. CASE wat = "registreer"
    BY <2>1, <2>2, WaaromGeweigerd DEF Ongevraagd
  <2>3. CASE wat = "oplossing"
    <3>1. l.stap = 10
      BY <1>3, <2>3 DEF PastBij
    <3> QED BY <1>9, <2>1, <2>3, <3>1, WaaromGeweigerd DEF Ongevraagd
  <2>4. CASE wat = "sessie"
    <3>1. l.stap = 3
      BY <1>3, <2>4 DEF PlaatsBij
    <3>2. ~dienst.sessie
      BY <2>1, <2>4 DEF Ongevraagd
    <3>3. "monitoring" \notin dienst.kent
      BY <2>4, <3>2, WaaromGeweigerd DEF Bewaakt
    <3>4. Verwacht(dienst, "kunstwerk", "monitoring")
      BY <1>1, <1>8, <3>1, <3>3 DEF Aangekomen
    <3> QED BY <3>1, <3>4, VerwachtIsOnderweg
  <2> QED BY <1>11, <2>2, <2>3, <2>4
<1>12. CASE wat \in {"onderhoudseisen", "ontwerpeisen", "metingLaag", "metingHoog"}
  <2>1. wat \in {"onderhoudseisen", "ontwerpeisen"} => l.stap = 2
    BY <1>3 DEF PlaatsBij
  <2>2. wat \in {"metingLaag", "metingHoog"} => l.stap = 4
    BY <1>3 DEF PlaatsBij, PastBij
  <2> QED BY <1>8, <1>12, <2>1, <2>2, WaaromGeweigerd
<1>13. CASE wat = "inschrijving"
  <2> SUFFICES ASSUME l.stap = 6 PROVE FALSE
    BY <1>5, <1>13
  <2>1. Ongevraagd("gunning", dienst)
    BY <1>5, <1>7, <1>13 DEF Eenmalig
  <2> QED BY <1>5, <1>10, <1>13, <2>1, WaaromGeweigerd DEF Ongevraagd
<1>14. CASE wat = "gunning"
  <2> SUFFICES ASSUME l.stap = 6 PROVE Onderweg(l.stap)
    BY <1>3, <1>14 DEF PastBij
  <2>1. Ongevraagd("gunning", dienst)
    BY <1>5, <1>7, <1>14
  <2>2. dienst.aanbestedingen[l.eigen].inschrijving
    BY <1>1, <1>4, <1>5, <1>14 DEF Verricht
  <2>3. l.eigen \in DOMAIN dienst.aanbestedingen /\ dienst.aanbestedingen[l.eigen].demo
    BY <1>5, <1>10, <1>14
  <2>4. ~Gunbaar(dienst, l.eigen)
    BY <1>14, WaaromGeweigerd
  <2>5. "contract" \notin dienst.kent
    BY <2>1, <2>2, <2>3, <2>4 DEF Gunbaar, Bekend, Ongevraagd
  <2>6. Verwacht(dienst, "kunstwerk", "contract")
    BY <1>1, <1>8, <2>5 DEF Aangekomen
  <2> QED BY <2>6, VerwachtIsOnderweg
<1>15. CASE wat = "verklaring"
  <2>1. l.stap = 8
    BY <1>3, <1>15 DEF PastBij
  <2>2. ~dienst.kpi
    BY <1>9, <1>15, <2>1, WaaromGeweigerd
  <2>3. Verwacht(dienst, "rapport", "contract")
    BY <1>1, <1>8, <2>1, <2>2 DEF Aangekomen
  <2> QED BY <2>1, <2>3, VerwachtIsOnderweg
<1>16. CASE wat = "start"
  <2>1. l.stap = 9
    BY <1>3, <1>16 DEF PastBij
  <2>2. Ongevraagd("start", dienst)
    BY <1>5, <1>7, <1>16
  <2>3. Heeft(dienst, l.eigen, "Gepland")
    BY <1>9, <2>1, <2>2 DEF Ongevraagd, Heeft
  <2>4. ~dienst.geldend
    BY <1>16, <2>3, WaaromGeweigerd
  <2>5. Verwacht(dienst, "gegund", "onderhoud")
    BY <1>1, <1>8, <2>1, <2>4 DEF Aangekomen
  <2> QED BY <2>1, <2>5, VerwachtIsOnderweg
<1>17. CASE wat \in {"inspectie", "afronden"}
  <2>1. l.stap = 9
    BY <1>3, <1>17 DEF PastBij
  <2>2. /\ l.eigen \in DOMAIN dienst.trajecten /\ dienst.trajecten[l.eigen].status = "Gestart"
        /\ wat = "afronden" => dienst.trajecten[l.eigen].inspectie
    BY <1>1, <1>4, <1>5, <1>17, <2>1 DEF Verricht
  <2> QED BY <1>17, <2>2, WaaromGeweigerd DEF Heeft
<1>18. ASSUME wat \in {"rapport", "aanbesteding", "onbekende"} PROVE FALSE
  BY <1>18 DEF Uitvoering, StelRapportOp, Publiceer, Antwoord, Gelukt
<1>19. \/ wat \in {"registreer", "oplossing", "sessie"}
       \/ wat \in {"onderhoudseisen", "ontwerpeisen", "metingLaag", "metingHoog"}
       \/ wat \in {"inspectie", "afronden"} \/ wat = "inschrijving" \/ wat = "gunning"
       \/ wat = "verklaring" \/ wat = "start"
  BY <1>18 DEF Wensen
<1> QED BY <1>11, <1>12, <1>13, <1>14, <1>15, <1>16, <1>17, <1>19, Zenon

\* A step that waits for a row finds none only while the event that brings it is under way.
LEMMA GeenRijIsTeVroeg ==
  ASSUME RouteInv, Rust, Rustig, NEW l \in lopen, l.fase = "heen", NEW lijst, lijst = Instructie(l).wat,
         lijst \in Lijsten, Rijen(dienst, lijst) = {}
  PROVE  Onderweg(l.stap)
<1>1. /\ l \in Lopend /\ l.stap \in 1 .. 11
      /\ \A n \in Stappen : n < l.stap => status[n] = "done" /\ Waar(n)
      /\ Aangekomen(dienst)
  BY OpRoute
<1>2. /\ dienst \in Dienst /\ pagina \in Paginas /\ l.pc \in DOMAIN Draaiboek[l.stap] /\ l.stap \in Stappen
      /\ Bewezen(l)
  BY <1>1 DEF RouteInv, RouteTypeInv, Loopt, Lopend, StappenKloppen
<1>3. PastBij(l.stap, l.pc, Len(Draaiboek[l.stap]), Instructie(l)) /\ PlaatsBij(l.stap, l.pc, Instructie(l))
  BY <1>2, DraaiboekPast DEF Instructie
<1>4. \A w \in Eerder(l) : Bereikt(l, w)
  BY <1>2 DEF Gedaan, Bewezen
<1>5. /\ lijst = "kunstwerken" => "registreer" \in Eerder(l)
      /\ lijst = "eisen" => {"onderhoudseisen", "ontwerpeisen"} \subseteq Eerder(l)
      /\ lijst = "sessies" => "sessie" \in Eerder(l)
      /\ lijst = "incidenten" => "metingHoog" \in Eerder(l)
      /\ lijst = "netwerkrapportages" => "rapport" \in Eerder(l)
      /\ lijst = "onderhoudsrapporten" => "afronden" \in Eerder(l)
  BY <1>1, <1>2, EerderPlaats
<1>6. CASE lijst \in {"kunstwerken", "eisen", "sessies", "incidenten"}
  <2>1. dienst.eisen \subseteq {"onderhoud", "ontwerp"}
    BY <1>2 DEF Dienst
  <2>2. /\ lijst = "kunstwerken" => dienst.kunstwerk
        /\ lijst = "eisen" => dienst.eisen = {"onderhoud", "ontwerp"}
        /\ lijst = "sessies" => dienst.sessie
        /\ lijst = "incidenten" => dienst.incidenten # <<>>
    BY <1>4, <1>5, <2>1 DEF Bereikt
  <2> QED BY <1>2, <1>6, <2>2, LegeLijst
<1>7. CASE lijst = "trajecten"
  <2>1. l.stap = 5
    BY <1>3, <1>7 DEF PastBij
  <2>2. dienst.incidenten # <<>>
    BY <1>1, <2>1 DEF Waar, Stappen
  <2>3. Verwacht(dienst, "incident", "onderhoud")
    BY <1>1, <1>2, <1>7, <2>2, LegeLijst DEF Aangekomen
  <2> QED BY <2>1, <2>3, VerwachtIsOnderweg
<1>8. CASE lijst = "netwerkrapportages"
  <2>1. l.stap = 7
    BY <1>3, <1>8 DEF PlaatsBij
  <2>2. dienst.rapport
    BY <1>4, <1>5, <1>8 DEF Bereikt
  <2>3. Verwacht(dienst, "rapport", "beheer")
    BY <1>1, <1>2, <1>8, <2>2, LegeLijst DEF Aangekomen
  <2> QED BY <2>1, <2>3, VerwachtIsOnderweg
<1>9. CASE lijst = "onderhoudsrapporten"
  <2>1. l.stap = 9
    BY <1>3, <1>9 DEF PlaatsBij
  <2>2. Afgerond(l.eigen)
    BY <1>4, <1>5, <1>9 DEF Bereikt
  <2>3. Verwacht(dienst, "afgerond", "beheer")
    BY <1>1, <1>2, <1>9, <2>2, LegeLijst DEF Aangekomen, Afgerond
  <2> QED BY <2>1, <2>3, VerwachtIsOnderweg
<1> QED BY <1>6, <1>7, <1>8, <1>9 DEF Lijsten

-----------------------------------------------------------------------------

Gegrond(q) == q.fase = "terug" => Verder(q) \/ Geweigerd(q) \/ Onderweg(q.stap)

LEMMA AntwoordIsGegrond ==
  ASSUME RouteInv, Rust, Rustig, NEW l \in lopen, NEW m, Geantwoord(l, m)
  PROVE  Gegrond(m)
<1>1. /\ l.fase = "heen" /\ m \in Lopend /\ m.stap = l.stap /\ m.pc = l.pc /\ m.eigen = l.eigen
      /\ dienst \in Dienst /\ pagina \in Paginas /\ l \in Lopend /\ l.pc \in DOMAIN Draaiboek[l.stap]
  BY DEF Geantwoord, RouteInv, RouteTypeInv, Loopt
<1>2. Instructie(m) = Instructie(l) /\ PastBij(l.stap, l.pc, Len(Draaiboek[l.stap]), Instructie(l))
  BY <1>1, EerderBlijft, InstructiePast
<1>3. CASE Lezen(l)
  <2>1. Instructie(l).wat \in Lijsten
    BY <1>2, <1>3 DEF PastBij, Lezen
  <2>2. m.klasse = "ok" /\ \/ m.id \in Rijen(dienst, Instructie(l).wat)
                           \/ Rijen(dienst, Instructie(l).wat) = {}
    BY <1>3 DEF Geantwoord
  <2>3. Rijen(dienst, Instructie(l).wat) \subseteq Nat \ {Geen}
    BY <1>1, <2>1, RijenKlopt
  <2>4. CASE m.id # Geen
    BY <2>2, <2>4 DEF Gegrond, Verder, Gezien
  <2>5. CASE m.id = Geen
    BY <1>1, <2>1, <2>2, <2>3, <2>5, GeenRijIsTeVroeg DEF Gegrond
  <2> QED BY <2>4, <2>5
<1>4. CASE ~Lezen(l)
  <2> DEFINE a == Uitvoering(dienst, Instructie(l).wat, l.eigen)
  <2>1. m.klasse = a.klasse /\ Instructie(l).wat \in Wensen
    BY <1>2, <1>4 DEF Geantwoord, PastBij, Lezen
  <2>2. CASE a.klasse = "ok"
    BY <1>2, <1>4, <2>1, <2>2 DEF Gegrond, Verder, Gezien, Lezen
  <2>3. CASE a.klasse # "ok"
    <3>1. l.stap = 11 \/ Onderweg(l.stap)
      BY <1>1, <2>1, <2>3, WeigeringIsTeVroeg
    <3>2. a.klasse \in {"4xx", "conflict"}
      BY <1>4, <2>3, UitvoeringGaat DEF GoedUitgevoerd, Behoudt
    <3>3. l.stap = 11 => Instructie(l).bij = "weiger"
      BY <1>2 DEF PastBij
    <3> QED BY <1>1, <1>2, <2>1, <3>1, <3>2, <3>3 DEF Gegrond, Geweigerd
  <2> QED BY <2>2, <2>3
<1> QED BY <1>3, <1>4

\* On an undisturbed route a step that needs an id has it when it begins.
LEMMA BeginIsGegrond ==
  ASSUME RouteInv, Rustig, NEW n \in Stappen, n > 1 => status[n - 1] = "done", NEW g \in DOMAIN refs
  PROVE  Lege(n, g).fase = "heen"
<1>1. OpVolgorde /\ VanDezeRoute /\ RouteTypeInv
  BY DEF RouteInv, Ongestoord
<1>2. DOMAIN refs = {1}
  BY <1>1 DEF OpVolgorde, RouteTypeInv
<1>3. g = 1
  BY <1>2
<1>4. n \in 1 .. 11
  BY DEF Stappen
<1>5. \A k \in Stappen : k < n => status[k] = "done"
  BY <1>1, <1>4 DEF OpVolgorde, Stappen
<1>6. n \in {8, 9, 10} => refs[1][Nodig(n)] # Geen
  BY <1>1, <1>5 DEF VanDezeRoute, Nodig, Stappen
<1> QED BY <1>1, <1>3, <1>6, LegeKlopt

LEMMA FoutStap ==
  ASSUME RouteInv, Rust, [RouteNext]_routeVars, Rustig', NEW q \in lopen' \ lopen
  PROVE  Gegrond(q)
<1>1. RouteTypeInv /\ Heden \in DOMAIN refs /\ 1 \in Stappen
  BY DEF RouteInv, RouteTypeInv, Heden, Stappen
<1>2. CASE UNCHANGED routeVars \/ \E b \in dienst.bus : Bezorg(b)
  BY <1>2 DEF routeVars, Bezorg
<1>3. ASSUME NEW n \in Stappen, Klik(n) PROVE Gegrond(q)
  <2>1. OpDeRoute(n) /\ Rustig
    BY <1>1, <1>3 DEF Klik, Ingreep, Rustig, RouteTypeInv
  <2>2. q = Lege(n, Heden)
    BY <1>3 DEF Klik
  <2> QED BY <1>1, <2>1, <2>2, BeginIsGegrond DEF OpDeRoute, Gegrond
<1>4. CASE StartAlles
  <2>1. Rustig
    BY <1>1, <1>4 DEF StartAlles, Ingreep, Rustig, RouteTypeInv
  <2>2. q = [Lege(1, Heden) EXCEPT !.gen = Len(refs')]
    BY <1>4 DEF StartAlles
  <2>3. Lege(1, Heden).fase = "heen" /\ Lege(1, Heden) \in Lopend
    BY <1>1, <2>1, LegeKlopt
  <2>4. q.fase = "heen"
    BY <2>2, <2>3 DEF Lopend
  <2> QED BY <2>4 DEF Gegrond
<1>5. CASE Reset \/ Herlaad \/ \E l \in lopen : Verlies(l)
  BY <1>5, OnrustRust
<1>6. ASSUME NEW l \in lopen, Voer(l) PROVE Gegrond(q)
  <2>1. PICK m : Geantwoord(l, m)
    BY <1>6, VoerAntwoordt
  <2>2. q = m /\ Rustig
    BY <2>1 DEF Geantwoord, Rustig
  <2> QED BY <2>1, <2>2, AntwoordIsGegrond
<1>7. ASSUME NEW l \in lopen, VolgendeVraag(l) \/ NogEens(l) PROVE Gegrond(q)
  <2>1. PICK m : Stuurt(l, m)
    BY <1>7, VolgendeVraagStuurt, NogEensStuurt
  <2> QED BY <2>1 DEF Stuurt, Gegrond
<1>8. ASSUME NEW l \in lopen, StapKlaar(l) \/ StapMislukt(l) PROVE Gegrond(q)
  <2> DEFINE n == l.stap
             af == Lege(n + 1, l.gen)
  <2>1. /\ UNCHANGED buitenBlad
        /\ \E uitkomst \in {"done", "error"} : Einde(l, uitkomst)
    BY <1>8 DEF StapKlaar, StapMislukt, buitenBlad
  <2>2. Rustig
    BY <2>1 DEF buitenBlad, Rustig
  <2>3. /\ q = [af EXCEPT !.gen = l.gen] /\ n < 11 /\ StapKlaar(l)
    BY <1>8, <2>1 DEF Einde, StapKlaar, StapMislukt
  <2>4. /\ l \in Lopend /\ l.stap \in 1 .. 11 /\ l.gen \in DOMAIN refs
        /\ \A k \in Stappen : k < l.stap => status[k] = "done"
        /\ VanDezeRoute /\ DOMAIN refs = {1}
    BY <2>2, OpRoute DEF RouteInv, RouteTypeInv, Loopt, Ongestoord
  <2>5. n + 1 \in Stappen
    BY <2>3, <2>4 DEF Stappen
  <2>6. n + 1 \in {8, 9, 10} => refs[l.gen][Nodig(n + 1)] # Geen
    BY <2>3, <2>4 DEF VanDezeRoute, Nodig, Stappen
  <2>7. af \in Lopend /\ af.fase = "heen"
    BY <1>1, <2>4, <2>5, <2>6, LegeKlopt
  <2> HIDE DEF af
  <2>8. q.fase = "heen"
    BY <2>3, <2>7 DEF Lopend
  <2> QED BY <2>8 DEF Gegrond
<1> QED BY <1>2, <1>3, <1>4, <1>5, <1>6, <1>7, <1>8 DEF RouteNext

-----------------------------------------------------------------------------
(* Together: a step of Frontends is one of a part, or none for that part. *)

FrontendsInv == deel \in Delen /\ RouteInv /\ Rust /\ VerversInv /\ PortaalInv /\ PaginaInv

LEMMA FrontendsAltijd == Spec => []FrontendsInv
<1>1. Init => FrontendsInv
  BY RouteBegin, RustBegin, VerversBegin, PortaalBegin, PaginaBegin DEF Init, FrontendsInv
<1>2. FrontendsInv /\ [Next]_allVars => FrontendsInv'
  <2> SUFFICES ASSUME FrontendsInv, [Next]_allVars PROVE FrontendsInv'
    OBVIOUS
  <2>1. /\ [RouteNext]_routeVars /\ [VerversNext]_verversVars
        /\ [PortaalNext]_portaalVars /\ [PaginaNext]_paginaVars /\ UNCHANGED deel
    BY DEF Next, allVars
  <2> QED BY <2>1, RouteStap, RustStap, VerversStap, PortaalStap, PaginaStap DEF FrontendsInv
<1> QED
  BY <1>1, <1>2, PTL DEF Spec

\* Every variable of the demo route, the services it drives, the lists, the portal's session
\* and its pages keeps its type; in particular a running step always has a request to make.
THEOREM TypeCorrect == Spec => []TypeOK
<1>1. FrontendsInv => TypeOK
  <2>1. RouteInv => RouteTypeOK
    BY RouteGevolg
  <2> QED BY <2>1 DEF FrontendsInv, VerversInv, PortaalInv, PaginaInv, TypeOK
<1> QED
  BY <1>1, FrontendsAltijd, PTL

\* For any number of disturbances and retries, whichever requests fail and in whatever order
\* the events arrive: a step the page shows as done has happened in the services, the ids it
\* shows are theirs, and on an undisturbed route they are those of the step itself.
THEOREM SchermSpreektWaarheid == Spec => []SchermKlopt
<1>1. FrontendsInv => SchermKlopt
  BY RouteGevolg DEF FrontendsInv
<1> QED
  BY <1>1, FrontendsAltijd, PTL

\* On an undisturbed route, in whatever order the events arrive and the services list their
\* rows, a step is refused or finds no row only while the event it lacks is still under way:
\* what the services hold never leaves the route stuck.
THEOREM RouteLooptNietVast == Spec => FoutIsTeVroeg
<1>1. FrontendsInv /\ [Next]_allVars =>
        [Rustig' => \A l \in lopen' \ lopen :
           l.fase = "terug" => Verder(l) \/ Geweigerd(l) \/ Onderweg(l.stap)]_routeVars
  <2> SUFFICES ASSUME FrontendsInv, [Next]_allVars, Rustig', NEW l \in lopen' \ lopen, l.fase = "terug"
               PROVE  Verder(l) \/ Geweigerd(l) \/ Onderweg(l.stap)
    OBVIOUS
  <2>1. RouteInv /\ Rust /\ [RouteNext]_routeVars
    BY DEF FrontendsInv, Next, allVars
  <2> QED BY <2>1, FoutStap DEF Gegrond
<1> QED
  BY <1>1, FrontendsAltijd, PTL DEF Spec, FoutIsTeVroeg

\* For any number of tokens and contexts, whatever expires, is renewed or changes in another
\* tab: the header's token has the roles the screen offers actions for, so that no offered
\* write is refused for want of a role, unless the page loaded while localStorage changed.
THEOREM PortaalSchrijftMetRol == Spec => []SchrijfMetRol
<1>1. FrontendsInv => SchrijfMetRol
  BY DEF FrontendsInv, PortaalInv
<1> QED
  BY <1>1, FrontendsAltijd, PTL

\* For any number of versions and writes under way: a page on the screen shows less than a
\* write it was acknowledged only while the next read is under way, after that read failed
\* (the rows of sessies and incidenten then stay, with their buttons), or when the write was
\* acknowledged before the first copy or after the page was left, while an older answer was on
\* its way, and until the read after that.  What it offered is only refused because the object
\* changed, or in the cases where the page does not look.
THEOREM PaginaLooptNietTerug == Spec => []PaginaKlopt
<1>1. FrontendsInv => PaginaKlopt
  BY DEF FrontendsInv, PaginaInv, LezingKlopt, MutatieKlopt, PaginaKlopt
<1> QED
  BY <1>1, FrontendsAltijd, PTL

\* For any number of rows and overlapping reads: a row of the first answer is never
\* highlighted; one that came later was, in the lists that look rows up by the id they keep,
\* and in the others none is.  In the Regiekamer every highlight has a timer that ends it; in
\* Sven it has one until an answer without new rows stops it, and none after that.
THEOREM FlitsBetekentNieuw == Spec => []FlitsKlopt
<1>1. FrontendsInv => FlitsKlopt
  BY VerversGevolg DEF FrontendsInv
<1> QED
  BY <1>1, FrontendsAltijd, PTL
=============================================================================
