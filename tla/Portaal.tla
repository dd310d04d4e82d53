------------------------------ MODULE Portaal -------------------------------
(***************************************************************************)
(* The session of one tab of src/frontends/portal.  The token is kept      *)
(* twice: oidc.ts remembers it for the Authorization header, auth.tsx      *)
(* derives from it the user whose roles decide which actions are offered.  *)
(* Each listens to the events of the OIDC client for itself.  Keycloak,    *)
(* the OIDC client and the other tabs are the environment.                 *)
(***************************************************************************)
EXTENDS Naturals

CONSTANTS
  Contexten,   \* the bounded contexts, which are also the roles
  Ingeschakeld, \* AUTH_ENABLED of the services
  MaxTokens    \* tokens Keycloak issues

ASSUME PortaalAanname ==
  /\ Contexten # {} /\ "niemand" \notin Contexten
  /\ Ingeschakeld \in BOOLEAN /\ MaxTokens \in Nat \ {0}

VARIABLES
  account,      \* Keycloak: the roles of who is signed in there, or Niemand
  opslag,       \* localStorage, shared with the other tabs: a token or GeenToken
  uitgegeven,   \* tokens issued so far
  verlopen,     \* the tokens that have expired
  huidigToken,  \* oidc.ts: for the Authorization header
  gebruiker,    \* auth.tsx: the roles of the user, or Niemand
  laadstap,     \* "module" and "provider": the reads of localStorage to come; "klaar"
  geladen,      \* OIDC client: the token whose timers run, or GeenToken
  scherm,       \* "app", "login", "callback", "fout", or "keycloak": this tab is there
  verzoeken,    \* the write under way, if there is one
  vernieuwfout, \* history: a renewal failed since the last token
  gespleten     \* history: localStorage changed between the two reads of this page

portaalVars == <<account, opslag, uitgegeven, verlopen, huidigToken, gebruiker, laadstap, geladen,
                 scherm, verzoeken, vernieuwfout, gespleten>>

Rollen == SUBSET Contexten
Niemand == {"niemand"}   \* no role
Token == [nr : 1..MaxTokens, rollen : Rollen]
GeenToken == [nr |-> 0, rollen |-> {}]
MogelijkToken == Token \cup {GeenToken}
Verzoek == [context : Contexten, token : MogelijkToken, zonder : BOOLEAN, gespleten : BOOLEAN,
            uitslag : {"onderweg", "401", "403", "gedaan"}]

PortaalTypeOK ==
  /\ account \in Rollen \cup {Niemand} /\ gebruiker \in Rollen \cup {Niemand}
  /\ opslag \in MogelijkToken /\ huidigToken \in MogelijkToken /\ geladen \in MogelijkToken
  /\ uitgegeven \in 0..MaxTokens /\ verlopen \subseteq 1..MaxTokens
  /\ laadstap \in {"module", "provider", "klaar"}
  /\ scherm \in {"app", "login", "keycloak", "callback", "fout"}
  /\ verzoeken \subseteq Verzoek
  /\ vernieuwfout \in BOOLEAN /\ gespleten \in BOOLEAN

PortaalInit ==
  /\ account = Niemand /\ opslag = GeenToken /\ uitgegeven = 0 /\ verlopen = {}
  /\ huidigToken = GeenToken /\ gebruiker = Niemand /\ laadstap = "module" /\ geladen = GeenToken
  /\ scherm = "app" /\ verzoeken = {}
  /\ vernieuwfout = FALSE /\ gespleten = FALSE

omgeving == <<account, opslag, uitgegeven, verlopen>>
sessie == <<huidigToken, gebruiker, laadstap, geladen, scherm, vernieuwfout, gespleten>>

-----------------------------------------------------------------------------
(* What a user object gives *)

Geldig(t) == t # GeenToken /\ t.nr \notin verlopen
onthoudToken(t) == IF Geldig(t) THEN t ELSE GeenToken
uitToken(t) == IF Geldig(t) THEN t.rollen ELSE Niemand

\* RequireAuth and LoginPage send the user on whenever they are drawn.
Route(s, stap, g) ==
  IF s = "app" /\ stap = "klaar" /\ g = Niemand THEN "login"
  ELSE IF s = "login" /\ g # Niemand THEN "app" ELSE s

\* Keycloak issues a token with the roles of the account.
Uitgifte == [nr |-> uitgegeven + 1, rollen |-> account]
GeeftUit == account # Niemand /\ uitgegeven < MaxTokens /\ uitgegeven' = uitgegeven + 1

-----------------------------------------------------------------------------
(* Loading the page: two reads of localStorage, one after the other *)

Laden(s) ==
  /\ huidigToken' = GeenToken /\ gebruiker' = Niemand /\ laadstap' = "module"
  /\ geladen' = GeenToken /\ scherm' = s /\ vernieuwfout' = FALSE /\ gespleten' = FALSE

HerlaadTab == scherm # "keycloak" /\ Laden(scherm) /\ UNCHANGED <<omgeving, verzoeken>>

PikTokenOp ==
  /\ laadstap = "module" /\ scherm # "keycloak"
  /\ laadstap' = "provider"
  /\ huidigToken' = onthoudToken(opslag)
  /\ geladen' = opslag
  /\ UNCHANGED <<omgeving, gebruiker, scherm, verzoeken, vernieuwfout, gespleten>>

PikGebruikerOp ==
  /\ laadstap = "provider" /\ scherm # "keycloak"
  /\ laadstap' = "klaar"
  /\ gebruiker' = uitToken(opslag)
  /\ geladen' = IF opslag = GeenToken THEN geladen ELSE opslag
  /\ gespleten' = (gespleten \/ geladen # opslag)
  /\ scherm' = Route(scherm, "klaar", gebruiker')
  /\ UNCHANGED <<omgeving, huidigToken, verzoeken, vernieuwfout>>

-----------------------------------------------------------------------------
(* Signing in and out *)

login ==
  /\ scherm = "login" /\ laadstap = "klaar"
  /\ scherm' = "keycloak"
  /\ UNCHANGED <<omgeving, huidigToken, gebruiker, laadstap, geladen, verzoeken,
                 vernieuwfout, gespleten>>

\* Keycloak sends the tab back with a code for whoever signs in.
KeycloakTerug(r) ==
  /\ scherm = "keycloak"
  /\ account' = r
  /\ Laden("callback")
  /\ UNCHANGED <<opslag, uitgegeven, verlopen, verzoeken>>

\* userLoaded: both listeners take the new token.
UserLoaded(t) ==
  /\ opslag' = t /\ geladen' = t
  /\ huidigToken' = onthoudToken(t)
  /\ gebruiker' = uitToken(t)
  /\ vernieuwfout' = FALSE /\ gespleten' = FALSE

\* The exchange is a request to Keycloak; the reads of localStorage are done before it is.
AuthCallback ==
  /\ scherm = "callback" /\ laadstap = "klaar"
  /\ GeeftUit /\ UserLoaded(Uitgifte)
  /\ scherm' = "app"
  /\ UNCHANGED <<account, verlopen, laadstap, verzoeken>>

AuthCallbackMislukt ==
  /\ scherm = "callback" /\ laadstap = "klaar"
  /\ scherm' = "fout"
  /\ UNCHANGED <<omgeving, huidigToken, gebruiker, laadstap, geladen, verzoeken,
                 vernieuwfout, gespleten>>

TerugNaarInloggen ==
  /\ scherm = "fout"
  /\ scherm' = Route("login", laadstap, gebruiker)
  /\ UNCHANGED <<omgeving, huidigToken, gebruiker, laadstap, geladen, verzoeken,
                 vernieuwfout, gespleten>>

\* signoutRedirect removes the user, goes to Keycloak, and comes back at the start.
logout ==
  /\ scherm = "app" /\ gebruiker # Niemand
  /\ account' = Niemand /\ opslag' = GeenToken
  /\ Laden("app")
  /\ UNCHANGED <<uitgegeven, verlopen, verzoeken>>

-----------------------------------------------------------------------------
(* Time, and the other tabs *)

\* automaticSilentRenew, while a token is loaded.
Vernieuw ==
  /\ geladen # GeenToken /\ laadstap = "klaar" /\ scherm # "keycloak"
  /\ GeeftUit /\ UserLoaded(Uitgifte)
  /\ scherm' = Route(scherm, laadstap, gebruiker')
  /\ UNCHANGED <<account, verlopen, laadstap, verzoeken>>

\* silentRenewError: only oidc.ts listens to it.
VernieuwFout ==
  /\ geladen # GeenToken /\ laadstap = "klaar" /\ scherm # "keycloak"
  /\ huidigToken' = GeenToken /\ vernieuwfout' = TRUE
  /\ UNCHANGED <<omgeving, gebruiker, laadstap, geladen, scherm, verzoeken, gespleten>>

Verloopt(nr) ==
  /\ nr \in 1..uitgegeven \ verlopen
  /\ verlopen' = verlopen \cup {nr}
  /\ UNCHANGED <<account, opslag, uitgegeven, sessie, verzoeken>>

\* Defective variant: only oidc.ts listens to accessTokenExpired.
AccessTokenExpiredHalf ==
  /\ geladen.nr \in verlopen /\ laadstap = "klaar" /\ scherm # "keycloak"
  /\ huidigToken' = GeenToken /\ geladen' = GeenToken
  /\ UNCHANGED <<omgeving, gebruiker, scherm, laadstap, verzoeken, vernieuwfout, gespleten>>

\* accessTokenExpired: the timer of the token that is loaded.
AccessTokenExpired ==
  /\ geladen.nr \in verlopen /\ laadstap = "klaar" /\ scherm # "keycloak"
  /\ huidigToken' = GeenToken /\ gebruiker' = Niemand /\ geladen' = GeenToken
  /\ scherm' = Route(scherm, laadstap, Niemand)
  /\ UNCHANGED <<omgeving, laadstap, verzoeken, vernieuwfout, gespleten>>

\* Another tab renews its token, or somebody signs in there; no event reaches this tab.
AnderTabToken ==
  /\ GeeftUit /\ opslag' = Uitgifte
  /\ UNCHANGED <<account, verlopen, sessie, verzoeken>>

AnderTabLogout ==
  /\ account # Niemand /\ account' = Niemand /\ opslag' = GeenToken
  /\ UNCHANGED <<uitgegeven, verlopen, sessie, verzoeken>>

RollenGewijzigd(r) ==
  /\ account # Niemand /\ account' = r
  /\ UNCHANGED <<opslag, uitgegeven, verlopen, sessie, verzoeken>>

-----------------------------------------------------------------------------
(* A write: the action is offered for a role of the user, the header carries the token *)

useKanBewerken(c) == gebruiker # Niemand /\ c \in gebruiker

Schrijf(c) ==
  /\ scherm = "app" /\ verzoeken = {} /\ useKanBewerken(c)
  /\ verzoeken' = {[context |-> c, token |-> huidigToken, zonder |-> vernieuwfout,
                    gespleten |-> gespleten, uitslag |-> "onderweg"]}
  /\ UNCHANGED <<omgeving, sessie>>

\* The hook (Contract) or guard (Onderhoud) before every write.
Oordeel(v) ==
  IF ~Ingeschakeld THEN "gedaan"
  ELSE IF ~Geldig(v.token) THEN "401"
  ELSE IF v.context \notin v.token.rollen THEN "403" ELSE "gedaan"

Bewaak(v) ==
  /\ v.uitslag = "onderweg"
  /\ verzoeken' = {[v EXCEPT !.uitslag = Oordeel(v)]}
  /\ UNCHANGED <<omgeving, sessie>>

\* The page shows a 401 or 403 as a message; the session stays as it is.
ToonUitslag(v) ==
  /\ v.uitslag # "onderweg"
  /\ verzoeken' = verzoeken \ {v}
  /\ UNCHANGED <<omgeving, sessie>>

PortaalNext ==
  \/ HerlaadTab \/ PikTokenOp \/ PikGebruikerOp
  \/ login \/ AuthCallback \/ AuthCallbackMislukt \/ TerugNaarInloggen \/ logout
  \/ Vernieuw \/ VernieuwFout \/ AccessTokenExpired
  \/ AnderTabToken \/ AnderTabLogout
  \/ \E v \in verzoeken : Bewaak(v) \/ ToonUitslag(v)
  \/ \E r \in Rollen : KeycloakTerug(r) \/ RollenGewijzigd(r)
  \/ \E nr \in 1..MaxTokens : Verloopt(nr)
  \/ \E c \in Contexten : Schrijf(c)

-----------------------------------------------------------------------------
\* The two copies of the session agree, whatever expires, is renewed, fails to be, is signed
\* out or changes elsewhere: the header never carries a token whose roles are not the ones the
\* screen offers actions for, so that the services refuse no offered write for want of a role;
\* and a write goes out without a token only after a failed renewal.  The one exception is a
\* page that was loaded while another tab changed localStorage, until its next token.
SchrijfMetRol ==
  /\ gespleten \/ gebruiker = Niemand \/ huidigToken.rollen = gebruiker \/ vernieuwfout
  /\ ~gespleten /\ gebruiker # Niemand /\ ~vernieuwfout => huidigToken # GeenToken
  /\ ~gespleten /\ huidigToken # GeenToken /\ laadstap = "klaar" /\ gebruiker = Niemand =>
       huidigToken.nr \in verlopen
  /\ \A v \in verzoeken :
       /\ v.uitslag = "403" => v.gespleten
       /\ v.token = GeenToken => v.zonder \/ v.gespleten
=============================================================================
