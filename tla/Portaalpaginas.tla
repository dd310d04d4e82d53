--------------------------- MODULE Portaalpaginas ---------------------------
(***************************************************************************)
(* The pages of src/frontends/portal that offer actions on one object:     *)
(* react-query keeps a copy of it, the page decides from the copy what to  *)
(* offer, the service decides from the object whether to do it, and other  *)
(* users of the portal work on the same object.                            *)
(***************************************************************************)
EXTENDS Naturals

CONSTANTS
  MaxVersies,   \* changes of the object
  MaxMutaties   \* writes of this page under way at a time

ASSUME PaginaAanname == MaxVersies \in Nat \ {0} /\ MaxMutaties \in Nat \ {0}

VARIABLES
  soort,       \* what the page is about
  object,      \* the object at the service: [status, bij, versie]
  kopie,       \* the copy of it in the query cache, or GeenObject
  leesfout,    \* the query has an error
  lezing,      \* the read under way: [fase, object]
  zichtbaar,   \* the page is on the screen, and its query mounted
  mutaties,    \* the writes under way: [nr, actie, basis, fase, versie, knop]
  eigen,       \* history: the newest version an acknowledged write of this page made
  doorgelopen  \* history: a write was acknowledged while an answer was on its way that nothing
               \* cancelled, and no read began since

paginaVars == <<soort, object, kopie, leesfout, lezing, zichtbaar, mutaties, eigen, doorgelopen>>

server  == <<soort, object>>
bladzij == <<kopie, leesfout, lezing, zichtbaar>>
schrijf == <<mutaties, eigen>>

Beginstatus == [traject |-> "Gepland", sessie |-> "Actief", incident |-> "Nieuw",
           aanbesteding |-> "Gepubliceerd", contract |-> "Actief", kunstwerk |-> "InGebruik"]
Soorten == DOMAIN Beginstatus

\* Pages with a row per object, and the action buttons in the row.
Lijstpaginas == {"sessie", "incident"}
Statussen == {Beginstatus[s] : s \in Soorten} \cup
             {"Gestart", "Afgerond", "Gepauzeerd", "InBehandeling", "Opgelost", "Gegund", "BuitenGebruik"}

\* What an event tells the service about the object, and the page does not show: a geldend
\* contract for the traject's kunstwerk, a kunstwerk that is known and in use, a KPI score.
\* Where the service validates "soepel" the first two are there from the start.
Feiten == [traject |-> {"geldend"}, aanbesteding |-> {"bekend"}, contract |-> {"kpi"},
           sessie |-> {}, incident |-> {}, kunstwerk |-> {}]
Bijlagen == {"keuring", "factuur", "goedkeuring", "inschrijving", "geldend", "bekend", "kpi"}
Acties == [traject |-> {"start", "keuring", "afkeuring", "afronden", "factuur", "goedkeuring"},
           sessie |-> {"pauzeer", "hervat", "sessieAf"},
           incident |-> {"inBehandeling", "losOp"},
           aanbesteding |-> {"inschrijving", "gun"},
           contract |-> {"verklaring", "contractAf"},
           kunstwerk |-> {"eis", "buitenGebruik"}]
AlleActies == UNION {Acties[s] : s \in Soorten}

Object == [status : Statussen, bij : SUBSET Bijlagen, versie : 1..MaxVersies]
GeenObject == [status |-> "geen", bij |-> {}, versie |-> 0]
GeenLezing == [fase |-> "geen", object |-> GeenObject]
NieuweLezing == [fase |-> "begonnen", object |-> GeenObject]

PaginaTypeOK ==
  /\ soort \in Soorten /\ object \in Object /\ kopie \in Object \cup {GeenObject}
  /\ leesfout \in BOOLEAN /\ zichtbaar \in BOOLEAN /\ doorgelopen \in BOOLEAN /\ eigen \in 0..MaxVersies
  /\ lezing \in [fase : {"geen", "begonnen", "gelezen"}, object : Object \cup {GeenObject}]
  /\ mutaties \subseteq [nr : 1..MaxMutaties, actie : AlleActies, basis : Object \cup {GeenObject},
                         fase : {"onderweg", "gedaan", "geweigerd"}, versie : 0..MaxVersies, knop : BOOLEAN]
  /\ \A m, n \in mutaties : m.nr = n.nr => m = n

\* The page is opened on a new object, or on a traject somebody worked on before.
HalverwegeTraject == [status |-> "Gestart", bij |-> {"keuring", "factuur", "geldend"}, versie |-> 1]

PaginaInit ==
  /\ soort \in Soorten
  /\ object \in {[status |-> Beginstatus[soort], bij |-> f, versie |-> 1] : f \in SUBSET Feiten[soort]} \cup
               (IF soort = "traject" THEN {HalverwegeTraject} ELSE {})
  /\ kopie = GeenObject /\ leesfout = FALSE /\ lezing = NieuweLezing /\ zichtbaar = TRUE
  /\ mutaties = {} /\ eigen = 0 /\ doorgelopen = FALSE

-----------------------------------------------------------------------------
(* What each page offers for its copy k *)

TrajectAanbod(k) ==
  {a \in Acties["traject"] :
     /\ k # GeenObject
     /\ a = "start" => k.status = "Gepland"
     /\ a \in {"keuring", "afkeuring", "afronden"} => k.status = "Gestart"
     /\ a = "goedkeuring" => "factuur" \in k.bij /\ "goedkeuring" \notin k.bij}

SessieAanbod(k) ==
  {a \in Acties["sessie"] :
     /\ k # GeenObject
     /\ a = "pauzeer" => k.status = "Actief"
     /\ a = "hervat" => k.status = "Gepauzeerd"
     /\ a = "sessieAf" => k.status # "Afgerond"}

IncidentAanbod(k) ==
  {a \in Acties["incident"] :
     k # GeenObject /\ k.status # "Opgelost" /\ (a = "inBehandeling" => k.status # "InBehandeling")}

AanbestedingAanbod(k) == {a \in Acties["aanbesteding"] : k # GeenObject /\ k.status # "Gegund"}

ContractAanbod(k) == {a \in Acties["contract"] : a = "contractAf" => k.status # "Afgerond"}

KunstwerkAanbod(k) == {a \in Acties["kunstwerk"] : a = "buitenGebruik" => k.status # "BuitenGebruik"}

Aanbod(k) ==
  CASE soort = "traject" -> TrajectAanbod(k)
    [] soort = "sessie" -> SessieAanbod(k)
    [] soort = "incident" -> IncidentAanbod(k)
    [] soort = "aanbesteding" -> AanbestedingAanbod(k)
    [] soort = "contract" -> ContractAanbod(k)
    [] soort = "kunstwerk" -> KunstwerkAanbod(k)

-----------------------------------------------------------------------------
(* What the services do with object o; the modules of the services say more *)

TrajectAanvaardt(a, o) ==
  /\ a = "start" => o.status = "Gepland" /\ "geldend" \in o.bij
  /\ a \in {"keuring", "afkeuring", "afronden"} => o.status = "Gestart"
  /\ a = "afronden" => "keuring" \in o.bij
  /\ a = "factuur" => o.status # "Gepland"
  /\ a = "goedkeuring" => "factuur" \in o.bij /\ o.status = "Afgerond"

ContractAanvaardt(a, o) ==
  /\ a \in {"inschrijving", "gun"} => o.status = "Gepubliceerd"
  /\ a = "gun" => {"bekend", "inschrijving"} \subseteq o.bij
  /\ a \in {"verklaring", "contractAf"} => o.status = "Actief"
  /\ a = "verklaring" => "kpi" \in o.bij

MonitoringAanvaardt(a, o) ==
  /\ a = "pauzeer" => o.status = "Actief"
  /\ a = "hervat" => o.status = "Gepauzeerd"
  /\ a = "sessieAf" => o.status # "Afgerond"
  /\ a = "inBehandeling" => o.status = "Nieuw"
  /\ a = "losOp" => o.status # "Opgelost"

BeheerAanvaardt(a, o) == a = "buitenGebruik" => o.status # "BuitenGebruik"

Aanvaardt(a, o) ==
  TrajectAanvaardt(a, o) /\ ContractAanvaardt(a, o) /\ MonitoringAanvaardt(a, o) /\ BeheerAanvaardt(a, o)

Wordt == [start |-> "Gestart", afronden |-> "Afgerond", pauzeer |-> "Gepauzeerd", hervat |-> "Actief",
          sessieAf |-> "Afgerond", inBehandeling |-> "InBehandeling", losOp |-> "Opgelost",
          gun |-> "Gegund", contractAf |-> "Afgerond", buitenGebruik |-> "BuitenGebruik"]

Na(a, o) == [status |-> IF a \in DOMAIN Wordt THEN Wordt[a] ELSE o.status,
             bij |-> o.bij \cup ({a} \cap Bijlagen),
             versie |-> o.versie + 1]

\* Another user of the portal.
Ander(a) ==
  /\ object.versie < MaxVersies
  /\ a \in Acties[soort] /\ Aanvaardt(a, object)
  /\ object' = Na(a, object)
  /\ UNCHANGED <<soort, bladzij, schrijf, doorgelopen>>

\* An event reaches the service: a contract is gegund or afgerond, a kunstwerk registered or
\* out of use, or there is a KPI score, which stays.
Event(f) ==
  /\ object.versie < MaxVersies
  /\ f \in Feiten[soort] /\ (f = "kpi" => f \notin object.bij)
  /\ object' = [object EXCEPT !.bij = IF f \in @ THEN @ \ {f} ELSE @ \cup {f}, !.versie = @ + 1]
  /\ UNCHANGED <<soort, bladzij, schrijf, doorgelopen>>

-----------------------------------------------------------------------------
(* Reading: one read of a query at a time *)

\* The read under way becomes l.  A read that begins without a copy clears the error; with a
\* copy the error stays until a read succeeds.
Herlees(l) == lezing' = l /\ leesfout' = (leesfout /\ (l = lezing \/ kopie # GeenObject))

\* The five-second interval of a mounted query, unless a read is under way.
Ververs ==
  /\ zichtbaar /\ lezing = GeenLezing
  /\ Herlees(NieuweLezing) /\ doorgelopen' = FALSE
  /\ UNCHANGED <<server, kopie, zichtbaar, schrijf>>

LeesObject ==
  /\ lezing.fase = "begonnen"
  /\ lezing' = [fase |-> "gelezen", object |-> object]
  /\ UNCHANGED <<server, kopie, leesfout, zichtbaar, schrijf, doorgelopen>>

\* An answer goes into the cache, whether or not the page is still on the screen.
ToonObject ==
  /\ lezing.fase = "gelezen"
  /\ kopie' = lezing.object /\ leesfout' = FALSE /\ lezing' = GeenLezing
  /\ UNCHANGED <<server, zichtbaar, schrijf, doorgelopen>>

\* The second attempt fails too; the copy is kept.
LezenMislukt ==
  /\ lezing # GeenLezing
  /\ leesfout' = TRUE /\ lezing' = GeenLezing
  /\ UNCHANGED <<server, kopie, zichtbaar, schrijf, doorgelopen>>

\* Defective variant: a read under way is left to finish.
klaarZonderAfbreken(l) == IF zichtbaar /\ l = GeenLezing THEN NieuweLezing ELSE l

\* klaar(): invalidateQueries reads a mounted query again; a read under way is cancelled for
\* the new one, unless there is no copy yet.
klaar(l) == IF zichtbaar /\ (l = GeenLezing \/ kopie # GeenObject) THEN NieuweLezing ELSE l

\* A write of the portal to another object of the same context is acknowledged.
AnderObjectKlaar ==
  /\ zichtbaar
  /\ Herlees(klaar(lezing))
  /\ doorgelopen' = (doorgelopen /\ lezing # GeenLezing /\ kopie = GeenObject)
  /\ UNCHANGED <<server, kopie, zichtbaar, schrijf>>

\* The user leaves the page; its mutations go on, but no button follows them any more.  Another
\* filter of the incidenten unmounts the query only, and the buttons stay.
Weg ==
  /\ zichtbaar /\ zichtbaar' = FALSE
  /\ \/ mutaties' = {[m EXCEPT !.knop = FALSE] : m \in mutaties}
     \/ soort = "incident" /\ mutaties' = mutaties
  /\ UNCHANGED <<server, kopie, leesfout, lezing, eigen, doorgelopen>>

\* The query is mounted again: it is stale and is read, unless a read is under way still.
Terug ==
  /\ ~zichtbaar /\ zichtbaar' = TRUE
  /\ Herlees(IF lezing = GeenLezing THEN NieuweLezing ELSE lezing)
  /\ doorgelopen' = (doorgelopen /\ lezing # GeenLezing)
  /\ UNCHANGED <<server, kopie, schrijf>>

\* gcTime: five minutes after it was unmounted the query is dropped.
Vergeet ==
  /\ ~zichtbaar /\ lezing = GeenLezing
  /\ kopie' = GeenObject /\ leesfout' = FALSE
  /\ UNCHANGED <<server, lezing, zichtbaar, schrijf, doorgelopen>>

-----------------------------------------------------------------------------
(* Writing *)

Knop(a) == IF a \in {"keuring", "afkeuring"} THEN "inspectie" ELSE a

\* The button is disabled by a write of its own that is under way.  After a failed read the
\* pages of one object show the error and nothing else; Tabel keeps its rows and buttons.
KlikActie(a) ==
  /\ zichtbaar /\ (leesfout => soort \in Lijstpaginas) /\ a \in Aanbod(kopie)
  /\ \A m \in mutaties : m.knop => Knop(m.actie) # Knop(a)
  /\ \E n \in 1..MaxMutaties :
       /\ {m.nr : m \in mutaties} \cap 1..n = 1..(n - 1)
       /\ mutaties' = mutaties \cup {[nr |-> n, actie |-> a, basis |-> kopie, fase |-> "onderweg",
                                      versie |-> 0, knop |-> TRUE]}
  /\ UNCHANGED <<server, bladzij, eigen, doorgelopen>>

\* The same action on another row: the button follows that one, and is enabled in this row.
KlikAndereRij(a) ==
  /\ zichtbaar /\ soort \in Lijstpaginas /\ kopie # GeenObject
  /\ \E m \in mutaties : m.actie = a /\ m.knop
  /\ mutaties' = {[m EXCEPT !.knop = @ /\ m.actie # a] : m \in mutaties}
  /\ UNCHANGED <<server, bladzij, eigen, doorgelopen>>

Verwerk(m) ==
  /\ m.fase = "onderweg"
  /\ IF Aanvaardt(m.actie, object)
     THEN /\ object.versie < MaxVersies
          /\ object' = Na(m.actie, object)
          /\ mutaties' = (mutaties \ {m}) \cup {[m EXCEPT !.fase = "gedaan", !.versie = object.versie + 1]}
     ELSE /\ object' = object
          /\ mutaties' = (mutaties \ {m}) \cup {[m EXCEPT !.fase = "geweigerd", !.versie = object.versie]}
  /\ UNCHANGED <<soort, bladzij, eigen, doorgelopen>>

\* onSuccess runs wherever the user is by now.
Geslaagd(m) ==
  /\ m.fase = "gedaan"
  /\ mutaties' = mutaties \ {m}
  /\ Herlees(klaar(lezing))
  /\ eigen' = IF m.versie < eigen THEN eigen ELSE m.versie
  /\ doorgelopen' = (lezing.fase = "gelezen" /\ (~zichtbaar \/ kopie = GeenObject))
  /\ UNCHANGED <<server, kopie, zichtbaar>>

\* A refusal, or no answer: a message, and nothing is read again.
Mislukt(m) ==
  /\ mutaties' = mutaties \ {m}
  /\ UNCHANGED <<server, bladzij, eigen, doorgelopen>>

PaginaNext ==
  \/ Ververs \/ LeesObject \/ ToonObject \/ LezenMislukt
  \/ AnderObjectKlaar \/ Weg \/ Terug \/ Vergeet
  \/ \E a \in AlleActies : KlikActie(a) \/ KlikAndereRij(a)
  \/ \E a \in AlleActies : Ander(a)
  \/ \E f \in Bijlagen : Event(f)
  \/ \E m \in mutaties : Verwerk(m) \/ Geslaagd(m) \/ Mislukt(m)

-----------------------------------------------------------------------------
\* What a page offers without looking at what the service will check.
Onbewaakt(a, k) ==
  \/ k = GeenObject
  \/ a = "afronden" /\ "keuring" \notin k.bij
  \/ a = "factuur" /\ k.status = "Gepland"
  \/ a = "goedkeuring" /\ k.status # "Afgerond"
  \/ a = "start" /\ "geldend" \notin k.bij
  \/ a = "gun" /\ ~({"bekend", "inschrijving"} \subseteq k.bij)
  \/ a = "verklaring" /\ (k.status # "Actief" \/ "kpi" \notin k.bij)

\* A page on the screen goes back behind a write it was told of in no other way than these:
\* while the next read is under way; after that read failed, when the pages of one object show
\* the error, but sessies and incidenten keep their old rows and buttons; and when the write
\* was acknowledged before there was a copy or after the page was left, while an older answer
\* was on its way, which then stays until the next read (doorgelopen).  Otherwise an answer
\* that comes is at least as new as every acknowledged write, and so is the copy once no read
\* is under way.  And an action that was offered is refused only because the object changed
\* since the copy was read (another user, or this page's own write under way), or in the cases
\* named above, where the page does not look.
PaginaKlopt ==
  /\ lezing.fase = "gelezen" /\ ~doorgelopen => lezing.object.versie >= eigen
  /\ zichtbaar /\ lezing = GeenLezing /\ ~leesfout /\ ~doorgelopen => kopie.versie >= eigen
  /\ \A m \in mutaties :
       m.fase = "geweigerd" => m.versie > m.basis.versie \/ Onbewaakt(m.actie, m.basis)
=============================================================================
