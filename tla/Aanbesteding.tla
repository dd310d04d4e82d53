----------------------------- MODULE Aanbesteding -----------------------------
(***************************************************************************)
(* One tender of the Contract service: PubliceerAanbesteding,               *)
(* OntvangInschrijving and GunAanbesteding (contract/src/application/       *)
(* aanbesteding), the aggregate they work on, the Prisma repositories and   *)
(* the outbox table.                                                        *)
(*                                                                         *)
(* Node runs one request between two awaits, so requests interleave at the  *)
(* awaits: zoek, isBekendEnInGebruik, bewaar and publiceer.  zoek is two    *)
(* SELECTs (the row, then its inschrijvingen), each with a snapshot of its  *)
(* own.  bewaar is one transaction: the upsert locks the row, and the       *)
(* inschrijvingen are replaced by those of the aggregate in memory.  There  *)
(* is no version column.  What a request computes in memory between two     *)
(* awaits is part of the step that follows.                                 *)
(*                                                                         *)
(* uuids are fresh, so an inschrijving is named by the request that submits *)
(* it and a contract by the request that awards it.                         *)
(***************************************************************************)
EXTENDS Naturals, FiniteSets

CONSTANTS
  Inschrijvers,       \* the POST .../inschrijvingen requests
  Gunners,            \* the POST .../gunning requests
  Publicatie,         \* the POST /api/aanbestedingen request that makes the tender
  Geen,
  Prijs,              \* Prijs[b]: price of b in cents
  Kwaliteit,          \* Kwaliteit[b]: its quality score
  Prijsgewicht,       \* Gunningscriteria: two weights that sum to 100
  Kwaliteitsgewicht,
  Validatie           \* configuration: "soepel" or "streng"

Verzoeken == Inschrijvers \cup Gunners \cup {Publicatie}

ASSUME VerzoekenAssumption ==
  /\ Inschrijvers \cap Gunners = {}
  /\ Publicatie \notin Inschrijvers \cup Gunners
  /\ Geen \notin Inschrijvers

ASSUME BodAssumption ==
  /\ Prijs \in [Inschrijvers -> Nat]
  /\ Kwaliteit \in [Inschrijvers -> Nat]

ASSUME CriteriaAssumption ==
  /\ Prijsgewicht \in Nat /\ Kwaliteitsgewicht \in Nat
  /\ Prijsgewicht + Kwaliteitsgewicht = 100
  /\ Validatie \in {"soepel", "streng"}

VARIABLES
  status,       \* the tender's row: "Ontbreekt", "Gepubliceerd" or "Gegund"
  inschr,       \* the tender's rows in Inschrijving
  contract,     \* contract[g]: the winning inschrijving of g's contract row, or Geen
  outbox,       \* the OutboxEvent rows: <<type, request>>
  pc,           \* where request r is
  gelezen,      \* gelezen[r]: the status r read
  gezien,       \* gezien[r]: the inschrijvingen r read
  winnaar,      \* winnaar[g]: uitslag.winnaar in request g, or Geen
  samenloop     \* history: has one request read while another was between read and save?

vars == <<status, inschr, contract, outbox, pc, gelezen, gezien, winnaar, samenloop>>

Statussen == {"Ontbreekt", "Gepubliceerd", "Gegund"}

Geladen == {"rij", "geladen", "gecontroleerd"}       \* read, not yet saved
Eind    == {"klaar", "afgewezen", "mislukt"}

OutboxEvents ==
  ({"aanbesteding.gepubliceerd"} \X {Publicatie})
    \cup ({"inschrijving.ontvangen"} \X Inschrijvers)
    \cup ({"aanbesteding.gegund", "onderhoudscontract.gegund"} \X Gunners)

TypeOK ==
  /\ status \in Statussen
  /\ inschr \subseteq Inschrijvers
  /\ contract \in [Gunners -> Inschrijvers \cup {Geen}]
  /\ outbox \subseteq OutboxEvents
  /\ pc \in [Verzoeken -> {"nieuw", "gegund", "bewaard"} \cup Geladen \cup Eind]
  /\ gelezen \in [Verzoeken -> Statussen]
  /\ gezien \in [Verzoeken -> SUBSET Inschrijvers]
  /\ winnaar \in [Gunners -> Inschrijvers \cup {Geen}]
  /\ samenloop \in BOOLEAN

Init ==
  /\ status = "Ontbreekt"
  /\ inschr = {}
  /\ contract = [g \in Gunners |-> Geen]
  /\ outbox = {}
  /\ pc = [r \in Verzoeken |-> "nieuw"]
  /\ gelezen = [r \in Verzoeken |-> "Ontbreekt"]
  /\ gezien = [r \in Verzoeken |-> {}]
  /\ winnaar = [g \in Gunners |-> Geen]
  /\ samenloop = FALSE

-----------------------------------------------------------------------------
(* Aanbesteding.gun: the EMVI score *)

\* The inschrijvingen with laagstePrijs.
Goedkoopste(S) == {b \in S : \A c \in S : Prijs[b] <= Prijs[c]}

\* emviScore(b) >= emviScore(c), multiplied by 100, by both prices and by 100:
\* score = (laagste / prijs * 100 * prijsgewicht + kwaliteit * kwaliteitsgewicht) / 100.
MinstensZoGoed(b, c, laagste) ==
  LET punten(x) == 100 * laagste * Prijsgewicht + Kwaliteit[x] * Kwaliteitsgewicht * Prijs[x]
  IN  punten(b) * Prijs[c] >= punten(c) * Prijs[b]

\* Defective variant: the scores are sorted in ascending order.
WinnaarsOplopend(S) ==
  {b \in S : \E l \in Goedkoopste(S) : \A c \in S : MinstensZoGoed(c, b, Prijs[l])}

\* What gescoord[0] can be.  Rows come back in no particular order, so any of the
\* best can be first; a price of 0 makes 0 / 0 = NaN, which compares equal to
\* everything, and then the order of the rows decides.
Winnaars(S) ==
  IF \E b \in S : Prijs[b] = 0
  THEN S
  ELSE {b \in S : \E l \in Goedkoopste(S) : \A c \in S : MinstensZoGoed(b, c, Prijs[l])}

-----------------------------------------------------------------------------
(* The requests *)

\* bewaar: upsert of the status, then the inschrijvingen of the aggregate replace
\* those of the table, in one transaction.
Bewaar(nieuweStatus, inschrijvingen) ==
  /\ status' = nieuweStatus
  /\ inschr' = inschrijvingen

\* PubliceerAanbesteding: the first bewaar of the tender.
BewaarNieuweAanbesteding ==
  /\ pc[Publicatie] = "nieuw"
  /\ Bewaar("Gepubliceerd", {})
  /\ pc' = [pc EXCEPT ![Publicatie] = "bewaard"]
  /\ UNCHANGED <<contract, outbox, gelezen, gezien, winnaar, samenloop>>

\* zoek, first SELECT: the row of the tender, or "aanbesteding niet gevonden".
LeesRij(r) ==
  /\ r # Publicatie
  /\ pc[r] = "nieuw"
  /\ IF status = "Ontbreekt"
     THEN /\ pc' = [pc EXCEPT ![r] = "afgewezen"]
          /\ UNCHANGED <<gelezen, samenloop>>
     ELSE /\ pc' = [pc EXCEPT ![r] = "rij"]
          /\ gelezen' = [gelezen EXCEPT ![r] = status]
          /\ samenloop' = (samenloop \/ \E q \in Verzoeken : pc[q] \in Geladen)
  /\ UNCHANGED <<status, inschr, contract, outbox, gezien, winnaar>>

\* zoek, second SELECT: the inschrijvingen.
LeesInschrijvingen(r) ==
  /\ pc[r] = "rij"
  /\ gezien' = [gezien EXCEPT ![r] = inschr]
  /\ pc' = [pc EXCEPT ![r] = "geladen"]
  /\ UNCHANGED <<status, inschr, contract, outbox, gelezen, winnaar, samenloop>>

\* OntvangInschrijving: the domain check, push and bewaar.
BewaarInschrijving(b) ==
  /\ b \in Inschrijvers
  /\ pc[b] = "geladen"
  /\ gelezen[b] = "Gepubliceerd"
  /\ Bewaar(gelezen[b], gezien[b] \cup {b})
  /\ pc' = [pc EXCEPT ![b] = "bewaard"]
  /\ UNCHANGED <<contract, outbox, gelezen, gezien, winnaar, samenloop>>

\* GunAanbesteding: isBekendEnInGebruik.  The consumer of beheer.kunstwerk.* changes
\* that read model at any time, so either answer is possible; only "streng" refuses.
ControleerKunstwerk(g) ==
  /\ g \in Gunners
  /\ pc[g] = "geladen"
  /\ \E bekend \in BOOLEAN :
       pc' = [pc EXCEPT ![g] = IF bekend \/ Validatie = "soepel"
                               THEN "gecontroleerd"
                               ELSE "afgewezen"]
  /\ UNCHANGED <<status, inschr, contract, outbox, gelezen, gezien, winnaar, samenloop>>

\* Defective variant: gun does not look at the status.
BewaarGunningAltijd(g) ==
  /\ g \in Gunners
  /\ pc[g] = "gecontroleerd"
  /\ \E w \in Winnaars(gezien[g]) : winnaar' = [winnaar EXCEPT ![g] = w]
  /\ Bewaar("Gegund", gezien[g])
  /\ pc' = [pc EXCEPT ![g] = "gegund"]
  /\ UNCHANGED <<contract, outbox, gelezen, gezien, samenloop>>

\* aanbesteding.gun() and bewaar(aanbesteding).
BewaarGunning(g) ==
  /\ g \in Gunners
  /\ pc[g] = "gecontroleerd"
  /\ gelezen[g] = "Gepubliceerd"
  /\ \E w \in Winnaars(gezien[g]) : winnaar' = [winnaar EXCEPT ![g] = w]
  /\ Bewaar("Gegund", gezien[g])
  /\ pc' = [pc EXCEPT ![g] = "gegund"]
  /\ UNCHANGED <<contract, outbox, gelezen, gezien, samenloop>>

\* Defective variant: the contract is announced but not saved.
SlaContractOver(g) ==
  /\ g \in Gunners
  /\ pc[g] = "gegund"
  /\ pc' = [pc EXCEPT ![g] = "bewaard"]
  /\ UNCHANGED <<status, inschr, contract, outbox, gelezen, gezien, winnaar, samenloop>>

\* Onderhoudscontract.gun and bewaar(contract), the second transaction.
BewaarContract(g) ==
  /\ g \in Gunners
  /\ pc[g] = "gegund"
  /\ contract' = [contract EXCEPT ![g] = winnaar[g]]
  /\ pc' = [pc EXCEPT ![g] = "bewaard"]
  /\ UNCHANGED <<status, inschr, outbox, gelezen, gezien, winnaar, samenloop>>

\* A DomeinFout of the aggregate, before anything is written: the tender is not
\* Gepubliceerd any more, or gunnen finds no inschrijving.
WijsAf(r) ==
  /\ \/ r \in Inschrijvers /\ pc[r] = "geladen" /\ gelezen[r] # "Gepubliceerd"
     \/ r \in Gunners /\ pc[r] = "gecontroleerd"
          /\ (gelezen[r] # "Gepubliceerd" \/ gezien[r] = {})
  /\ pc' = [pc EXCEPT ![r] = "afgewezen"]
  /\ UNCHANGED <<status, inschr, contract, outbox, gelezen, gezien, winnaar, samenloop>>

\* Defective variant: contract.trekEventsLeeg() is left out.
EventsZonderContract(r) == {e \in OutboxEvents : e[2] = r /\ e[1] # "onderhoudscontract.gegund"}

\* Defective variant: the contract's event carries the id of the tender.
EventsMetAanbestedingId(r) ==
  {IF e[1] = "onderhoudscontract.gegund" THEN <<e[1], Publicatie>> ELSE e :
     e \in {f \in OutboxEvents : f[2] = r}}

\* The events request r hands to publiceer in one createMany.
EventsVan(r) == {e \in OutboxEvents : e[2] = r}

\* Defective variant: the events are published as soon as the tender is saved.
PubliceerVroeg(r) ==
  /\ pc[r] \in {"gegund", "bewaard"}
  /\ outbox' = outbox \cup EventsVan(r)
  /\ pc' = [pc EXCEPT ![r] = IF pc[r] = "bewaard" THEN "klaar" ELSE pc[r]]
  /\ UNCHANGED <<status, inschr, contract, gelezen, gezien, winnaar, samenloop>>

\* publisher.publiceer: a transaction of its own, after bewaar.
Publiceer(r) ==
  /\ pc[r] = "bewaard"
  /\ outbox' = outbox \cup EventsVan(r)
  /\ pc' = [pc EXCEPT ![r] = "klaar"]
  /\ UNCHANGED <<status, inschr, contract, gelezen, gezien, winnaar, samenloop>>

\* The request ends at an await (a database error, the death of the process), or
\* Contractperiode.van refuses the looptijd after the tender was saved.  What was
\* committed stays, nothing is compensated.
Breek(r) ==
  /\ pc[r] \in Geladen \cup {"gegund", "bewaard"}
  /\ pc' = [pc EXCEPT ![r] = "mislukt"]
  /\ UNCHANGED <<status, inschr, contract, outbox, gelezen, gezien, winnaar, samenloop>>

Stap(r) ==
  \/ LeesRij(r)
  \/ LeesInschrijvingen(r)
  \/ BewaarInschrijving(r)
  \/ ControleerKunstwerk(r)
  \/ BewaarGunning(r)
  \/ BewaarContract(r)
  \/ WijsAf(r)
  \/ Publiceer(r)

Next ==
  \/ BewaarNieuweAanbesteding
  \/ \E r \in Verzoeken : Stap(r) \/ Breek(r)

\* Node resumes a request when its await settles.  Requests need not arrive.
Voortgang(r) == pc[r] # "nieuw" /\ Stap(r)

Spec == Init /\ [][Next]_vars /\ \A r \in Verzoeken : WF_vars(Voortgang(r))

-----------------------------------------------------------------------------
(* Safety *)

Contracten == {g \in Gunners : contract[g] # Geen}

\* Inschrijvingen whose submitter got "ontvangen", or is about to.
Aanvaard == {b \in Inschrijvers : pc[b] \in {"bewaard", "klaar"}}

\* When no request read the tender while another was between its read and its
\* save: one contract at most, the tender with a contract is Gegund, and no
\* accepted inschrijving is missing from it.
SerieelConsistent ==
  ~samenloop =>
    /\ \A g, h \in Contracten : g = h
    /\ Contracten # {} => status = "Gegund"
    /\ Aanvaard \subseteq inschr

\* The consumers of onderhoudscontract.gegund (Onderhoud) and the readers of the
\* tender's gegund event find the contract: whatever fails or interleaves, both
\* events of a gunning are in the outbox or neither, and then its contract is
\* saved, with the inschrijving that won it.
GegundEventHeeftContract ==
  \A g \in Gunners :
    /\ <<"aanbesteding.gegund", g>> \in outbox <=> <<"onderhoudscontract.gegund", g>> \in outbox
    /\ <<"onderhoudscontract.gegund", g>> \in outbox =>
         g \in Contracten /\ contract[g] = winnaar[g] /\ winnaar[g] \in gezien[g]

\* A tender that is Gegund without a contract is explained by a request that is
\* still between its two saves or was broken off there.
GegundVerklaard ==
  status = "Gegund" =>
    \E g \in Gunners :
      winnaar[g] # Geen /\ (contract[g] = winnaar[g] \/ pc[g] \in {"gegund", "mislukt"})

\* EMVI: nobody the gunning saw was both cheaper and better than the winner
\* (a price of 0 excepted, which takes the score out of the numbers).
WinnaarNietGedomineerd ==
  \A g \in Gunners :
    winnaar[g] # Geen /\ (\A b \in gezien[g] : Prijs[b] > 0) =>
      ~\E b \in gezien[g] : Prijs[b] < Prijs[winnaar[g]] /\ Kwaliteit[b] > Kwaliteit[winnaar[g]]

\* aanbesteding.ts:74 "aanbesteding is al gegund": a tender leads to one contract.
HoogstensEenContract == \A g, h \in Contracten : g = h

\* prisma-outbox-event-publisher.ts:8 "transactionele outbox": when a gunning has
\* ended, however it ended, its contract and its event are both there or neither.
OutboxTransactioneel ==
  \A g \in Gunners :
    pc[g] \in Eind => (g \in Contracten <=> <<"onderhoudscontract.gegund", g>> \in outbox)

\* Without overlap an awarded tender is closed: its status and its inschrijvingen
\* never change again.
GeslotenNaGunning ==
  [][status = "Gegund" /\ ~samenloop' => status' = "Gegund" /\ inschr' = inschr]_vars

(* Liveness *)

\* A tender that is awarded gets its contract announced, unless a gunning breaks
\* off: nothing but a failure keeps a gunning from its second save and its events.
GunningLeidtTotContract ==
  status = "Gegund" ~>
    \E g \in Gunners : <<"onderhoudscontract.gegund", g>> \in outbox \/ pc[g] = "mislukt"
=============================================================================
