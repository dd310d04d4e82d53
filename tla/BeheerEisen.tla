----------------------------- MODULE BeheerEisen -----------------------------
(***************************************************************************)
(* Laying down requirements (StelOnderhoudseisenVast, StelOntwerpeisenVast) *)
(* in the Beheer service: beheer/application/use_cases.py, the SQLAlchemy   *)
(* repositories under it and the constraint on the eisenpakket table.       *)
(*                                                                         *)
(* FastAPI runs the synchronous handlers in a thread pool, and every        *)
(* request opens a unit of work of its own: the requests of this module     *)
(* are PostgreSQL transactions at READ COMMITTED that interleave statement  *)
(* by statement.  The session autoflushes, so the UPDATE that marks the     *)
(* previous pakket as Vervangen is sent, and takes its row lock, before     *)
(* the SELECT of next_version.                                              *)
(*                                                                         *)
(* One kunstwerk and one soort: every query filters on both columns and     *)
(* the unique constraint holds both, so other pairs share nothing with it.  *)
(* id_generator.new_id() is fresh, so a pakket is named by the request that *)
(* makes it.  What the eisen say is abstracted away: the eis rows of a pakket *)
(* are the copies of them that were inserted, each named by its request.    *)
(***************************************************************************)
EXTENDS Naturals

CONSTANTS Verzoeken,   \* the POST .../onderhoudseisen (or ontwerpeisen) requests
          Geen         \* None: no current pakket

ASSUME GeenAssumption == Geen \notin Verzoeken

VARIABLES
  kunstwerkBekend,  \* is there a committed row in kunstwerk?
  status,           \* status[p]: the status column of p's committed row, or "Ontbreekt"
  versie,           \* versie[p]: the version p's request computed (0: not yet)
  eisrijen,         \* eisrijen[p]: the committed copies of p's eis rows
  huidig,           \* huidig[r]: the local "current" of request r
  eisgelezen,       \* eisgelezen[r]: the eis rows of huidig[r] that save read
  pc,               \* where request r is
  gepubliceerd,     \* the pakketten whose ...eisen.vastgesteld event is at the broker
  samenloop         \* history: has a request read while another one was open?

tabel  == <<status, eisrijen>>
lokaal == <<versie, huidig, eisgelezen>>
vars   == <<kunstwerkBekend, tabel, lokaal, pc, gepubliceerd, samenloop>>

Statussen == {"Ontbreekt", "Vastgesteld", "Vervangen"}
Open      == {"gelezen", "geladen", "gemarkeerd", "genummerd"}   \* inside "with uow"
Eind      == {"afgewezen", "teruggedraaid", "klaar", "onaangekondigd"}

TypeOK ==
  /\ kunstwerkBekend \in BOOLEAN
  /\ status \in [Verzoeken -> Statussen]
  /\ versie \in [Verzoeken -> Nat]
  /\ eisrijen \in [Verzoeken -> SUBSET Verzoeken]
  /\ huidig \in [Verzoeken -> Verzoeken \cup {Geen}]
  /\ eisgelezen \in [Verzoeken -> SUBSET Verzoeken]
  /\ pc \in [Verzoeken -> {"nieuw", "gecommit"} \cup Open \cup Eind]
  /\ gepubliceerd \subseteq Verzoeken
  /\ samenloop \in BOOLEAN

Init ==
  /\ kunstwerkBekend = FALSE
  /\ status = [p \in Verzoeken |-> "Ontbreekt"]
  /\ versie = [p \in Verzoeken |-> 0]
  /\ eisrijen = [p \in Verzoeken |-> {}]
  /\ huidig = [r \in Verzoeken |-> Geen]
  /\ eisgelezen = [r \in Verzoeken |-> {}]
  /\ pc = [r \in Verzoeken |-> "nieuw"]
  /\ gepubliceerd = {}
  /\ samenloop = FALSE

-----------------------------------------------------------------------------
(* What a statement at READ COMMITTED sees: the committed rows.             *)

Rijen == {p \in Verzoeken : status[p] # "Ontbreekt"}

Vastgestelde == {p \in Rijen : status[p] = "Vastgesteld"}

HoogsteVan(S, p) == p \in S /\ \A q \in S : versie[q] <= versie[p]

\* get_current: the Vastgesteld row with the highest version, or None.
GetCurrent == IF Vastgestelde = {}
              THEN Geen
              ELSE CHOOSE p \in Vastgestelde : HoogsteVan(Vastgestelde, p)

\* next_version: max(versie) + 1, or 1 on an empty table.
NextVersion == IF Rijen = {}
               THEN 1
               ELSE versie[CHOOSE p \in Rijen : HoogsteVan(Rijen, p)] + 1

\* The row lock an UPDATE takes and a transaction keeps until it ends.
RijVergrendeld(p) ==
  \E q \in Verzoeken : pc[q] \in {"gemarkeerd", "genummerd"} /\ huidig[q] = p

\* Defective variant: the table has no unique constraint.
VersieBezetZonderConstraint(n) == FALSE

\* uq_eisenpakket_versie: an INSERT with a version some row has fails.
VersieBezet(n) == \E p \in Rijen : versie[p] = n

-----------------------------------------------------------------------------
\* RegistreerKunstwerk commits the row the eisen refer to; rows are never deleted.
RegistreerKunstwerk ==
  /\ ~kunstwerkBekend
  /\ kunstwerkBekend' = TRUE
  /\ UNCHANGED <<tabel, lokaal, pc, gepubliceerd, samenloop>>

\* NotFoundError: the kunstwerk does not exist.
WijsAf(r) ==
  /\ pc[r] = "nieuw"
  /\ ~kunstwerkBekend
  /\ pc' = [pc EXCEPT ![r] = "afgewezen"]
  /\ UNCHANGED <<kunstwerkBekend, tabel, lokaal, gepubliceerd, samenloop>>

\* The transaction begins: kunstwerken.get, then get_current.
LeesHuidig(r) ==
  /\ pc[r] = "nieuw"
  /\ kunstwerkBekend
  /\ huidig' = [huidig EXCEPT ![r] = GetCurrent]
  /\ pc' = [pc EXCEPT ![r] = "gelezen"]
  /\ samenloop' = (samenloop \/ \E q \in Verzoeken : pc[q] \in Open)
  /\ UNCHANGED <<kunstwerkBekend, tabel, versie, eisgelezen, gepubliceerd>>

\* save finds the row of the previous pakket again (nothing holds on to the one
\* get_current mapped) and loads its eis rows.
LeesEisen(r) ==
  /\ pc[r] = "gelezen"
  /\ huidig[r] # Geen
  /\ eisgelezen' = [eisgelezen EXCEPT ![r] = eisrijen[huidig[r]]]
  /\ pc' = [pc EXCEPT ![r] = "geladen"]
  /\ UNCHANGED <<kunstwerkBekend, tabel, versie, huidig, gepubliceerd, samenloop>>

\* Defective variant: the mark is committed in a transaction of its own.
MarkeerMetEigenCommit(r) ==
  /\ pc[r] = "geladen"
  /\ ~RijVergrendeld(huidig[r])
  /\ status' = [status EXCEPT ![huidig[r]] = "Vervangen"]
  /\ pc' = [pc EXCEPT ![r] = "gemarkeerd"]
  /\ UNCHANGED <<kunstwerkBekend, eisrijen, lokaal, gepubliceerd, samenloop>>

\* markeer_vervangen and save, flushed by the query that follows: the UPDATE
\* waits until no other open transaction has updated the row.
MarkeerVervangen(r) ==
  /\ pc[r] = "geladen"
  /\ ~RijVergrendeld(huidig[r])
  /\ pc' = [pc EXCEPT ![r] = "gemarkeerd"]
  /\ UNCHANGED <<kunstwerkBekend, tabel, lokaal, gepubliceerd, samenloop>>

\* The SELECT of next_version.
NeemVersie(r) ==
  /\ \/ pc[r] = "gemarkeerd"
     \/ pc[r] = "gelezen" /\ huidig[r] = Geen
  /\ versie' = [versie EXCEPT ![r] = NextVersion]
  /\ pc' = [pc EXCEPT ![r] = "genummerd"]
  /\ UNCHANGED <<kunstwerkBekend, tabel, huidig, eisgelezen, gepubliceerd, samenloop>>

\* Defective variant: the marked pakket is not saved.
CommitZonderSave(r) ==
  /\ pc[r] = "genummerd"
  /\ ~VersieBezet(versie[r])
  /\ status' = [status EXCEPT ![r] = "Vastgesteld"]
  /\ eisrijen' = [eisrijen EXCEPT ![r] = {r}]
  /\ pc' = [pc EXCEPT ![r] = "gecommit"]
  /\ UNCHANGED <<kunstwerkBekend, lokaal, gepubliceerd, samenloop>>

\* The committed status column once r's pakket is in force.
StatusNa(r) == [p \in Verzoeken |-> CASE p = r         -> "Vastgesteld"
                                     [] p = huidig[r] -> "Vervangen"
                                     [] OTHER         -> status[p]]

\* Defective variant: no delete-orphan, the replaced eis rows stay.
EisenNaZonderWissen(r) ==
  [p \in Verzoeken |-> IF p \in {r, huidig[r]} THEN eisrijen[p] \cup {r} ELSE eisrijen[p]]

\* The committed eis rows then.  Of the replaced pakket, the rows that were read are
\* deleted (one that is gone already is no error) and a new copy is inserted.
EisenNa(r) ==
  [p \in Verzoeken |-> IF p \in {r, huidig[r]} THEN (eisrijen[p] \ eisgelezen[r]) \cup {r}
                                               ELSE eisrijen[p]]

\* stel_vast, add, commit: INSERT of the new row, and all changes become visible.
\* An INSERT waits for an open one with the same version, so the order in which
\* they commit decides which of the two the constraint refuses.
Commit(r) ==
  /\ pc[r] = "genummerd"
  /\ ~VersieBezet(versie[r])
  /\ status' = StatusNa(r)
  /\ eisrijen' = EisenNa(r)
  /\ pc' = [pc EXCEPT ![r] = "gecommit"]
  /\ UNCHANGED <<kunstwerkBekend, lokaal, gepubliceerd, samenloop>>

\* Defective variant: __exit__ neither rolls back nor closes the session, so the
\* transaction stays open with its locks.
DraaiTerugZonderRollback(r) ==
  /\ pc[r] \in Open
  /\ UNCHANGED vars

\* uow.__exit__ with an exception, or the death of the process: a DomainError of
\* stel_vast (no eis), the IntegrityError of the constraint, a lost connection.
DraaiTerug(r) ==
  /\ pc[r] \in Open
  /\ pc' = [pc EXCEPT ![r] = "teruggedraaid"]
  /\ UNCHANGED <<kunstwerkBekend, tabel, lokaal, gepubliceerd, samenloop>>

\* Defective variant: the event of the replaced pakket is published.
PubliceerVorige(r) ==
  /\ pc[r] = "gecommit"
  /\ gepubliceerd' = gepubliceerd \cup {huidig[r]}
  /\ pc' = [pc EXCEPT ![r] = "klaar"]
  /\ UNCHANGED <<kunstwerkBekend, tabel, lokaal, samenloop>>

\* publisher.publish, after the transaction.
Publiceer(r) ==
  /\ pc[r] = "gecommit"
  /\ gepubliceerd' = gepubliceerd \cup {r}
  /\ pc' = [pc EXCEPT ![r] = "klaar"]
  /\ UNCHANGED <<kunstwerkBekend, tabel, lokaal, samenloop>>

\* The broker is unreachable (BlockingConnection raises) or the process dies
\* between commit and publish: nobody ever publishes this event again.
PubliceerMislukt(r) ==
  /\ pc[r] = "gecommit"
  /\ pc' = [pc EXCEPT ![r] = "onaangekondigd"]
  /\ UNCHANGED <<kunstwerkBekend, tabel, lokaal, gepubliceerd, samenloop>>

Stap(r) ==
  \/ WijsAf(r)
  \/ LeesHuidig(r)
  \/ LeesEisen(r)
  \/ MarkeerVervangen(r)
  \/ NeemVersie(r)
  \/ Commit(r)
  \/ Publiceer(r)

Next ==
  \/ RegistreerKunstwerk
  \/ \E r \in Verzoeken : Stap(r) \/ DraaiTerug(r) \/ PubliceerMislukt(r)

\* A request that has begun is run by its thread; a transaction the database
\* refuses (VersieBezet) is rolled back.  No request has to arrive, no kunstwerk
\* has to be registered, and nothing has to fail.
Weigering(r) == pc[r] = "genummerd" /\ VersieBezet(versie[r]) /\ DraaiTerug(r)
Voortgang(r) ==
  LeesEisen(r) \/ MarkeerVervangen(r) \/ NeemVersie(r) \/ Commit(r) \/ Weigering(r) \/ Publiceer(r)

Spec == Init /\ [][Next]_vars /\ \A r \in Verzoeken : WF_vars(Voortgang(r))

-----------------------------------------------------------------------------
(* Safety *)

\* next_version plus the unique constraint: whatever the interleaving, the
\* committed versions are distinct and have no gap below any of them (a version
\* number lost to a rollback is used again).
VersiesAaneengesloten ==
  /\ \A p, q \in Rijen : versie[p] = versie[q] => p = q
  /\ \A p \in Rijen : versie[p] >= 1
                      /\ \A n \in 1 .. versie[p] : \E q \in Rijen : versie[q] = n

\* get_current never answers with an outdated pakket: the highest version is
\* always Vastgesteld, although any number of transactions mark rows as Vervangen.
NieuwsteGeldt == \A p \in Rijen : HoogsteVan(Rijen, p) => status[p] = "Vastgesteld"

\* As long as no two requests for the pair overlapped, at most one pakket is
\* Vastgesteld: what get_current, markeer_vervangen and add achieve in sequence.
SerieelHoogstensEen ==
  ~samenloop => \A p, q \in Vastgestelde : p = q

\* implementatieplan line 194: at most one current pakket per kunstwerk and soort.
HoogstensEenVastgesteld == \A p, q \in Vastgestelde : p = q

\* Replacing a pakket rewrites its eis rows (_update_eisenpakket_model deletes and
\* inserts them): whatever the interleaving, no pakket loses its eisen, and the
\* rows of one in force are those its own request wrote.  Only overlapping
\* requests can leave a replaced pakket with more than one copy.
EisenBewaard ==
  /\ \A p \in Rijen : eisrijen[p] # {}
  /\ \A p \in Vastgestelde : eisrijen[p] = {p}
  /\ ~samenloop => \A p \in Rijen : \A c, d \in eisrijen[p] : c = d

\* A pakket leaves Vastgesteld only in the step that brings a newer version into
\* force, and never comes back; no pakket disappears.
VervangingIsDefinitief ==
  [][\A p \in Rijen :
       /\ p \in Rijen'
       /\ status[p] = "Vervangen" => status'[p] = "Vervangen"
       /\ status'[p] # status[p] =>
            \E q \in Rijen' \ Rijen : status'[q] = "Vastgesteld" /\ versie'[q] > versie[p]]_vars

(* Liveness *)

\* A transaction that holds or waits for a row lock comes to an end: no cycle of
\* waiting transactions, and no lock outlives its transaction.
ElkeTransactieEindigt ==
  \A r \in Verzoeken : pc[r] \in Open ~> pc[r] \in Eind
=============================================================================
