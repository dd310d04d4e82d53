# TLA+ models of the RWS services

This directory specifies and checks the behaviour of the four services of this
repository: **Beheer** (Python, FastAPI, SQLAlchemy), **Contract** (TypeScript,
Fastify, Prisma), **Onderhoud** (TypeScript, NestJS, TypeORM) and **Monitoring** (C#,
EF Core). Each has a PostgreSQL database of its own; they exchange events through
the RabbitMQ topic exchange `rws.events`. Three React frontends (the portal, and the demo
pages Regiekamer and Sven) call them over HTTP. TLC checks small instances; TLAPS proves
the safety results for every value of the constants.

Paths below are relative to the root of the repository. `PROJECT.json` links every
definition to the lines it models, every run to its properties, and every hazard to
the properties that watch it.

## 1. The system

### Components

| Component | State it keeps | Operations that change it | What makes it correct |
|---|---|---|---|
| Beheer, requirements | `eisenpakket` rows per kunstwerk and soort: version, status, eisen | `StelOnderhoudseisenVast`, `StelOntwerpeisenVast` | versions without gaps or duplicates; the newest is in force; one in force at a time; every transaction ends |
| Beheer, kunstwerken | `kunstwerk` rows: status, basic data | `RegistreerKunstwerk`, `WijzigKunstwerkBasisgegevens`, `StelKunstwerkBuitenGebruik` | a buitengebruikstelling is not undone by a stale save |
| Beheer, reports | `rapportage_beoordeling`, `verwerkt_event` | consumers of `monitoring.*` and `onderhoud.*` reports, `EisenValidator` | one assessment per event, against the requirements in force |
| Contract, tender | `Aanbesteding`, `Inschrijving` | `PubliceerAanbesteding`, `OntvangInschrijving`, `GunAanbesteding` | one contract per tender; no accepted inschrijving lost; EMVI picks a defensible winner; a gunning is announced exactly when its contract exists |
| Contract, contracts | `Onderhoudscontract`, `Wijziging`, `Prestatieverklaring` | `KeurWijzigingGoed`, `StelPrestatieverklaringOp`, `RondOnderhoudscontractAf` | value = initial value plus mutations; nothing after Afgerond |
| Contract, outbox and relay | `OutboxEvent`, the relay's batches, the channel | `publiceer`, `verwerkBatch` every second | at-least-once delivery, in causal order, without endless repetition |
| Contract, consumers | `BekendKunstwerk`, `Ontwerpeis`, `KpiRapport`, `VerwerktEvent` | handlers of `beheer.*` and `monitoring.*` | idempotent, insensitive to redelivery and order |
| Onderhoud | `onderhoud`, `storing`, `schema`, read models | ten use cases, three consumers; publishes without outbox | a storing and its traject agree; an afgerond contract does not come back |
| Monitoring | sessions, measurements, incidents, reports, outbox | use cases, consumers, a sequential relay | one running session per kunstwerk; counters match the rows; incidents go forward only |
| Frontends: demo pages | the status of eleven steps, ids between steps, rows and highlights | click, repeat, wait, Reset, reload, poll | a step shows done only when the services hold it; a prompt repetition never gets stuck |
| Frontends: portal | token, roles, user; copies of objects with the actions they allow | sign in, renew, sign out, refresh, act | a write carries a token and is offered with its role; a page is not older than its own last write, but for the situations `PaginaKlopt` names |

Health checks, configuration, migrations and compose files keep no state of the system
and are not modelled; see "Not modelled".

### How the components interact

* HTTP requests reach the use cases. In Node a request runs alone between two awaits,
  in FastAPI requests run in threads, in ASP.NET on a thread pool; in all of them two
  requests interleave at their database statements.
* The frontends hold copies of what the services answered. They poll, repeat requests that
  failed, and run beside other tabs and other users.
* Between services there are only events. Beheer and Onderhoud publish directly after
  their commit; Contract and Monitoring write an outbox row that a relay publishes.
  `docs/events.md` asks for at-least-once delivery and idempotent consumers.
* Consumers keep read models of other services' data and remember `eventId`s they
  have handled; use cases read those models for validation ("soepel" or "streng").

### What is hard

1. *Check, then save.* Every aggregate is read in one statement and written in another,
   without version columns: two requests can both pass a check that only one may pass.
2. *Several transactions in one use case.* Aggregate, second aggregate and events are
   saved one after the other; a failure in between leaves what was committed.
3. *The relay.* Its interval does not wait for the previous batch, its channel has no
   publisher confirms, and its order is that of a timestamp taken before a commit.
4. *Consumers.* Events are repeated, reordered and lost; deduplication is a read, a
   handling and a write.
5. *Screens.* Reads overlap and are answered in any order, an answer is lost although its
   request was carried out, a token expires between two clicks.
6. *Databases.* Row locks, unique constraints and READ COMMITTED decide which
   interleavings can commit.

`PROJECT.json` lists each of these at the line where it bites.

## 2. The modules

| Module | Models | Checked by |
|---|---|---|
| `BeheerEisen` | requirements in Beheer, statement by statement | `beheer_eisen`, `beheer_samenloop`, `BeheerEisen_proofs` |
| `Aanbesteding` | a tender in Contract with its contracts and outbox rows | `aanbesteding`, `aanbesteding_dubbel`, `aanbesteding_outbox`, `Contract_proofs` |
| `Bezorging` | abstract: what an outbox promises its readers | refined by `OutboxRelay` |
| `OutboxRelay` | the outbox table, the relay, the channel | `outbox_relay`, `outbox_atleastonce`, `Contract_proofs` |
| `Consument` | how Contract, Onderhoud and Monitoring consume events; no specification of its own | the three below, `Consument_proofs` (lemmas) |
| `ContractLeesmodellen` | the consumers of Contract and the read models they keep; extends `Consument` | `onderhoudscontract` |
| `Onderhoudscontract` | a contract with its requests and gunning, composed with `ContractLeesmodellen` | `onderhoudscontract`, `Onderhoudscontract_proofs` |
| `Onderhoud` | a traject with its storing, schemas, consumers and read models; extends `Consument` | `onderhoud`, `Onderhoud_proofs` |
| `Monitoring` | sessies, metingen, incidenten, rapporten, outbox, relay and consumer; extends `Consument` | `monitoring`, `Monitoring_proofs` |
| `Beheer` | the kunstwerk lifecycle, and the rapporten with their beoordeling | `beheer`, `Beheer_proofs` |
| `Demodiensten` | the four services as the demo pages meet them: operators on one record, no specification of its own | `frontends`, `Frontends_proofs` (lemmas) |
| `Demoroute` | the demo route of Regiekamer and Sven; extends `Demodiensten` | `frontends`, `Frontends_proofs` |
| `Verversing` | a list that is polled, invalidated and highlighted, for each of the three hooks | `frontends`, `Frontends_proofs` |
| `Portaal` | the session of one tab of the portal, and the check of its writes by a service | `frontends`, `Frontends_proofs` |
| `Portaalpaginas` | the pages of the portal that offer actions on an object | `frontends`, `Frontends_proofs` |
| `Frontends` | the four parts together: a behaviour is that of one of them | `frontends`, `Frontends_proofs` |
| `MC...` | the instances TLC checks | |

Each module also holds *defective variants* of some operators, marked as such: the
operator as a plausible bug would have it. No specification uses them; replacing the
real operator by its variant must violate the property named in `PROJECT.json`
("mutants"), which shows that the property depends on that piece of code.

### BeheerEisen

A request is a PostgreSQL transaction at READ COMMITTED. `LeesHuidig` is
`kunstwerken.get` and `get_current`; `LeesEisen` is the read inside `save`, which loads
the eis rows of the pakket; `MarkeerVervangen` is the UPDATE of `markeer_vervangen` and
`save`, which the session flushes before the SELECT of `next_version` and which waits
for a row lock (`RijVergrendeld`); `NeemVersie` is that SELECT; `Commit` is the INSERT,
refused when the version exists (`VersieBezet`, the constraint `uq_eisenpakket_versie`),
and the commit that makes everything visible together: the mark (`StatusNa`), the new
row, and the eis rows of the replaced pakket, deleted as read and inserted anew
(`EisenNa`). What an eis says is abstracted: `eisrijen` holds, per pakket, the copies of
its eis rows that are committed, each named by the request that inserted it.
`DraaiTerug` is any exception inside `with uow`. `Publiceer` and `PubliceerMislukt` are
the two outcomes of publishing after the commit. `status` and `versie` are the
committed table; a pakket is named by the request that makes it. One kunstwerk and one
soort suffice, because every query and the constraint are restricted to the pair.

`samenloop` is a history variable: has a request read while another was open? The
guarantees that the code gives only to requests that do not overlap are stated under
`~samenloop`.

### Aanbesteding

A request moves from await to await: `zoek` is two SELECTs (`LeesRij`,
`LeesInschrijvingen`), then `ControleerKunstwerk` for a gunning, `Bewaar...`, for a
gunning also `BewaarContract`, and `Publiceer`, a transaction of its own. `gelezen` and
`gezien` are the aggregate in memory, which `bewaar` writes back whole. `Breek` ends a
request at any await, or between the saves of a gunning when `Contractperiode.van`
refuses the looptijd. `Winnaars` is the EMVI ranking, on integers (prices in cents,
scores multiplied out): the rounding of floating-point division, which could turn a
strict difference into a tie, is not modelled. The read model
behind `isBekendEnInGebruik` is written by a consumer at any time, so it may answer
either way.

### Bezorging and OutboxRelay

`Bezorging` is the promise: an event whose row is committed reaches the exchange at
least once or is explicitly given up (`kwijt`), and never before an event of an earlier
millisecond whose row was already committed when it came about. `OutboxRelay` is the code:
`BeginSchrijven` and `CommitSchrijven` (a createMany takes its timestamp before it becomes
visible), `TikKlok` (the column is a `TIMESTAMP(3)`, so that any number of calls fit between two
ticks; `Gelijktijdig` is what came about since the last one),
`PakOnverzonden`, `PubliceerRegels` (the synchronous loop; `publish` answers false from
the message that fills the buffer on), `MarkeerVerzonden`, the failures of both
(`KanaalDicht`, `MarkerenMislukt`), and the connection: `Bezorg`, `VerbindingWeg`,
`Herstart`. `Batches` are overlapping calls of `verwerkBatch`. The refinement mapping
takes `geschreven` to the committed rows, `gelijktijdig` to `Gelijktijdig`, and the other
variables to themselves. `pakOnverzonden` orders by the timestamp alone: events of one
millisecond, of one call or of several, may be delivered in the reverse of the order in which
they came about, and `Bezorging` promises nothing about them.

### Consument

Three services handle a message in the same way, and the module says it once. A delivery
`d` is a copy of an envelope: `Kopieen` is 2 for what an outbox relay may publish twice.
`Verwerk` is the dispatch and `isVerwerkt`, `PastToe` the store of the handler (each
service adds what it writes), `MarkeerVerwerkt` an INSERT in the table of handled events
(Prisma, EF Core), `BewaarVerwerkt` a TypeORM `save`, `Ack` and `Nack` the two ends: a
handler that throws nacks without requeue. `LeverOpnieuw` is what the broker does when
the process dies. With amqplib and no prefetch the handler of the next message starts
while the previous one waits for its database (`Gelijktijdig`); the C# consumer awaits.
`AanDeBeurt` keeps a queue first in, first out, in the order (`Rang`) in which the exchange
received the messages. Two histories: `toegepast` (whose handling took effect) and `overlap`
(did a handler start while one of its queue was at work).

### ContractLeesmodellen and Onderhoudscontract

Three queues fill `inGebruik` (`BekendKunstwerk`), `ontwerpeis` and the KPI rows, whose
order by `ontvangenOp` is that of their first insert. `KpiScore` is `vertaalNaarKpiScore`
with its clamp and `Math.round`. A buitengebruikstelling also calls `onBuitengebruik`
(`Zoek`, `SignaleerContract`) before it is marked.

The requests of `contract-routes.ts` on one contract are its three SELECTs (`LeesRij`,
`LeesWijzigingen`, `LeesPrestaties`), for a prestatieverklaring the last KPI score
(`BepaalScore`), `Bewaar` (the method of the aggregate and the transaction that writes
back the row and both lists) and `Publiceer`. `GunContract` is the part of
`GunAanbesteding` that concerns the contract; its tender is in `Aanbesteding`. `Breek` is
an exception at any await, `WijsAf` a `DomeinFout`. The two halves meet in
`ControleerKunstwerk` (strict validation reads what the consumer wrote), `BepaalScore` and
`SignaleerContract`.

### Onderhoud

A traject with its inspecties and facturen, the storing it answers, the schemas. `Zoek` is
one query with its eager relations; `save` of TypeORM is a SELECT (`Vergelijk`) and a
transaction (`Schrijf`) that writes the columns in which the copy differs from what that
SELECT found, inserts the new children, and fails when a child it read is not in the copy
(`KindOntbreekt`: TypeORM sets its foreign key to NULL, and the column refuses it).
`MeldStoring` and `RondOnderhoudAf` save two aggregates and then publish straight to the
channel; each await is a step and may fail (`BreekVerzoek`). Who did what is in the rows:
`start` and `resultaat` hold the request that filled `gestartOp` and `resultaat` in.
The consumers write `inGebruik`, `eisen` and `contract`, and a zwaar incident plans a
traject of its own (`PlanTraject`; `diagnoses` counts them).

### Monitoring

`Bewaak` is the check of the kunstwerk, `StartSessie`, `Meet` and `Wijzig` load an aggregate
and apply its method, `Vind` and `Schrijf` are `FindAsync` and `SaveChanges` of
`BewaarAsync`: `SetValues` writes the columns in which the copy differs from the row found.
A meting goes on with `VoegToe`, `MaakIncident` and `PubliceerAsync`, each a transaction. A
rapport reads metingen and incidenten in two queries. `PubliceerAsync` takes its timestamp
(`Stempel`) before its row is visible (`Commit`). `VerwerkBatch` is the relay: one batch
after the other, publish, then mark; `BreekRelay` is the catch of its loop. What is left of a
batch is a set, of which the row that entered the outbox first (`Ouder`) goes next: the rows a
query returned in the order of their timestamps. `Ernst` is
`AnalyseService` on integers (the quotient of value and threshold, multiplied out).

### Beheer

A request is a transaction at READ COMMITTED: `Lees` (`get` and the method of the
aggregate), `Herlees` (the `session.get` inside `save`), `Schrijf` (the UPDATE of the columns
that differ, at commit) or `Voeg` (the INSERT), then `Publiceer`, outside the transaction.
`StelEisenVast` is one step here; `BeheerEisen` is its detail. Each queue has one thread, which
handles one message at a time: `Controleer` (envelope, deduplication, kunstwerk), `Beoordeel`
(`get_current` and the validator), `LegVast` (beoordeling and verwerkt_event in one commit),
`Ack`. A lost connection ends the thread (`Verbreek`) and nothing but a new start of the
service (`Herstart`) makes another. `Rapportwaarden` is the conversion of a rapport to
values by name, `Validator` is `EisenValidator.beoordeel`.

### The frontends

`Demoroute` is a small interpreter: `RegiekamerStap1` ... `SvenStap11` list the requests of each
step and how a failure of each is taken, and `Voer`, `Verlies`, `VolgendeVraag`, `NogEens`,
`StapKlaar` and `StapMislukt` are the loop that carries them out (`requestJson`, `retryJson`,
`waitForRows`; `request` and the loops of the steps at Sven). `Verlies` is a request that does not
arrive, an answer that does not come back, or a publication that fails after the commit. The
services are one record (`Demodiensten`), each request one step on it, because what several
requests do to a service is the subject of the other modules; their events wait in `bus` until
`Bezorg`. "Start gouden route", `Reset` and `Herlaad` replace the ids the steps remember, also
under a step that still runs.

`Verversing` numbers the rows of a list and lets reads begin and end in any order; `hook` is
which page polls (`usePolling` of the Regiekamer, `useNewRows` of Sven, React Query in the
portal), and the highlight of a row ends by the timer the code leaves in place (`Wisser`). At
Sven the next answer without new rows stops that timer (`gestopt`): polls come every two seconds,
the timer is of two and a half, so that a highlight stays until there are other new rows. The
Regiekamer keeps rows by the keys of their list and `LiveList` looks them up without
(`sleutels`): where the two ids differ, in five of its lists, no row is highlighted.

`Portaal` has what a tab keeps in two places, the token of `oidc.ts` and the user of `auth.tsx`,
and the storage it shares with other tabs. Tokens are numbered; Keycloak issues them, lets them
expire and changes roles. `Oordeel` and `Bewaak` are the check of a write at Contract and at
Onderhoud. `Portaalpaginas` has an object of one of six kinds with the copy the page shows; the
actions offered for the copy (`TrajectAanbod` ... ) are compared with those the aggregate accepts
(`TrajectAanvaardt` ... ), while other users and events change it. `klaar` is what
`invalidateQueries` does for a query that is mounted or not, with a copy or without; `Weg`,
`Terug` and `Vergeet` are the user leaving the page, coming back, and the cache dropping what
nobody shows. After a failed read the pages of one object show the error, those of sessies and
incidenten (`Lijstpaginas`) the rows they have with their buttons; there a button is disabled only
while the last write was for its own row (`knop`, `KlikAndereRij`). `eigen` is the newest version
an acknowledged write made, and `doorgelopen` says that it was acknowledged while an older
answer was on its way which nothing cancelled: before the first copy, or with the page left.
A write of the portal to the same object from another page counts as that of another user.

### What the parts assume of each other

A consumer's module takes the messages as given: their order at the exchange is `Rang`, a
message may be published twice (the relays are at least once, which `OutboxRelay` shows for
Contract) or not at all (every subset of the messages is an instance). Beheer and Onderhoud
publish once. Monitoring's rapporten may reach Beheer in any order, because two requests at
Monitoring may.

## 3. The runs

| Run | Instance | What it shows |
|---|---|---|
| `beheer_eisen` | 3 requests | versions are 1, 2, ... for every interleaving; the newest pakket is in force; rewriting the eis rows of a replaced pakket loses none and leaves the one in force alone; without overlap one pakket is in force and none has its eis rows twice; every transaction ends |
| `beheer_samenloop` | 3 requests | finding: two overlapping requests leave two pakketten in force |
| `aanbesteding` | 2 inschrijvers, 2 gunners, "streng" | an announced gunning has its contract and its winner; a Gegund tender without one is explained; EMVI never prefers a dominated offer; without overlap a tender has one contract and loses no inschrijving; only a failure keeps a gunning from being announced |
| `aanbesteding_dubbel` | same | finding: two overlapping gunningen make two contracts |
| `aanbesteding_outbox` | same | finding: the outbox is not in the transaction of the contract |
| `outbox_relay` | 3 events in 2 writes, in one millisecond or two, 2 batches, limit 2, 1 fault | the relay implements `Bezorging`; every row is marked in the end |
| `outbox_atleastonce` | same | finding: a row is marked while its message can still be lost |
| `onderhoudscontract` | any 3 of 5 requests and 8 deliveries, "streng", 1 fault | without overlap, value and lists agree; what is acknowledged was handled and marked; the read models show the last message; an active contract is signalled or its gunning was overtaken; everything ends |
| `onderhoud` | any 3 of 12 requests and 8 deliveries, "streng", 1 fault | no accepted inspectie or factuur is lost; storing and traject agree or a broken afronding explains it; a zwaar incident plans one traject; the read models show the last message |
| `monitoring` | any 3 of 13 requests and 2 deliveries that touch the same data, the relay, "streng", 1 fault | one sessie runs, its count matches its metingen; opgelost does not overtake aangemaakt; a rapport lists the metingen of its incidenten, and the heaviest is the heaviest |
| `beheer` | any 4 of 6 requests, or of registraties, 3 sets of eisen and 5 deliveries, 1 fault | without overlap the row is what the requests make of it one by one and their events come in order; one beoordeling per rapport, through lost connections and restarts; what it says follows from the rapport and a set of eisen that was in force |
| `frontends` | two steps of a route at a time, each request asked at most twice, two disturbances; 3 rows, 2 overlapping reads; 3 tokens; an object with 3 versions and 2 writes under way | a demo step shows done only when the services hold what it says; an undisturbed route is only ever refused because an event is still on its way; what is highlighted is new, in the lists that highlight at all, and has its timer until something stops it; a write from the portal has a token whose roles are those on the screen, except in the situations the property names; what a page offers is refused only because the object changed or where the page does not look, and it falls back behind its own last write only in the situations `PaginaKlopt` names |

Where a property has `~samenloop` or `~overlap` in front, the code gives no guarantee to
requests or handlers that overlap, and the model shows the losses: `PROJECT.json` lists them
as hazards. What has neither holds for every interleaving: among it, of `RegisterKlopt` the one
accepted registratie, `DossierKlopt` and `NietsVergeten` entirely.

**Bounds.** Three requests are the fewest with a first version, a replacement and an
overlap in one behaviour. Two gunners and two inschrijvers give every pair of
overlapping requests; the offers are such that one beats the other on price and
quality, so the wrong order of sorting is visible ("streng" includes every outcome of
"soepel"). Two batches are the overlap the interval causes; a limit of 2 on 3 events
leaves one row for a later batch; two writes, one of them with two events, with or without a
tick of the clock between them, give different and equal timestamps, within a call and between
two. `MaxFouten = 1` allows one full buffer, failed UPDATE,
lost connection or crash anywhere; a restart that follows a lost connection is not
counted. In the service models `verkeer` chooses, in the initial
state, at most `MaxVerkeer` of the requests and deliveries of the instance: each behaviour
sees three or four of them, the run all combinations. Three are enough for every pair that
overlaps plus one request or message that prepares for it, or comes after; Beheer takes four,
for two sets of eisen before two copies of a rapport. The same initial condition leaves out
combinations in which nothing reads what the other writes (an inspectie never looks at a read
model), as their steps commute. Some initial states have an earlier sessie, traject, contract or
kunstwerk (in use, or put out of use), so that the requests that need one have it. `MaxFouten = 1` allows one database error, lost
connection, failed batch or crash at any step. Values are chosen around the limits: a value
equal to its grens, a factor of exactly 2, a mutation that makes a contract negative, a score
above 100, half a percent to round. `onderhoudscontract` and
`onderhoud` interleave handlers, `monitoring` does not, as the clients do. In `frontends` a
disturbance is a failed request or a
click off the route: two are a lost answer and the repetition that meets its effect, or a Reset
under a running step and the click that follows it. On Sven's page, where any button can be
clicked at any time, an action constraint (`TweedeIngreep` of MCFrontends) keeps of two clicks off the route
those that leave a step of before a Reset running. Another one (`PaginaVerlaten`) keeps the run within its time: a
page of the portal is left with one write under way, the case that `doorgelopen` is about, and those
of a traject, a contract and an aanbesteding, which have the most actions, once the service has done
it. The theorems know no such bounds. Two steps at a time are a step and the one
that overtakes it. Three versions of an object are the one a page read, a change of somebody
else or of its own, and one more that makes that stale. Three tokens are that of another account, its successor and one of another
tab; the session is checked for one service, since a tab treats its services alike and apart.
Two reads can pass each other, and a third row tells a row that came back from a new one.
Deadlock checking is
off because the systems do stop: every request of the instance ends, every row is sent.

**Fairness.** BeheerEisen and Aanbesteding: weak fairness of the steps of a request that
has begun, because threads and awaits go on; nothing makes a request arrive or a failure
happen. The rollback of a transaction that the constraint refuses is fair too.
OutboxRelay: the batches (an interval), the socket of an open connection, and the
restart of a service that has lost its channel. The last is an assumption about its
operators: nothing in the service reconnects, and `docker-compose.yml` sets no restart
policy. Without it the rows simply stay, which is not what the properties are about.
Onderhoudscontract: weak fairness of `Voortgang`, some step of a request that has begun or of a
delivery; awaits return and the broker delivers. Onderhoud, Monitoring, Beheer and Frontends state no
fairness and no liveness: a rapport may wait for ever in a queue of Beheer whose thread has
ended, and an event of Onderhoud or Beheer whose publication failed is gone; nothing in the
repository promises otherwise.

## 4. The proofs

Forty-three theorems, in seven modules, and the lemmas of `Consument_proofs` that three of
them share. Each is about the specification of a component for every value of its constants:
any set of requests, events and messages, any number of faults, any batch size. In every module
one inductive invariant carries the theorems of a specification; TLC checked each of them as an
invariant of the component's run before it was proved. Every invariant that a passing run checks
is also a theorem.

* `BeheerEisen_proofs`: types; `VersiesAaneengesloten`, `NieuwsteGeldt`,
  `VervangingIsDefinitief` for all interleavings; `SerieelHoogstensEen`. The invariant
  behind the versions (`Genummerd`) says that a number a request holds is 1 or follows the
  version of some row: because the versions have no gap, a number that the constraint
  admits at commit is then higher than all of them, however much later that is. In
  sequence, what a request has read as current is what still is (`SerieelInv`), and the
  eis rows it has read are all there are (`EisenInv`), which gives `EisenBewaard`.
* `Contract_proofs`, of `Aanbesteding`: types; `GegundEventHeeftContract`, `GegundVerklaard` and
  `WinnaarNietGedomineerd` for all interleavings and failures; `SerieelConsistent` and
  `GeslotenNaGunning`. `GunningInv` records which saves and events go with each place a
  gunning can be in; `PublicatieInv`, that nobody has read a tender that does not exist;
  `SerieelInv`, that without overlap what a request has read is what the tables still
  hold. The EMVI result rests on `Afweging`, an inequality about products, which holds
  for every pair of weights because at least one of them is positive.
* `Contract_proofs`, of `OutboxRelay`: types; a row that is marked is at the exchange, in the buffer or lost;
  and the safety part of the refinement (`Veilig` of `Bezorging`): the initial states map to
  initial states, and each step to a step or a stutter. A delivery is allowed by
  `Bezorging` only when everything that precedes it has been delivered or lost, so the invariant
  says that the buffer holds a message's predecessors before it (`BufferKlopt`), hence that the
  rows a batch has read are closed under "precedes" in its order (`BatchKlopt`), hence that
  what precedes an event has an earlier timestamp (`TijdKlopt`, which events of one millisecond
  do not enter) and that a row no batch will read
  was put on the connection (`VerzondenKlopt`). Overlapping batches keep it: a second copy is
  never the first of its message.
* `Consument_proofs`: `LeveringInv` and the lemmas by which each step of a delivery keeps it.
  `MarkeringKlopt`: what is marked was handled, what is acknowledged was marked.
  `VolgordeKlopt`: as long as no handlers overlapped, one delivery of a queue at most is at
  work, its event is not marked yet, and what comes before it, or before a message that was
  handled, is marked or will not come any more (`Voorbij`). `NieuwsteIsLaatste` is what the services use: a handler that writes applies the last
  message of its queue so far.
* `Onderhoudscontract_proofs`: the five invariants of the run. `LezingKlopt` says that without
  overlap one request at most has a copy, which agrees with the three tables as far as it was
  read; with it every save keeps `WaardeKlopt`. `SignaalKlopt` follows a buitengebruikstelling
  from its store over `Zoek` to its mark: no gunning has then checked the kunstwerk and not
  yet been saved. `Som` is a fold, so that adding a mutation adds its amount needs that the
  recursive function exists and does not depend on the order in which `CHOOSE` takes the
  elements: that is proved by a minimal counterexample over the finite subsets, since no
  induction theorem can be used. `ContractLooptNietTerug` needs nothing more: without overlap
  every save has a copy that agrees with the tables and was found Actief.
* `Onderhoud_proofs`: the five invariants of the run. `DossierKlopt` holds for every overlap,
  although rows are written back from stale copies, for two reasons that `RijInv` states: a
  copy holds no child that is not in the rows, and TypeORM writes only the columns that differ
  from what `save` reads back, so that a copy that is behind inserts and never deletes.
  `AfrondingInv` follows an afronding from the save of the traject to that of the storing.
  `PlanInv` bounds the trajecten of an incident by the copies that were handled and the runs
  of the process, which with `LeveringInv` leaves one when nothing overlaps or fails.
  `TrajectLooptNietTerug` is the same argument for a step: through every overlap a started
  traject stays started and keeps its children; that it is not reopened needs `AlleenInv`.
* `Monitoring_proofs`: the four invariants of the run. `PlaatsInv` and `AantalInv` say what the
  place of a request implies for its copy; `AlleenInv`, what a request that has a sessie to
  itself knows of it, for `SessieKlopt`. `IncidentVerteld` follows two events over four
  places: from meting to outbox (`IncidentInv`, `OutboxInv`), and from the order of their
  rows to that of a batch and to the exchange (`VolgordeInv`). `RapportInv` says of a rapport
  that is being made what `RapportKlopt` says of one that was saved. The proof does not use the
  bounds that `Init` puts on what one behaviour combines. `AfgerondeSessieBlijft` says that
  without overlap no save touches a sessie that ended.
* `Beheer_proofs`: the four invariants of the run, and that no step withdraws a beoordeling.
  `RegisterInv` gives each place of a request what it knows of the row: of all registraties that
  overlap only the one whose INSERT came first can be accepted, and a request that had no overlap
  holds what the row holds, so that the row is the accepted requests applied one by one.
  `RapportInv` follows a delivery over its thread: a beoordeling and the verwerkt_event are one
  commit, one delivery of a queue at most has a thread, and a connection that is lost before the
  ack leaves what was committed, which the deduplication of the next copy finds. `PakketInv` says
  that the pakket a delivery has read stays where it was in the history, so that the verdict is
  that of a pakket in force during the handling. `Rapportwaarden` is a recursive function over the
  measurements: that it exists is proved by a least counterexample, and what it holds for a name
  (the last value that carries it, `LaatsteWaarde`) from it, for every rapport.
* `Frontends_proofs`: `TypeOK`, `SchermKlopt`, `FoutIsTeVroeg`, `SchrijfMetRol`, `PaginaKlopt` and
  `FlitsKlopt`. Each part has an invariant of its own, and a step of the whole is a step of one
  part. That token and user agree (`SchrijfMetRol`) depends on how far the page has loaded; that a
  page does not go back, on every copy being one of some version of the object (`KopieVan`) and on
  what a read under way holds against the writes that were acknowledged (`LezingKlopt`); the
  highlights, on what `vorige` holds that is not shown.

  The demo route is an interpreter of 22 lists of requests. What the proofs need of the lists is
  said once (`PastBij`, `PlaatsBij`, `DraaiboekPast`: where each kind of request stands), and what
  they need of the services once for each request (`UitvoeringKlopt`): nothing that was done is
  undone (`Later`), and an accepted request leaves what it is for. `SchermKlopt` then rests on
  `Bewezen`: every request of a step that was answered so that the step went on has left its
  trace, also when the answer was lost and the request repeated. Step 11 shows done because its
  gunning was refused, for which its aanbesteding must not be gunned before
  (`NogOngegund`, `EigenInkoop`: no two runs of step 11 share one). `IdsBekend` is why the
  Regiekamer never lacks an id; `OpVolgorde` and `VanDezeRoute` are what an undisturbed page
  adds: one step at a time, in order, with the ids of this route.

  `FoutIsTeVroeg` needs the other direction, that nothing is in the way: `NietVooruit`, that
  what can be granted once (the registratie, the sessie, the gunning, the start of a traject, the
  oplossing) has not happened before the route asks for it; `Verricht`, that a step finds what its
  own requests left; and `Aangekomen`, that what one service knows another was told, or an event
  about it is on the bus. Each refusal and each empty list (`WeigeringIsTeVroeg`,
  `GeenRijIsTeVroeg`) then has its event still under way.

**Assumptions.** Those that the modules declare, which TLC evaluates in the runs:

* request sets of one component are disjoint, and no request is a delivery or a special value
  (ids are uuids);
* `Rang` is injective: the exchange receives one message after the other. Only the outbox
  relays repeat (`Kopieen`), and at most once: Contract's and Monitoring's messages;
* calls of `publiceer` write distinct events, and finitely many (`OutboxRelay`); there are finitely
  many wijzigingen and metingen, because their sum and their number are taken;
* a registratie says the naam and status of its kunstwerk, a pakket has eisen, and an entry of a
  rapport is a number, a sensor or a text (`Beheer`; the HTTP schemas and the envelope refuse the
  rest); at most two copies of a rapport;
* the bounds of the frontends are numbers (`MaxLopen`, `MaxPogingen`, `MaxTokens`, ... ); the
  theorems hold for each;
* offers are natural numbers, the weights are natural and sum to 100
  (`Gunningscriteria.van`); an outcome of a KPI rule is a number or absent;
* one gunning per contract, which has a fresh id (`Onderhoudscontract`); in `Onderhoud`, by `Init`,
  one melding or diagnose that makes the traject, for the same reason. The gunningen of one
  tender are in `Aanbesteding`, any number of them.

Four things came out of the attempts. `GesignaleerdOfIngehaald` does not hold of a
buitengebruikstelling that a later registratie follows: it is about the end of the kunstwerk for
good (`Uitgebruik`). And messages with equal `Rang` have no last one, so that `VolgtDeVolgorde`
asks for an injective `Rang`. Two arms of the CASE of `Bezorgd` both held of a kunstwerk that
Contract is told of; TLC takes the first, the language either. And a conjunct of `SchermKlopt` stood so far to the
right that it belonged to the premise of the one before it: the proof of the stronger property
showed that the run had checked less than was meant; it now checks all of it.

Some results are proved and not part of a run: `GeslotenNaGunning` (a tender that was gegund
stays so), `VervangingIsDefinitief` (a pakket is replaced once, by a newer one),
`BeoordelingBlijft` (a beoordeling is not withdrawn), `AfgerondeSessieBlijft`,
`ContractLooptNietTerug` and `TrajectLooptNietTerug` (what is done in a sessie, a contract, a
traject is not undone), the row that is accounted for, and the safety part of the refinement.
The three about rows that do not go back were checked by TLC on the instances of the runs
`monitoring`, `onderhoudscontract` and `onderhoud` before they were proved.

**Model-checked only.** Liveness and fairness, which are outside TLAPS's reach:
`ElkeTransactieEindigt`, `GunningLeidtTotContract`, `ElkeRegelWordtGemarkeerd`, `AllesEindigt`, and
the liveness of `Bezorging` in `ImplementeertBezorging`; and the findings, which are
counterexamples. That an event on the bus is delivered in the end, so that a step of the demo
that asks again succeeds, is liveness too, and `Demoroute` states no fairness.

## 5. Not modelled

* **Parts of the frontends**: the context-map of Sven with its arrows and timers, the health
  badges, toasts, layout and wording; the forms that only create an object, and the pages that
  only show one, which add nothing to `Verversing` and `Portaal`. The demo pages send no token:
  `Demoroute` is the system with AUTH_ENABLED=false.
* **Health checks, configuration, HTTP schemas**: they admit or refuse a request before it
  reaches a use case, and change nothing. Requests of the service models are those admitted.
* **Migrations, compose files, infrastructure**: run before the services; the constraints they
  create (primary keys, `uq_eisenpakket_versie`, NOT NULL columns) are guards in the modules.
* **Data**: averages and texts of a rapport, names, locations, periods beyond "inside or
  outside the looptijd", floating point. `onderhoud.afgerond` carries its resultaat as a text,
  from which `_extract_numeric_values` takes nothing: an onderhoudsrapport is never given values.
* **Clock ties of Monitoring**: timestamps of its different requests differ. For Contract, ties
  within a call of `publiceer` and between calls are in `OutboxRelay`.
* **Signing out elsewhere**: `Portaal` has the other tabs, but no event of theirs reaches a tab,
  whatever the comment at `src/frontends/portal/src/auth/auth.tsx:119` says; the tab keeps its user
  until its token expires, and `SchrijfMetRol` does not claim otherwise.
* **Loss on the channel of Monitoring**: the channel without confirms is modelled for the relay of
  Contract only. `Monitoring` ends at the exchange.
* **Queries** (lists and dashboards) change nothing.

## 6. Plan

What the plan of this project named is modelled, checked and proved, but for these:

1. Monitoring's relay as a second implementation of `Bezorging`, in place of `IncidentVerteld`,
   which follows two kinds of event only. Its channel, without confirms, has to be modelled first,
   as in `OutboxRelay`.
2. Steps that do not go back for an incident (Opgelost), a factuur (Goedgekeurd) and a storing: they
   hold without overlap, and need an invariant like `AlleenInv` for each.
3. Liveness of the demo route: that a step which asks again ends well when the bus delivers. It
   needs a fairness condition on `Bezorg` that the repository does not state: no service reconnects
   by itself.
4. `waitForRows` and `retryJson` with their times: a route that is refused because an event is
   still on its way depends on how long the pages wait, which has no counterpart in the models.
