----------------------------- MODULE OutboxRelay -----------------------------
(***************************************************************************)
(* The outbox table of the Contract service and the relay that brings its   *)
(* rows to rws.events: contract/src/infrastructure/messaging/outbox-        *)
(* relay.ts, db/prisma-outbox-store.ts, db/prisma-outbox-event-publisher.ts *)
(* and the amqplib channel they publish on.                                 *)
(*                                                                         *)
(* setInterval starts verwerkBatch every second whether or not the previous *)
(* call has returned, so calls overlap at their two awaits (the SELECT and  *)
(* the UPDATE); the publish loop between them is synchronous.  The channel  *)
(* has no publisher confirms: publish puts the message in the socket's      *)
(* write buffer and answers whether that buffer is still below its          *)
(* watermark; the message is in the buffer either way.                      *)
(***************************************************************************)
EXTENDS Naturals, FiniteSets, Sequences

CONSTANTS
  Events,      \* envelopes, by eventId
  Groepen,     \* Groepen[n]: the events the n-th call of publiceer hands over
  Batches,     \* bound: the calls of verwerkBatch that can overlap
  Limiet,      \* batch = 50
  MaxFouten    \* bound: database errors, full buffers, lost connections, restarts

ASSUME GrenzenAssumption == Limiet \in Nat \ {0} /\ MaxFouten \in Nat

\* eventIds are fresh: no two calls write the same event.
ASSUME GroepenAssumption ==
  /\ Groepen \in Seq(SUBSET Events)
  /\ \A m, n \in 1 .. Len(Groepen) : m # n => Groepen[m] \cap Groepen[n] = {}

\* Finitely many calls, each of which hands over an array.
ASSUME EindigAssumption == IsFiniteSet(Events)

VARIABLES
  rij,          \* rij[e]: "Ontbreekt", "InTransactie" or the gepubliceerd column of e's row
  aangemaaktOp, \* aangemaaktOp[e]: the column's default now()
  geroepen,     \* the calls of publiceer so far
  klok,         \* the clock of now(), in the milliseconds that TIMESTAMP(3) keeps
  batch,        \* where batch call l is
  regels,       \* regels[l]: the rows it read
  verzonden,    \* verzonden[l]: those for which publish answered true
  buffer,       \* the write buffer of the connection, first in first out
  verbonden,    \* is the channel open?
  bezorgd,      \* the events that reached the exchange at least once
  fouten,       \* the faults so far
  eerder,       \* history: eerder[e] = the events of earlier milliseconds that were committed
                \* when e came about
  kwijt         \* history: marked as sent, but neither at the exchange nor on its way

relayVars == <<rij, aangemaaktOp, geroepen, klok, batch, regels, verzonden, buffer, verbonden,
               bezorgd, fouten, eerder, kwijt>>

tabel  == <<rij, aangemaaktOp, geroepen, klok, eerder>>
relay  == <<batch, regels, verzonden>>
broker == <<buffer, verbonden, bezorgd>>

Elementen(s) == {s[i] : i \in 1 .. Len(s)}

Geschreven == {e \in Events : rij[e] \in {"Onverzonden", "Verzonden"}}

RelayTypeOK ==
  /\ rij \in [Events -> {"Ontbreekt", "InTransactie", "Onverzonden", "Verzonden"}]
  /\ aangemaaktOp \in [Events -> Nat]
  /\ geroepen \in 0 .. Len(Groepen)
  /\ klok \in Nat
  /\ batch \in [Batches -> {"rust", "geladen", "gepubliceerd"}]
  /\ regels \in [Batches -> Seq(Events)]
  /\ verzonden \in [Batches -> SUBSET Events]
  /\ buffer \in Seq(Events)
  /\ verbonden \in BOOLEAN
  /\ bezorgd \subseteq Events
  /\ fouten \in 0 .. MaxFouten
  /\ eerder \in [Events -> SUBSET Events]
  /\ kwijt \subseteq Events

RelayInit ==
  /\ rij = [e \in Events |-> "Ontbreekt"]
  /\ aangemaaktOp = [e \in Events |-> 0]
  /\ geroepen = 0
  /\ klok = 0
  /\ batch = [l \in Batches |-> "rust"]
  /\ regels = [l \in Batches |-> <<>>]
  /\ verzonden = [l \in Batches |-> {}]
  /\ buffer = <<>>
  /\ verbonden = TRUE
  /\ bezorgd = {}
  /\ fouten = 0
  /\ eerder = [e \in Events |-> {}]
  /\ kwijt = {}

\* A step that changes rij, buffer or bezorgd keeps the account of lost events.
HoudKwijtBij ==
  kwijt' = kwijt \cup {e \in Events : /\ rij'[e] = "Verzonden"
                                      /\ e \notin bezorgd'
                                      /\ e \notin Elementen(buffer')}

Fout == fouten < MaxFouten /\ fouten' = fouten + 1

-----------------------------------------------------------------------------
(* PrismaOutboxEventPublisher.publiceer: one createMany for the events of a   *)
(* request; they share a timestamp, taken before the transaction commits.     *)

\* The events that came about in the current millisecond: their rows have one timestamp.
Gelijktijdig == {e \in Events : rij[e] # "Ontbreekt" /\ aangemaaktOp[e] = klok}

\* Time goes by.  Milliseconds are told apart while events come about in them and more are
\* to come.
TikKlok ==
  /\ Gelijktijdig # {} /\ geroepen < Len(Groepen)
  /\ klok' = klok + 1
  /\ UNCHANGED <<rij, aangemaaktOp, geroepen, eerder, relay, broker, fouten, kwijt>>

BeginSchrijven ==
  /\ geroepen < Len(Groepen)
  /\ geroepen' = geroepen + 1
  /\ rij' = [e \in Events |-> IF e \in Groepen[geroepen'] THEN "InTransactie" ELSE rij[e]]
  /\ aangemaaktOp' = [e \in Events |-> IF e \in Groepen[geroepen'] THEN klok ELSE aangemaaktOp[e]]
  /\ eerder' = [e \in Events |-> IF e \in Groepen[geroepen'] THEN Geschreven \ Gelijktijdig ELSE eerder[e]]
  /\ UNCHANGED <<klok, relay, broker, fouten, kwijt>>

CommitSchrijven(n) ==
  /\ \E e \in Groepen[n] : rij[e] = "InTransactie"
  /\ rij' = [e \in Events |-> IF e \in Groepen[n] THEN "Onverzonden" ELSE rij[e]]
  /\ UNCHANGED <<aangemaaktOp, geroepen, klok, eerder, relay, broker, fouten, kwijt>>

-----------------------------------------------------------------------------
(* OutboxRelay.verwerkBatch *)

Onverzonden == {e \in Events : rij[e] = "Onverzonden"}

\* Defective variant: the query has no orderBy.
SelectieZonderOrderBy ==
  LET n == IF Cardinality(Onverzonden) < Limiet THEN Cardinality(Onverzonden) ELSE Limiet
  IN  {s \in [1 .. n -> Onverzonden] : \A i, j \in 1 .. n : s[i] = s[j] => i = j}

\* findMany where gepubliceerd = false, orderBy aangemaaktOp asc, take limiet.
\* Rows with the same timestamp come in any order.
Selectie ==
  LET n == IF Cardinality(Onverzonden) < Limiet THEN Cardinality(Onverzonden) ELSE Limiet
  IN  {s \in [1 .. n -> Onverzonden] :
         /\ \A i, j \in 1 .. n : s[i] = s[j] => i = j
         /\ \A i, j \in 1 .. n : i < j => aangemaaktOp[s[i]] <= aangemaaktOp[s[j]]
         /\ \A e \in Onverzonden \ Elementen(s) :
              \A i \in 1 .. n : aangemaaktOp[s[i]] <= aangemaaktOp[e]}

\* A tick of the interval: pakOnverzonden.
PakOnverzonden(l) ==
  /\ batch[l] = "rust"
  /\ Onverzonden # {}
  /\ \E s \in Selectie : regels' = [regels EXCEPT ![l] = s]
  /\ batch' = [batch EXCEPT ![l] = "geladen"]
  /\ UNCHANGED <<tabel, verzonden, broker, fouten, kwijt>>

\* Defective variant: the batch is published as one message.
PubliceerAlsGeheel(l) ==
  /\ batch[l] = "geladen"
  /\ verbonden
  /\ buffer' = Append(buffer, regels[l])
  /\ verzonden' = [verzonden EXCEPT ![l] = Elementen(regels[l])]
  /\ batch' = [batch EXCEPT ![l] = "gepubliceerd"]
  /\ UNCHANGED <<tabel, regels, verbonden, bezorgd, fouten, kwijt>>

\* The publish loop.  From the message that fills the buffer on, publish answers
\* false; until then true.
PubliceerRegels(l) ==
  /\ batch[l] = "geladen"
  /\ verbonden
  /\ buffer' = buffer \o regels[l]
  /\ \E k \in 0 .. Len(regels[l]) :
       /\ verzonden' = [verzonden EXCEPT ![l] = Elementen(SubSeq(regels[l], 1, k))]
       /\ IF k = Len(regels[l]) THEN UNCHANGED fouten ELSE Fout
  /\ batch' = [batch EXCEPT ![l] = "gepubliceerd"]
  /\ UNCHANGED <<tabel, regels, verbonden, bezorgd, kwijt>>

\* Defective variant: the first row of the batch is not marked.
MarkeerZonderEerste(l) ==
  /\ batch[l] = "gepubliceerd"
  /\ rij' = [e \in Events |-> IF e \in verzonden[l] \ {regels[l][1]} THEN "Verzonden" ELSE rij[e]]
  /\ batch' = [batch EXCEPT ![l] = "rust"]
  /\ regels' = [regels EXCEPT ![l] = <<>>]
  /\ verzonden' = [verzonden EXCEPT ![l] = {}]
  /\ UNCHANGED <<aangemaaktOp, geroepen, klok, eerder, broker, fouten>>
  /\ HoudKwijtBij

\* markeerVerzonden, or nothing to mark; the call returns.
MarkeerVerzonden(l) ==
  /\ batch[l] = "gepubliceerd"
  /\ rij' = [e \in Events |-> IF e \in verzonden[l] THEN "Verzonden" ELSE rij[e]]
  /\ batch' = [batch EXCEPT ![l] = "rust"]
  /\ regels' = [regels EXCEPT ![l] = <<>>]
  /\ verzonden' = [verzonden EXCEPT ![l] = {}]
  /\ UNCHANGED <<aangemaaktOp, geroepen, klok, eerder, broker, fouten>>
  /\ HoudKwijtBij

StopBatch(l) ==
  /\ batch' = [batch EXCEPT ![l] = "rust"]
  /\ regels' = [regels EXCEPT ![l] = <<>>]
  /\ verzonden' = [verzonden EXCEPT ![l] = {}]
  /\ UNCHANGED <<tabel, broker, kwijt>>

\* publish throws on a closed channel; the catch of start() logs it.
KanaalDicht(l) ==
  /\ batch[l] = "geladen"
  /\ ~verbonden
  /\ StopBatch(l)
  /\ UNCHANGED fouten

\* The UPDATE fails; the same catch.
MarkerenMislukt(l) ==
  /\ batch[l] = "gepubliceerd"
  /\ Fout
  /\ StopBatch(l)

-----------------------------------------------------------------------------
(* The connection *)

\* The socket delivers the oldest message to the exchange.
Bezorg ==
  /\ buffer # <<>>
  /\ bezorgd' = bezorgd \cup {Head(buffer)}
  /\ buffer' = Tail(buffer)
  /\ UNCHANGED <<tabel, relay, verbonden, fouten, kwijt>>

\* The broker goes away.  Nothing in the service reconnects; the batch calls go on.
VerbindingWeg ==
  /\ verbonden
  /\ Fout
  /\ verbonden' = FALSE
  /\ buffer' = <<>>
  /\ UNCHANGED <<tabel, relay, bezorgd>>
  /\ HoudKwijtBij

\* The process dies, or is restarted to get its channel back.
Herstart ==
  /\ IF verbonden THEN Fout ELSE UNCHANGED fouten
  /\ verbonden' = TRUE
  /\ buffer' = <<>>
  /\ batch' = [l \in Batches |-> "rust"]
  /\ regels' = [l \in Batches |-> <<>>]
  /\ verzonden' = [l \in Batches |-> {}]
  /\ UNCHANGED <<tabel, bezorgd>>
  /\ HoudKwijtBij

BatchStap(l) ==
  \/ PakOnverzonden(l)
  \/ PubliceerRegels(l)
  \/ MarkeerVerzonden(l)
  \/ KanaalDicht(l)

RelayNext ==
  \/ BeginSchrijven \/ TikKlok
  \/ \E n \in 1 .. geroepen : CommitSchrijven(n)
  \/ \E l \in Batches : BatchStap(l) \/ MarkerenMislukt(l)
  \/ Bezorg
  \/ VerbindingWeg
  \/ Herstart

\* The interval keeps ticking and awaits settle; an open connection carries what was
\* written to it; and somebody restarts a service that has lost its channel (the
\* compose file does not).
RelaySpec ==
  /\ RelayInit /\ [][RelayNext]_relayVars
  /\ \A l \in Batches : WF_relayVars(BatchStap(l))
  /\ WF_relayVars(Bezorg)
  /\ WF_relayVars(~verbonden /\ Herstart)

-----------------------------------------------------------------------------
(* The relay implements the promise of Bezorging. *)

B == INSTANCE Bezorging WITH geschreven <- Geschreven, gelijktijdig <- Gelijktijdig

\* Events reach the exchange at least once or are in kwijt, and never ahead of an
\* event of an earlier millisecond that was committed before they came about, through every
\* overlap of batch calls, repetition, lost connection and restart.  Events of one millisecond,
\* those of one call or of several, have no order: the query sorts by the timestamp alone.
ImplementeertBezorging == B!Spec

\* A row that is committed is marked sent in the end: the relay does not deliver the
\* same event every second for ever.
ElkeRegelWordtGemarkeerd ==
  \A e \in Events : rij[e] = "Onverzonden" ~> rij[e] = "Verzonden"

\* outbox-relay.ts:18 "at-least-once bezorging": what is marked sent arrives.
VerzondenKomtAan == kwijt = {}
=============================================================================
