------------------------------ MODULE Consument ------------------------------
(***************************************************************************)
(* How Contract, Onderhoud and Monitoring consume events: ask isVerwerkt,   *)
(* handle, markeerVerwerkt, acknowledge; a handler that throws nacks        *)
(* without requeue.  What was not acknowledged when the process dies is     *)
(* delivered again.                                                        *)
(*                                                                         *)
(* A queue dispatches first in first out.  With amqplib and no prefetch the *)
(* handler of the next message starts while the previous one waits for the  *)
(* database; RabbitMQ.Client awaits it (Gelijktijdig).  Contract and        *)
(* Monitoring publish from an outbox, perhaps more than once; Beheer once.  *)
(*                                                                         *)
(* The module has no specification of its own: each service adds what its   *)
(* handlers do and its requests.                                           *)
(***************************************************************************)
EXTENDS Integers, Sequences, FiniteSets

CONSTANTS
  Berichten,    \* the envelopes that concern the kunstwerk of the model, by eventId
  Soort,        \* Soort[b]: the event type, abbreviated
  Queue,        \* Queue[b]: the queue it reaches in this service
  Rang,         \* Rang[b]: the order in which the exchange receives them
  Kopieen,      \* Kopieen[b]: how often it is published
  Gelijktijdig, \* do handlers of one queue interleave?
  Geen

Leveringen == UNION {{b} \X (1 .. Kopieen[b]) : b \in Berichten}

ASSUME BerichtenAssumption ==
  /\ Rang \in [Berichten -> Nat]
  /\ \A b, c \in Berichten : Rang[b] = Rang[c] => b = c
  /\ Kopieen \in [Berichten -> 1 .. 2]
  /\ Gelijktijdig \in BOOLEAN
  /\ Geen \notin Int \cup Berichten

VARIABLES
  verwerkt,     \* the table of handled events
  levering,     \* where delivery d is
  toegepast,    \* history: the messages whose handling took effect
  overlap       \* history: did a handler start while one of its queue was not marked yet?

leveringVars == <<verwerkt, levering, toegepast, overlap>>

Bericht(d) == d[1]

Lopend       == {"gecontroleerd", "opgeslagen", "gezocht", "toegepast"}
Onbevestigd  == Lopend \cup {"gemarkeerd"}
Afgehandeld  == {"bevestigd", "verworpen"}

LeveringTypeOK ==
  /\ verwerkt \subseteq Berichten
  /\ levering \in [Leveringen -> {"afwezig", "onderweg"} \cup Onbevestigd \cup Afgehandeld]
  /\ toegepast \subseteq Berichten
  /\ overlap \in BOOLEAN

\* The deliveries of V are on their way, the other messages do not exist.
LeveringInit(V) ==
  /\ verwerkt = {}
  /\ levering = [d \in Leveringen |-> IF d \in V THEN "onderweg" ELSE "afwezig"]
  /\ toegepast = {}
  /\ overlap = FALSE

-----------------------------------------------------------------------------
(* A delivery *)

Stuur(d, plaats) == levering' = [levering EXCEPT ![d] = plaats]

InBehandeling(d) ==
  {e \in Leveringen \ {d} : Queue[Bericht(e)] = Queue[Bericht(d)] /\ levering[e] \in Lopend}

\* What the exchange received earlier for this queue has been dispatched (a repetition
\* comes after the first copy), and handlers wait for each other if they do.
AanDeBeurt(d) ==
  /\ \A e \in Leveringen :
       /\ Queue[Bericht(e)] = Queue[Bericht(d)]
       /\ \/ Rang[Bericht(e)] < Rang[Bericht(d)] /\ e[2] = 1
          \/ Bericht(e) = Bericht(d) /\ e[2] < d[2]
       => levering[e] # "onderweg"
  /\ Gelijktijdig \/ InBehandeling(d) = {}

Ontvang(d) == levering[d] = "onderweg" /\ AanDeBeurt(d)

\* Defective variant: the handler does not ask isVerwerkt.
VerwerkAltijd(d) ==
  /\ Ontvang(d)
  /\ Stuur(d, "gecontroleerd")
  /\ overlap' = (overlap \/ InBehandeling(d) # {})
  /\ UNCHANGED <<verwerkt, toegepast>>

\* Defective variant: the event is marked before it is handled.
MarkeerVooraf(d) ==
  /\ Ontvang(d)
  /\ Stuur(d, IF Bericht(d) \in verwerkt THEN "bevestigd" ELSE "gecontroleerd")
  /\ verwerkt' = verwerkt \cup {Bericht(d)}
  /\ UNCHANGED <<toegepast, overlap>>

\* Defective variant: the handler returns for a known event and nothing acknowledges it.
VerwerkZonderAck(d) ==
  /\ Ontvang(d)
  /\ Bericht(d) \notin verwerkt
  /\ Stuur(d, "gecontroleerd")
  /\ UNCHANGED <<verwerkt, toegepast, overlap>>

\* The message is dispatched and isVerwerkt answers; a known event is acknowledged.
Verwerk(d) ==
  /\ Ontvang(d)
  /\ Stuur(d, IF Bericht(d) \in verwerkt THEN "bevestigd" ELSE "gecontroleerd")
  /\ overlap' = (overlap \/ InBehandeling(d) # {})
  /\ UNCHANGED <<verwerkt, toegepast>>

\* The handler of a soort reaches its store.
PastToe(d, soort, plaats) ==
  /\ levering[d] = "gecontroleerd"
  /\ Soort[Bericht(d)] = soort
  /\ toegepast' = toegepast \cup {Bericht(d)}
  /\ Stuur(d, plaats)
  /\ UNCHANGED <<verwerkt, overlap>>

\* From one await of a handler to the next.
GaVerder(d, van, naar) ==
  /\ levering[d] = van
  /\ Stuur(d, naar)
  /\ UNCHANGED <<verwerkt, toegepast, overlap>>

\* markeerVerwerkt as an INSERT, refused by the primary key when another delivery of the
\* event was first; then the handler throws and the message is nacked.
MarkeerVerwerkt(d) ==
  /\ levering[d] = "toegepast"
  /\ Stuur(d, IF Bericht(d) \in verwerkt THEN "verworpen" ELSE "gemarkeerd")
  /\ verwerkt' = verwerkt \cup {Bericht(d)}
  /\ UNCHANGED <<toegepast, overlap>>

\* markeerVerwerkt as a save, which finds the row that is there, unless another handler
\* inserts it between its SELECT and its INSERT.
BewaarVerwerkt(d) ==
  /\ levering[d] = "toegepast"
  /\ \/ Stuur(d, "gemarkeerd")
     \/ overlap /\ Bericht(d) \in verwerkt /\ Stuur(d, "verworpen")
  /\ verwerkt' = verwerkt \cup {Bericht(d)}
  /\ UNCHANGED <<toegepast, overlap>>

Ack(d) == GaVerder(d, "gemarkeerd", "bevestigd")

\* A database error in a handler: nack without requeue.
Nack(d) == \E van \in Lopend : GaVerder(d, van, "verworpen")

\* The process dies: the broker queues again what it did not see acknowledged.
LeverOpnieuw ==
  /\ levering' = [d \in Leveringen |-> IF levering[d] \in Onbevestigd THEN "onderweg" ELSE levering[d]]
  /\ UNCHANGED <<verwerkt, toegepast, overlap>>

-----------------------------------------------------------------------------
(* What the deliveries promise *)

GeenVerworpen == \A d \in Leveringen : levering[d] # "verworpen"

\* The last of a set of messages in the order of the exchange.
Laatste(B) == {b \in B : \A c \in B : Rang[c] <= Rang[b]}

\* A delivery that is acknowledged was handled and marked, whatever crashed in between;
\* without a fault none is refused for good before it was.
Afgewikkeld(foutloos) ==
  \A d \in Leveringen :
    levering[d] = "bevestigd" \/ (levering[d] = "verworpen" /\ foutloos) =>
      Bericht(d) \in verwerkt \cap toegepast
=============================================================================
