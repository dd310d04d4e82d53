--------------------------- MODULE Consument_proofs ---------------------------
(***************************************************************************)
(* What the deliveries of a consumer keep, whatever its handlers do: the   *)
(* lemmas that the proofs of the services rest on.                         *)
(*                                                                         *)
(* LeveringInv is kept by every step of a delivery.  That a known event is *)
(* skipped shows in MarkeringKlopt; that handlers which do not overlap     *)
(* work in the order of the exchange is VolgordeKlopt.                     *)
(***************************************************************************)
EXTENDS Consument, TLAPS

\* A repetition is on its way only if the first copy is or was.
EersteKlopt ==
  \A d \in Leveringen : levering[d] # "afwezig" => levering[<<Bericht(d), 1>>] # "afwezig"

\* What the place of a delivery says of its event.
MarkeringKlopt ==
  /\ verwerkt \subseteq toegepast
  /\ \A d \in Leveringen :
       /\ levering[d] \in {"opgeslagen", "gezocht", "toegepast"} => Bericht(d) \in toegepast
       /\ levering[d] \in {"gemarkeerd", "bevestigd"} => Bericht(d) \in verwerkt

\* What a delivery that was refused says of its event, as long as no handler broke.
WeigeringKlopt ==
  \A d \in Leveringen : levering[d] = "verworpen" => Bericht(d) \in verwerkt

\* What came before b in its queue is handled, or will not come any more.
Voorbij(b) ==
  \A c \in Berichten : Queue[c] = Queue[b] /\ Rang[c] < Rang[b] =>
    c \in verwerkt \/ levering[<<c, 1>>] \in {"afwezig", "verworpen"}

\* Handlers of a queue that did not overlap: one is at work, on an event that is not
\* marked yet, and neither it nor what was applied is ahead of its turn.
VolgordeKlopt ==
  ~overlap =>
    /\ \A d, e \in Leveringen :
         levering[d] \in Lopend /\ levering[e] \in Lopend
           /\ Queue[Bericht(d)] = Queue[Bericht(e)] => d = e
    /\ \A d \in Leveringen : levering[d] \in Lopend => Bericht(d) \notin verwerkt /\ Voorbij(Bericht(d))
    /\ \A b \in toegepast : Voorbij(b)

LeveringInv == LeveringTypeOK /\ EersteKlopt /\ MarkeringKlopt /\ VolgordeKlopt

-----------------------------------------------------------------------------
(* Deliveries *)

\* A delivery is a copy of a message.
LEMMA LeveringIsKopie ==
  ASSUME NEW d \in Leveringen
  PROVE  Bericht(d) \in Berichten /\ d = <<Bericht(d), d[2]>> /\ d[2] \in 1 .. Kopieen[Bericht(d)]
BY DEF Leveringen, Bericht

\* Every message has a first copy.
LEMMA EersteKopie ==
  ASSUME NEW b \in Berichten
  PROVE  <<b, 1>> \in Leveringen /\ Bericht(<<b, 1>>) = b
<1>1. Kopieen[b] \in 1 .. 2
  BY BerichtenAssumption
<1>2. 1 \in 1 .. Kopieen[b]
  BY <1>1
<1>3. <<b, 1>> \in {b} \X (1 .. Kopieen[b])
  BY <1>2
<1> QED BY <1>3 DEF Leveringen, Bericht

\* In the beginning nothing was handled.
LEMMA LeveringBegin ==
  ASSUME NEW V, LeveringInit(V), \A d \in V \cap Leveringen : <<Bericht(d), 1>> \in V
  PROVE  LeveringInv /\ WeigeringKlopt
<1>1. LeveringTypeOK
  BY DEF LeveringInit, LeveringTypeOK, Onbevestigd, Lopend, Afgehandeld
<1>2. EersteKlopt
  BY LeveringIsKopie, EersteKopie DEF LeveringInit, EersteKlopt
<1>3. MarkeringKlopt /\ VolgordeKlopt /\ WeigeringKlopt
  BY DEF LeveringInit, MarkeringKlopt, VolgordeKlopt, WeigeringKlopt, Lopend
<1> QED BY <1>1, <1>2, <1>3 DEF LeveringInv

\* Steps of others leave the deliveries alone.
LEMMA LeveringStil ==
  ASSUME UNCHANGED leveringVars
  PROVE  /\ LeveringInv => LeveringInv'
         /\ WeigeringKlopt => WeigeringKlopt'
         /\ toegepast' = toegepast /\ overlap' = overlap /\ (GeenVerworpen' => GeenVerworpen)
<1>1. verwerkt' = verwerkt /\ levering' = levering /\ toegepast' = toegepast /\ overlap' = overlap
  BY DEF leveringVars
<1> QED BY <1>1 DEF LeveringInv, LeveringTypeOK, EersteKlopt, MarkeringKlopt, VolgordeKlopt, Voorbij, WeigeringKlopt, GeenVerworpen

-----------------------------------------------------------------------------
(* Every step of a delivery keeps LeveringInv.  Most of them move one      *)
(* delivery: what has to hold where it goes is the same for all.           *)

\* A delivery that leaves "onderweg" or the handler, to where its event lets it go.
LEMMA LeveringVerder ==
  ASSUME LeveringInv, NEW d \in Leveringen, NEW plaats, Stuur(d, plaats),
         levering[d] \notin {"afwezig", "verworpen"},
         plaats \in Lopend \cup {"gemarkeerd", "bevestigd", "verworpen"},
         verwerkt' \in {verwerkt, verwerkt \cup {Bericht(d)}},
         toegepast' \in {toegepast, toegepast \cup {Bericht(d)}},
         overlap' \in BOOLEAN, overlap' = FALSE => overlap = FALSE,
         verwerkt' \subseteq toegepast',
         plaats \in {"opgeslagen", "gezocht", "toegepast"} => Bericht(d) \in toegepast',
         plaats \in {"gemarkeerd", "bevestigd"} => Bericht(d) \in verwerkt',
         ~overlap' /\ plaats \in Lopend =>
           /\ Bericht(d) \notin verwerkt'
           /\ Voorbij(Bericht(d))
           /\ InBehandeling(d) = {},
         ~overlap' /\ Bericht(d) \in toegepast' => Voorbij(Bericht(d)),
         ~overlap' /\ verwerkt' # verwerkt => levering[d] \in Lopend
  PROVE  LeveringInv'
<1>1. /\ levering \in [Leveringen -> {"afwezig", "onderweg"} \cup Onbevestigd \cup Afgehandeld]
      /\ verwerkt \subseteq Berichten /\ toegepast \subseteq Berichten
  BY DEF LeveringInv, LeveringTypeOK
<1>2. levering'[d] = plaats /\ \A e \in Leveringen \ {d} : levering'[e] = levering[e]
  BY <1>1 DEF Stuur
<1>3. Bericht(d) \in Berichten /\ verwerkt \subseteq verwerkt' /\ toegepast \subseteq toegepast'
  BY LeveringIsKopie
<1>4. LeveringTypeOK'
  <2>1. plaats \in {"afwezig", "onderweg"} \cup Onbevestigd \cup Afgehandeld
    BY DEF Onbevestigd, Afgehandeld
  <2>2. levering' \in [Leveringen -> {"afwezig", "onderweg"} \cup Onbevestigd \cup Afgehandeld]
    BY <1>1, <2>1 DEF Stuur
  <2>3. verwerkt' \subseteq Berichten /\ toegepast' \subseteq Berichten
    BY <1>1, <1>3
  <2> QED BY <2>2, <2>3 DEF LeveringTypeOK
<1>5. EersteKlopt'
  <2>1. plaats # "afwezig"
    BY DEF Lopend
  <2>2. \A e \in Leveringen : levering'[e] # "afwezig" <=> levering[e] # "afwezig"
    BY <1>2, <2>1
  <2>3. \A e \in Leveringen : <<Bericht(e), 1>> \in Leveringen
    BY LeveringIsKopie, EersteKopie
  <2> QED BY <2>2, <2>3 DEF LeveringInv, EersteKlopt
<1>6. MarkeringKlopt'
  BY <1>2, <1>3 DEF LeveringInv, MarkeringKlopt
<1>7. \A b \in Berichten : Voorbij(b) => Voorbij(b)'
  <2> SUFFICES ASSUME NEW b \in Berichten, Voorbij(b), NEW c \in Berichten,
                      Queue[c] = Queue[b], Rang[c] < Rang[b]
               PROVE  c \in verwerkt' \/ levering'[<<c, 1>>] \in {"afwezig", "verworpen"}
    BY DEF Voorbij
  <2>1. c \in verwerkt \/ levering[<<c, 1>>] \in {"afwezig", "verworpen"}
    BY DEF Voorbij
  <2>2. <<c, 1>> \in Leveringen
    BY EersteKopie
  <2> QED BY <1>2, <1>3, <2>1, <2>2
<1>8. VolgordeKlopt'
  <2> SUFFICES ASSUME ~overlap' PROVE VolgordeKlopt'
    BY DEF VolgordeKlopt
  <2>1. ~overlap
    BY DEF LeveringInv, LeveringTypeOK
  <2>2. ASSUME NEW e \in Leveringen \ {d}, levering[e] \in Lopend, plaats \in Lopend
        PROVE  Queue[Bericht(e)] # Queue[Bericht(d)]
    BY <2>2 DEF InBehandeling
  <2>3. \A e, f \in Leveringen :
          levering'[e] \in Lopend /\ levering'[f] \in Lopend
            /\ Queue[Bericht(e)] = Queue[Bericht(f)] => e = f
    BY <1>2, <2>1, <2>2 DEF LeveringInv, VolgordeKlopt
  <2>4. ASSUME NEW e \in Leveringen, levering'[e] \in Lopend
        PROVE  Bericht(e) \notin verwerkt' /\ Voorbij(Bericht(e))'
    <3>1. CASE e = d
      BY <1>2, <1>3, <1>7, <2>4, <3>1
    <3>2. CASE e # d
      <4>1. levering[e] \in Lopend /\ Bericht(e) \in Berichten
        BY <1>2, <2>4, <3>2, LeveringIsKopie
      <4>2. Bericht(e) \notin verwerkt /\ Voorbij(Bericht(e))
        BY <2>1, <4>1 DEF LeveringInv, VolgordeKlopt
      <4>3. Bericht(e) = Bericht(d) => verwerkt' = verwerkt
        BY <2>1, <3>2, <4>1 DEF LeveringInv, VolgordeKlopt
      <4> QED BY <1>7, <4>1, <4>2, <4>3
    <3> QED BY <3>1, <3>2
  <2>5. ASSUME NEW b \in toegepast' PROVE Voorbij(b)'
    <3>1. b \in Berichten /\ Voorbij(b)
      BY <1>1, <1>3, <2>1 DEF LeveringInv, VolgordeKlopt
    <3> QED BY <1>7, <3>1
  <2> QED BY <2>3, <2>4, <2>5 DEF VolgordeKlopt
<1> QED BY <1>4, <1>5, <1>6, <1>8 DEF LeveringInv

\* The event is known, or its handler starts: then what came before is handled or gone,
\* if no handler of the queue is still at work.
LEMMA VerwerkHoudt ==
  ASSUME LeveringInv, NEW d \in Leveringen, Verwerk(d)
  PROVE  /\ LeveringInv'
         /\ WeigeringKlopt => WeigeringKlopt'
         /\ toegepast' = toegepast /\ (~overlap' => ~overlap) /\ (GeenVerworpen' => GeenVerworpen)
<1> DEFINE plaats == IF Bericht(d) \in verwerkt THEN "bevestigd" ELSE "gecontroleerd"
<1>1. /\ levering[d] = "onderweg" /\ AanDeBeurt(d) /\ Stuur(d, plaats)
      /\ overlap' = (overlap \/ InBehandeling(d) # {})
      /\ verwerkt' = verwerkt /\ toegepast' = toegepast
  BY DEF Verwerk, Ontvang
<1>2. overlap \in BOOLEAN /\ verwerkt \subseteq toegepast
  BY DEF LeveringInv, LeveringTypeOK, MarkeringKlopt
<1>3. ASSUME ~overlap' PROVE ~overlap /\ InBehandeling(d) = {} /\ Voorbij(Bericht(d))
  <2>1. ~overlap /\ InBehandeling(d) = {}
    BY <1>1, <1>3
  <2>2. ASSUME NEW c \in Berichten, Queue[c] = Queue[Bericht(d)], Rang[c] < Rang[Bericht(d)]
        PROVE  c \in verwerkt \/ levering[<<c, 1>>] \in {"afwezig", "verworpen"}
    <3> DEFINE e == <<c, 1>>
    <3>1. e \in Leveringen /\ Bericht(e) = c /\ e[2] = 1
      BY EersteKopie
    <3>2. levering[e] # "onderweg"
      BY <1>1, <2>2, <3>1 DEF AanDeBeurt
    <3>3. e # d
      <4>1. Bericht(d) \in Berichten /\ Rang[Bericht(d)] \in Nat
        BY LeveringIsKopie, BerichtenAssumption
      <4> QED BY <2>2, <3>1, <4>1
    <3>4. levering[e] \notin Lopend
      BY <2>1, <2>2, <3>1, <3>3 DEF InBehandeling
    <3>5. levering[e] \in {"gemarkeerd", "bevestigd"} => c \in verwerkt
      BY <3>1 DEF LeveringInv, MarkeringKlopt
    <3> QED BY <3>1, <3>2, <3>4, <3>5 DEF LeveringInv, LeveringTypeOK, Onbevestigd, Afgehandeld
  <2> QED BY <2>1, <2>2 DEF Voorbij
<1>4. plaats \in {"gecontroleerd", "bevestigd"} /\ (plaats = "bevestigd" <=> Bericht(d) \in verwerkt)
  OBVIOUS
<1> HIDE DEF plaats
<1>5. LeveringInv'
  <2>1. overlap' \in BOOLEAN /\ (overlap' = FALSE => overlap = FALSE)
    BY <1>1, <1>2
  <2>2. /\ levering[d] \notin {"afwezig", "verworpen"}
        /\ plaats \in Lopend \cup {"gemarkeerd", "bevestigd", "verworpen"}
        /\ plaats \notin {"opgeslagen", "gezocht", "toegepast"}
        /\ plaats \in {"gemarkeerd", "bevestigd"} => Bericht(d) \in verwerkt'
    BY <1>1, <1>4 DEF Lopend
  <2>3. ~overlap' /\ plaats \in Lopend => Bericht(d) \notin verwerkt'
    BY <1>1, <1>4 DEF Lopend
  <2> QED BY <1>1, <1>2, <1>3, <2>1, <2>2, <2>3, LeveringVerder
<1>6. levering' = [levering EXCEPT ![d] = plaats] /\ plaats # "verworpen" /\ levering[d] # "verworpen"
  BY <1>1, <1>4 DEF Stuur
<1>7. /\ WeigeringKlopt => WeigeringKlopt'
      /\ GeenVerworpen' => GeenVerworpen
  BY <1>1, <1>6 DEF WeigeringKlopt, GeenVerworpen, LeveringInv, LeveringTypeOK
<1> QED BY <1>1, <1>2, <1>3, <1>5, <1>7

\* The handler reaches its store.
LEMMA PastToeHoudt ==
  ASSUME LeveringInv, NEW d \in Leveringen, NEW soort, NEW plaats \in {"opgeslagen", "toegepast"},
         PastToe(d, soort, plaats)
  PROVE  /\ LeveringInv'
         /\ WeigeringKlopt => WeigeringKlopt'
         /\ toegepast' = toegepast \cup {Bericht(d)} /\ Soort[Bericht(d)] = soort
         /\ overlap' = overlap /\ (GeenVerworpen' => GeenVerworpen)
<1>1. /\ levering[d] = "gecontroleerd" /\ Soort[Bericht(d)] = soort /\ Stuur(d, plaats)
      /\ toegepast' = toegepast \cup {Bericht(d)} /\ verwerkt' = verwerkt /\ overlap' = overlap
  BY DEF PastToe
<1>2. overlap \in BOOLEAN /\ verwerkt \subseteq toegepast
  BY DEF LeveringInv, LeveringTypeOK, MarkeringKlopt
<1>3. ASSUME ~overlap'
      PROVE  Bericht(d) \notin verwerkt /\ Voorbij(Bericht(d)) /\ InBehandeling(d) = {}
  BY <1>1, <1>3 DEF LeveringInv, VolgordeKlopt, InBehandeling, Lopend
<1>4. LeveringInv'
  <2>1. /\ levering[d] \notin {"afwezig", "verworpen"}
        /\ plaats \in Lopend \cup {"gemarkeerd", "bevestigd", "verworpen"}
        /\ plaats \notin {"gemarkeerd", "bevestigd"}
    BY <1>1 DEF Lopend
  <2>2. verwerkt' \subseteq toegepast'
    BY <1>1, <1>2
  <2> QED BY <1>1, <1>2, <1>3, <2>1, <2>2, LeveringVerder
<1>5. /\ WeigeringKlopt => WeigeringKlopt'
      /\ GeenVerworpen' => GeenVerworpen
  BY <1>1 DEF WeigeringKlopt, GeenVerworpen, LeveringInv, LeveringTypeOK, Stuur
<1> QED BY <1>1, <1>4, <1>5

\* From one await to the next, to the acknowledgement, or to a nack.
LEMMA GaVerderHoudt ==
  ASSUME LeveringInv, NEW d \in Leveringen, NEW van, NEW naar, GaVerder(d, van, naar),
         \/ van \in {"opgeslagen", "gezocht"} /\ naar \in {"gezocht", "toegepast"}
         \/ van = "gemarkeerd" /\ naar = "bevestigd"
         \/ van \in Lopend /\ naar = "verworpen"
  PROVE  /\ LeveringInv'
         /\ WeigeringKlopt /\ naar # "verworpen" => WeigeringKlopt'
         /\ toegepast' = toegepast /\ overlap' = overlap /\ (GeenVerworpen' => GeenVerworpen)
<1>1. /\ levering[d] = van /\ Stuur(d, naar)
      /\ toegepast' = toegepast /\ verwerkt' = verwerkt /\ overlap' = overlap
  BY DEF GaVerder
<1>2. overlap \in BOOLEAN /\ verwerkt \subseteq toegepast
  BY DEF LeveringInv, LeveringTypeOK, MarkeringKlopt
<1>3. /\ van \notin {"afwezig", "verworpen"}
      /\ naar \in Lopend \cup {"gemarkeerd", "bevestigd", "verworpen"}
      /\ naar \in Lopend => van \in Lopend
  BY DEF Lopend
<1>4. ASSUME ~overlap', naar \in Lopend
      PROVE  Bericht(d) \notin verwerkt /\ Voorbij(Bericht(d)) /\ InBehandeling(d) = {}
  BY <1>1, <1>3, <1>4 DEF LeveringInv, VolgordeKlopt, InBehandeling
<1>5. ASSUME ~overlap', Bericht(d) \in toegepast'
      PROVE  Voorbij(Bericht(d))
  BY <1>1, <1>5 DEF LeveringInv, VolgordeKlopt
<1>6. /\ naar \in {"opgeslagen", "gezocht", "toegepast"} => Bericht(d) \in toegepast'
      /\ naar \in {"gemarkeerd", "bevestigd"} => Bericht(d) \in verwerkt'
  BY <1>1 DEF LeveringInv, MarkeringKlopt
<1>7. LeveringInv'
  BY <1>1, <1>2, <1>3, <1>4, <1>5, <1>6, LeveringVerder
<1>8. /\ WeigeringKlopt /\ naar # "verworpen" => WeigeringKlopt'
      /\ GeenVerworpen' => GeenVerworpen
  BY <1>1, <1>3 DEF WeigeringKlopt, GeenVerworpen, LeveringInv, LeveringTypeOK, Stuur
<1> QED BY <1>1, <1>7, <1>8

\* An acknowledgement.
LEMMA AckHoudt ==
  ASSUME LeveringInv, NEW d \in Leveringen, Ack(d)
  PROVE  /\ LeveringInv'
         /\ WeigeringKlopt => WeigeringKlopt'
         /\ toegepast' = toegepast /\ overlap' = overlap /\ (GeenVerworpen' => GeenVerworpen)
<1>1. GaVerder(d, "gemarkeerd", "bevestigd")
  BY DEF Ack
<1> QED BY <1>1, GaVerderHoudt

\* A nack without requeue.
LEMMA NackHoudt ==
  ASSUME LeveringInv, NEW d \in Leveringen, Nack(d)
  PROVE  /\ LeveringInv'
         /\ toegepast' = toegepast /\ overlap' = overlap /\ (GeenVerworpen' => GeenVerworpen)
<1>1. PICK van \in Lopend : GaVerder(d, van, "verworpen")
  BY DEF Nack
<1> QED BY <1>1, GaVerderHoudt

\* The event is marked, or was so by another delivery of it.
LEMMA MarkeerHoudt ==
  ASSUME LeveringInv, NEW d \in Leveringen, MarkeerVerwerkt(d) \/ BewaarVerwerkt(d)
  PROVE  /\ LeveringInv'
         /\ WeigeringKlopt => WeigeringKlopt'
         /\ toegepast' = toegepast /\ overlap' = overlap /\ (GeenVerworpen' => GeenVerworpen)
<1>1. PICK plaats \in {"gemarkeerd", "verworpen"} :
        /\ levering[d] = "toegepast" /\ Stuur(d, plaats)
        /\ verwerkt' = verwerkt \cup {Bericht(d)}
        /\ toegepast' = toegepast /\ overlap' = overlap
  BY DEF MarkeerVerwerkt, BewaarVerwerkt
<1>2. /\ overlap \in BOOLEAN /\ verwerkt \subseteq toegepast /\ Bericht(d) \in toegepast
      /\ Bericht(d) \in verwerkt'
  BY <1>1 DEF LeveringInv, LeveringTypeOK, MarkeringKlopt
<1>3. ASSUME ~overlap' PROVE Voorbij(Bericht(d))
  BY <1>1, <1>2, <1>3 DEF LeveringInv, VolgordeKlopt
<1>4. LeveringInv'
  <2>1. /\ levering[d] \notin {"afwezig", "verworpen"} /\ levering[d] \in Lopend
        /\ plaats \in Lopend \cup {"gemarkeerd", "bevestigd", "verworpen"}
        /\ plaats \notin Lopend /\ plaats \notin {"opgeslagen", "gezocht", "toegepast"}
    BY <1>1 DEF Lopend
  <2>2. verwerkt' \subseteq toegepast'
    BY <1>1, <1>2
  <2> QED BY <1>1, <1>2, <1>3, <2>1, <2>2, LeveringVerder
<1>5. /\ WeigeringKlopt => WeigeringKlopt'
      /\ GeenVerworpen' => GeenVerworpen
  BY <1>1, <1>2 DEF WeigeringKlopt, GeenVerworpen, LeveringInv, LeveringTypeOK, Stuur
<1> QED BY <1>1, <1>4, <1>5

\* A restart puts what was not acknowledged back in the queue.
LEMMA LeverOpnieuwHoudt ==
  ASSUME LeveringInv, LeverOpnieuw
  PROVE  /\ LeveringInv'
         /\ WeigeringKlopt => WeigeringKlopt'
         /\ toegepast' = toegepast /\ overlap' = overlap /\ (GeenVerworpen' => GeenVerworpen)
<1>1. /\ toegepast' = toegepast /\ verwerkt' = verwerkt /\ overlap' = overlap
      /\ \A d \in Leveringen :
           levering'[d] = IF levering[d] \in Onbevestigd THEN "onderweg" ELSE levering[d]
  BY DEF LeverOpnieuw
<1>2. LeveringTypeOK'
  BY DEF LeverOpnieuw, LeveringInv, LeveringTypeOK
<1>3. \A d \in Leveringen : /\ levering'[d] \notin Lopend
                            /\ levering'[d] = "verworpen" <=> levering[d] = "verworpen"
                            /\ levering'[d] = "afwezig" <=> levering[d] = "afwezig"
                            /\ levering'[d] = "bevestigd" => levering[d] = "bevestigd"
                            /\ levering'[d] # "gemarkeerd"
  BY <1>1 DEF LeveringInv, LeveringTypeOK, Onbevestigd, Lopend
<1>4. EersteKlopt'
  <2>1. \A d \in Leveringen : <<Bericht(d), 1>> \in Leveringen
    BY LeveringIsKopie, EersteKopie
  <2> QED BY <1>3, <2>1 DEF LeveringInv, EersteKlopt
<1>5. MarkeringKlopt'
  BY <1>1, <1>3 DEF LeveringInv, MarkeringKlopt, Lopend
<1>6. \A b \in Berichten : Voorbij(b) => Voorbij(b)'
  <2>1. \A c \in Berichten : <<c, 1>> \in Leveringen
    BY EersteKopie
  <2> QED BY <1>1, <1>3, <2>1 DEF Voorbij
<1>7. VolgordeKlopt'
  <2>1. toegepast \subseteq Berichten
    BY DEF LeveringInv, LeveringTypeOK
  <2> QED BY <1>1, <1>3, <1>6, <2>1 DEF LeveringInv, VolgordeKlopt
<1>8. /\ WeigeringKlopt => WeigeringKlopt'
      /\ GeenVerworpen' => GeenVerworpen
  BY <1>1, <1>3 DEF WeigeringKlopt, GeenVerworpen
<1> QED BY <1>1, <1>2, <1>4, <1>5, <1>7, <1>8 DEF LeveringInv

-----------------------------------------------------------------------------
(* What the invariant is for *)

\* Without overlap a handler that reaches its store does so after all that its queue has
\* seen applied, unless an earlier copy of its event was refused.
LEMMA Nieuwste ==
  ASSUME LeveringInv, ~overlap, NEW d \in Leveringen, levering[d] = "gecontroleerd",
         Kopieen[Bericht(d)] = 1 \/ GeenVerworpen,
         NEW c \in toegepast, Queue[c] = Queue[Bericht(d)]
  PROVE  Rang[c] <= Rang[Bericht(d)]
<1> DEFINE b == Bericht(d)
<1>1. /\ c \in Berichten /\ b \in Berichten /\ Rang[c] \in Nat /\ Rang[b] \in Nat
      /\ d = <<b, d[2]>> /\ d[2] \in 1 .. Kopieen[b] /\ <<b, 1>> \in Leveringen
  BY LeveringIsKopie, EersteKopie, BerichtenAssumption DEF LeveringInv, LeveringTypeOK
<1>2. b \notin verwerkt /\ Voorbij(c)
  BY DEF LeveringInv, VolgordeKlopt, Lopend
<1>3. levering[<<b, 1>>] # "afwezig"
  BY <1>1 DEF LeveringInv, EersteKlopt
<1>4. levering[<<b, 1>>] # "verworpen"
  <2>1. CASE Kopieen[b] = 1
    <3>1. d[2] = 1
      BY <1>1, <2>1
    <3> QED BY <1>1, <3>1
  <2>2. CASE GeenVerworpen
    BY <1>1, <2>2 DEF GeenVerworpen
  <2> QED BY <2>1, <2>2
<1>5. ~(Rang[b] < Rang[c])
  BY <1>1, <1>2, <1>3, <1>4 DEF Voorbij
<1> QED BY <1>1, <1>5

\* So it is the last of any set of applied messages of its queue, and the only last one.
LEMMA NieuwsteIsLaatste ==
  ASSUME LeveringInv, ~overlap, NEW d \in Leveringen, levering[d] = "gecontroleerd",
         Kopieen[Bericht(d)] = 1 \/ GeenVerworpen,
         NEW B, B \subseteq toegepast \cup {Bericht(d)}, Bericht(d) \in B,
         \A c \in B : Queue[c] = Queue[Bericht(d)]
  PROVE  Laatste(B) = {Bericht(d)}
<1> DEFINE b == Bericht(d)
<1>1. toegepast \subseteq Berichten /\ b \in Berichten
  BY LeveringIsKopie DEF LeveringInv, LeveringTypeOK
<1>2. \A c \in B : c \in Berichten /\ Rang[c] \in Nat /\ Rang[b] \in Nat
  BY <1>1, BerichtenAssumption
<1>3. \A c \in B : Rang[c] <= Rang[b]
  BY <1>2, Nieuwste
<1>4. \A c \in B : Rang[b] <= Rang[c] => c = b
  BY <1>1, <1>2, <1>3, BerichtenAssumption
<1> QED BY <1>3, <1>4 DEF Laatste
=============================================================================
