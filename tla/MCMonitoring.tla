----------------------------- MODULE MCMonitoring -----------------------------
(* The instance of Monitoring that TLC checks: two starts, a pauze, a hervatting *)
(* and an afronding; a heavy and a light afwijking, a value that is refused and   *)
(* one below its drempel; an incident taken up and resolved; a rapport and a       *)
(* network rapport; a kunstwerk that is registered and goes out of use.            *)
EXTENDS Monitoring, TLC

CONSTANTS reg, bg, m1, m2, m3, m4

MCSoort == (reg :> "geregistreerd") @@ (bg :> "buitengebruik")
MCQueue == [b \in Berichten |-> "monitoring.beheer-kunstwerk"]
MCRang == (reg :> 1) @@ (bg :> 2)
MCKopieen == [b \in Berichten |-> 1]

Waarde(sensor, waarde) == [sensor |-> sensor, waarde |-> waarde]
MCData ==
  (m1 :> Waarde("Trilling", 10)) @@ (m2 :> Waarde("Belasting", 124))
    @@ (m3 :> Waarde("Slijtage", 101)) @@ (m4 :> Waarde("Temperatuur", -5))
=============================================================================
