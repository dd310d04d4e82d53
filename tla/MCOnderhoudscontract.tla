------------------------ MODULE MCOnderhoudscontract ------------------------
(* The instance of Onderhoudscontract that TLC checks: a gunning, a rise, a  *)
(* cut that the value may not bear, a prestatieverklaring fed by the KPI,      *)
(* an afronding; a kunstwerk that goes out of use, two sets of eisen and three *)
(* rapporten over two rows, the first published twice.                         *)
EXTENDS Onderhoudscontract, TLC

CONSTANTS w1, w2, v1, reg, bg, oe1, oe2, r1, r2, r3

MCSoort ==
  [b \in Berichten |->
     CASE b = reg -> "geregistreerd" [] b = bg -> "buitengebruik"
       [] b \in {oe1, oe2} -> "ontwerpeisen" [] OTHER -> "rapport"]
MCQueue == [b \in Berichten |-> QueueVan(MCSoort[b])]
MCRang == (reg :> 1) @@ (bg :> 2) @@ (oe1 :> 3) @@ (oe2 :> 4) @@ (r1 :> 5) @@ (r2 :> 6) @@ (r3 :> 7)
MCKopieen == [b \in Berichten |-> IF b = r1 THEN 2 ELSE 1]
MCRij == [b \in Berichten |-> IF b = r2 THEN "incident" ELSE "algemeen"]

Getal(n) == [getal |-> n, totaal |-> Geen, open |-> Geen]
MCResultaten == [b \in Berichten |->
  CASE b = r1 -> Getal(130) [] b = r2 -> [getal |-> Geen, totaal |-> 8, open |-> 3] [] OTHER -> Getal(40)]

MCMutatie == (w1 :> 50) @@ (w2 :> -120)
MCScore == (v1 :> Geen)
=============================================================================
