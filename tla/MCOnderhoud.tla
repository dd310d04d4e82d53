------------------------------ MODULE MCOnderhoud ------------------------------
(* The instance of Onderhoud that TLC checks: a storing, a diagnose, two starts, *)
(* two inspecties of which one is goed, two afrondingen, a factuur, a keuring and  *)
(* a schema; a kunstwerk that goes out of use, a set of eisen, a contract (its       *)
(* gunning published twice) and a zwaar incident that is published twice.            *)
EXTENDS Onderhoud, TLC

CONSTANTS reg, bg, oe, gu, ag, inc

MCSoort ==
  (reg :> "geregistreerd") @@ (bg :> "buitengebruik") @@ (oe :> "onderhoudseisen")
    @@ (gu :> "gegund") @@ (ag :> "afgerond") @@ (inc :> "incident")
MCQueue == [b \in Berichten |-> QueueVan(MCSoort[b])]
MCRang == (reg :> 1) @@ (bg :> 2) @@ (oe :> 3) @@ (gu :> 4) @@ (ag :> 5) @@ (inc :> 6)
MCKopieen == [b \in Berichten |-> IF b \in {gu, inc} THEN 2 ELSE 1]
=============================================================================
