------------------------------- MODULE MCBeheer -------------------------------
(* The instance of Beheer that TLC checks: two registraties, a PATCH of the naam and  *)
(* one of the status, two buitengebruikstellingen; two sets of ontwerpeisen and one of *)
(* onderhoudseisen; a rapport of Monitoring that is published twice, one about one      *)
(* sensor only, one with a bad envelope, and an onderhoudsrapport, which is text.       *)
EXTENDS Beheer, TLC

CONSTANTS g1, g2, w1, w2, b1, b2, o1, o2, h1, mon, deel, fout, oh, brug, sluis

In(naam, status) == [naam |-> naam, status |-> status]
MCOpgave ==
  (g1 :> In(brug, "Geregistreerd")) @@ (g2 :> In(sluis, "BuitenGebruik"))
    @@ (w1 :> In(sluis, Geen)) @@ (w2 :> In(Geen, "InGebruik"))

Eis(code, meetwaarde, operator, grens) ==
  [code |-> code, meetwaarde |-> meetwaarde, operator |-> operator, grens |-> grens]
MCEisenVan ==
  (o1 :> {Eis("E1", "trilling", "<=", 5), Eis("Slijtage", "corrosie", "<", 60)})
    @@ (o2 :> {Eis("E1", "trilling", "<", 5), Eis("E3", "totaalIncidenten", "=", 1)})
    @@ (h1 :> {Eis("H1", "speling", ">=", 2), Eis("H2", "corrosiescore", ">", 7)})

MCSoort ==
  (o1 :> "ontwerp") @@ (o2 :> "ontwerp") @@ (h1 :> "onderhoud") @@ (mon :> "ontwerp")
    @@ (deel :> "ontwerp") @@ (fout :> "ontwerp") @@ (oh :> "onderhoud")

Post(soort, naam, waarde) == [soort |-> soort, naam |-> naam, waarde |-> waarde]
MCBron ==
  (mon :> <<Post("sensor", "Trilling", 5), Post("sensor", "Slijtage", 40), Post("getal", "totaalIncidenten", 1)>>)
    @@ (deel :> <<Post("sensor", "Trilling", 4), Post("getal", "totaalIncidenten", 0)>>)
    @@ (fout :> <<>>) @@ (oh :> <<Post("tekst", "resultaat", 0)>>)

MCKopieen == [e \in Rapporten |-> IF e = mon THEN 2 ELSE 1]
=============================================================================
