----------------------------- MODULE MCFrontends ------------------------------
(* The instance of Frontends that TLC checks: two steps at a time, asked at most twice,  *)
(* and two disturbances; three rows and two overlapping reads; three tokens and one      *)
(* context; three versions of an object and two writes under way; a page of the portal   *)
(* that is left and returned to any number of times.                                     *)
EXTENDS Frontends

OudeStapLoopt == \E l \in lopen : l.gen # Heden

\* Of two clicks off Sven's route, the second is explored when it leaves a step running that
\* began before a Reset: the clicks that meet with a step of another generation.  Failures,
\* and the Regiekamer, are not restricted.
TweedeIngreep == pagina = "sven" /\ ingrepen = 1 /\ ingrepen' = 2 => OudeStapLoopt'

\* A page of the portal is left with one write of it under way, and of the three with the most
\* actions only once the service has done that write: leaving earlier differs in nothing but
\* the buttons after coming back, which the other pages show.
PaginaVerlaten ==
  zichtbaar /\ ~zichtbaar' =>
    /\ Cardinality(mutaties) = 1
    /\ soort \in {"traject", "contract", "aanbesteding"} => \A m \in mutaties : m.fase = "gedaan"
=============================================================================
