----------------------------- MODULE Frontends ------------------------------
(***************************************************************************)
(* The three frontends of the repository.  Their parts share no state in   *)
(* the browser (each is a page or a hook of its own, and what they share   *)
(* is behind the services), so that a behaviour is that of one part:       *)
(*   "route"    the demo route of the Regiekamer or of Sven (Demoroute),   *)
(*   "lijst"    a list that is kept up to date and highlighted             *)
(*              (Verversing),                                              *)
(*   "portaal"  the session of a tab of the portal (Portaal),              *)
(*   "pagina"   a page of the portal that offers actions (Portaalpaginas). *)
(***************************************************************************)
EXTENDS Demoroute, Verversing, Portaal, Portaalpaginas

VARIABLE deel

allVars == <<deel, routeVars, verversVars, portaalVars, paginaVars>>

Delen == {"route", "lijst", "portaal", "pagina"}

TypeOK ==
  deel \in Delen /\ RouteTypeOK /\ VerversTypeOK /\ PortaalTypeOK /\ PaginaTypeOK

\* The parts that do not run stand still in one of their initial states.
Init ==
  /\ deel \in Delen
  /\ RouteInit /\ (deel # "route" => pagina = "sven")
  /\ VerversInit /\ (deel # "lijst" => hook = "portaal" /\ rijen = 0)
  /\ PortaalInit
  /\ PaginaInit /\ (deel # "pagina" => soort = "incident")

Next ==
  \/ deel = "route" /\ RouteNext /\ UNCHANGED <<deel, verversVars, portaalVars, paginaVars>>
  \/ deel = "lijst" /\ VerversNext /\ UNCHANGED <<deel, routeVars, portaalVars, paginaVars>>
  \/ deel = "portaal" /\ PortaalNext /\ UNCHANGED <<deel, routeVars, verversVars, paginaVars>>
  \/ deel = "pagina" /\ PaginaNext /\ UNCHANGED <<deel, routeVars, verversVars, portaalVars>>

Spec == Init /\ [][Next]_allVars
=============================================================================
