---------------------------- MODULE MCAanbesteding ----------------------------
(* The instance of Aanbesteding that TLC checks: two inschrijvers, one of them *)
(* cheaper and better than the other, and two gunners.                        *)
EXTENDS Aanbesteding, TLC

CONSTANTS b1, b2

MCPrijs     == (b1 :> 2) @@ (b2 :> 1)
MCKwaliteit == (b1 :> 50) @@ (b2 :> 80)
=============================================================================
