---------------------------- MODULE MCBeheerEisen ----------------------------
(* The instances of BeheerEisen that TLC checks. *)
EXTENDS BeheerEisen
=============================================================================
