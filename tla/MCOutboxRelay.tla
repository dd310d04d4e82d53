---------------------------- MODULE MCOutboxRelay ----------------------------
(* The instances of OutboxRelay that TLC checks: the events of a publication  *)
(* and then, in one call, the two events of a gunning.                        *)
EXTENDS OutboxRelay

CONSTANTS e1, e2, e3

MCGroepen == <<{e1}, {e2, e3}>>
=============================================================================
