------------------------------ MODULE Bezorging ------------------------------
(***************************************************************************)
(* What the producers' outboxes promise the rest of the system (docs/      *)
(* events.md, "at-least-once"): an event that was written is delivered to   *)
(* the exchange, and not before an event of an earlier millisecond that was *)
(* already written when it came about.  Events that come about in the same  *)
(* millisecond have no order.  The one exception the relay cannot exclude   *)
(* is an event that gets lost with the process (kwijt).                     *)
(***************************************************************************)
CONSTANTS Events

VARIABLES
  geschreven,  \* the events whose row is committed
  gelijktijdig, \* the events that came about in the current millisecond
  eerder,      \* eerder[e]: those of earlier ones already committed when e came about
  bezorgd,     \* the events that reached the exchange
  kwijt        \* the events given up with the process that held them

vars == <<geschreven, gelijktijdig, eerder, bezorgd, kwijt>>

Init ==
  /\ geschreven = {}
  /\ gelijktijdig = {}
  /\ eerder = [e \in Events |-> {}]
  /\ bezorgd = {}
  /\ kwijt = {}

\* Events come about: everything written so far in earlier milliseconds precedes them.
Ontstaat(S) ==
  /\ S # {}
  /\ S \cap geschreven = {}
  /\ gelijktijdig' = gelijktijdig \cup S
  /\ eerder' = [e \in Events |-> IF e \in S THEN geschreven \ gelijktijdig ELSE eerder[e]]
  /\ UNCHANGED <<geschreven, bezorgd, kwijt>>

Tik ==
  /\ gelijktijdig' = {}
  /\ UNCHANGED <<geschreven, eerder, bezorgd, kwijt>>

Schrijf(S) ==
  /\ S # {}
  /\ S \cap geschreven = {}
  /\ geschreven' = geschreven \cup S
  /\ UNCHANGED <<gelijktijdig, eerder, bezorgd, kwijt>>

Bezorg(e) ==
  /\ e \in geschreven \ bezorgd
  /\ eerder[e] \subseteq bezorgd \cup kwijt
  /\ bezorgd' = bezorgd \cup {e}
  /\ UNCHANGED <<geschreven, gelijktijdig, eerder, kwijt>>

Verlies(S) ==
  /\ S # {}
  /\ S \subseteq geschreven \ (bezorgd \cup kwijt)
  /\ kwijt' = kwijt \cup S
  /\ UNCHANGED <<geschreven, gelijktijdig, eerder, bezorgd>>

Next ==
  \/ \E S \in SUBSET Events : Ontstaat(S) \/ Schrijf(S) \/ Verlies(S)
  \/ \E e \in Events : Bezorg(e)
  \/ Tik

Veilig == Init /\ [][Next]_vars

\* At least once.
Levend == \A e \in Events : e \in geschreven ~> e \in bezorgd \cup kwijt

Spec == Veilig /\ Levend
=============================================================================
