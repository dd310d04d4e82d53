----------------------------- MODULE Verversing -----------------------------
(***************************************************************************)
(* How a page keeps one list up to date: the Regiekamer's usePolling       *)
(* (src/frontends/beheer), Sven's usePolling with useNewRows, and the      *)
(* portal's react-query.  Reads overlap, so that an older answer may come  *)
(* after a newer one; a row that is new is highlighted for a while.        *)
(* Rows are only added, so that a list is a number of rows.                *)
(***************************************************************************)
EXTENDS Naturals, FiniteSets

CONSTANTS
  MaxRijen,      \* rows
  MaxVluchten,   \* reads under way at a time
  MaxVragen      \* reads in all

ASSUME VerversingAanname == MaxRijen \in Nat /\ MaxVluchten \in Nat \ {0} /\ MaxVragen \in Nat

VARIABLES
  hook,         \* which of the three
  sleutels,     \* "anders": LiveList looks a row up by another id than usePolling keeps it by
  rijen,        \* rows the service has
  vluchten,     \* reads under way: [nr, rijen], rijen = Niets until the service read them
  vragen,       \* bounded: reads begun
  getoond,      \* rows the page shows, or Niets
  vorige,       \* previousIds (Regiekamer), seen (Sven), or Niets before the first answer
  flits,        \* the rows that are highlighted
  wissers,      \* timers that will end a highlight: [nr, rijen]
  gestopt,      \* history: an answer without new rows stopped the timer of Sven's highlight
  geflitst,     \* history: how often a row began to be highlighted on the screen
  eerste,       \* history: rows of the first answer
  omgekeerd     \* history: an answer with fewer rows came after one with more

verversVars == <<hook, sleutels, rijen, vluchten, vragen, getoond, vorige, flits, wissers, gestopt, geflitst,
                eerste, omgekeerd>>

Niets == MaxRijen + 1
Rij == 1..MaxRijen
Aantal == 0..Niets

VerversTypeOK ==
  /\ hook \in {"regiekamer", "sven", "portaal"} /\ sleutels \in {"gelijk", "anders"} /\ gestopt \in BOOLEAN
  /\ rijen \in 0..MaxRijen /\ getoond \in Aantal /\ vorige \in Aantal /\ eerste \in Aantal
  /\ vluchten \subseteq [nr : 1..MaxVragen, rijen : Aantal]
  /\ wissers \subseteq [nr : 1..MaxVragen, rijen : SUBSET Rij]
  /\ vragen \in 0..MaxVragen /\ flits \subseteq Rij
  /\ geflitst \in [Rij -> Nat] /\ omgekeerd \in BOOLEAN

\* In five lists of the Regiekamer a row has no `id`, and entityId without the list's own keys
\* answers its kunstwerkId: beoordelingen, onderhoudstrajecten, storingen, aanbestedingen and
\* contracten.
VerversInit ==
  /\ hook \in {"regiekamer", "sven", "portaal"}
  /\ sleutels \in (IF hook = "regiekamer" THEN {"gelijk", "anders"} ELSE {"gelijk"})
  /\ rijen \in 0..MaxRijen
  /\ vluchten = {} /\ vragen = 0
  /\ getoond = Niets /\ vorige = Niets
  /\ flits = {} /\ wissers = {} /\ gestopt = FALSE
  /\ geflitst = [r \in Rij |-> 0] /\ eerste = Niets /\ omgekeerd = FALSE

-----------------------------------------------------------------------------
(* The service, and the reads *)

NieuweRij ==
  /\ rijen < MaxRijen /\ rijen' = rijen + 1
  /\ UNCHANGED <<hook, sleutels, vluchten, vragen, getoond, vorige, flits, wissers, gestopt, geflitst, eerste, omgekeerd>>

Begin(oude) ==
  /\ vragen < MaxVragen /\ vragen' = vragen + 1
  /\ vluchten' = oude \cup {[nr |-> vragen + 1, rijen |-> Niets]}
  /\ UNCHANGED <<hook, sleutels, rijen, getoond, vorige, flits, wissers, gestopt, geflitst, eerste, omgekeerd>>

\* The interval: a read begins whether or not one is under way; react-query waits for it.
Tik ==
  /\ IF hook = "portaal" THEN vluchten = {} ELSE Cardinality(vluchten) < MaxVluchten
  /\ Begin(vluchten)

\* A form of the Regiekamer reads the list again after its request, done or not.
VerversNaFormulier ==
  /\ hook = "regiekamer" /\ Cardinality(vluchten) < MaxVluchten
  /\ Begin(vluchten)

\* A mutation of the portal invalidates its lists: a read under way is cancelled and its
\* answer dropped, unless the list has no rows to show yet.
Invalideer ==
  /\ hook = "portaal" /\ (getoond = Niets => vluchten = {})
  /\ Begin({})

Lees(v) ==
  /\ v.rijen = Niets
  /\ vluchten' = (vluchten \ {v}) \cup {[v EXCEPT !.rijen = rijen]}
  /\ UNCHANGED <<hook, sleutels, rijen, vragen, getoond, vorige, flits, wissers, gestopt, geflitst, eerste, omgekeerd>>

\* A failed read: the Regiekamer shows no rows any more, the others keep what they have.
LeesMislukt(v) ==
  /\ vluchten' = vluchten \ {v}
  /\ getoond' = IF hook = "regiekamer" THEN Niets ELSE getoond
  /\ UNCHANGED <<hook, sleutels, rijen, vragen, vorige, flits, wissers, gestopt, geflitst, eerste, omgekeerd>>

-----------------------------------------------------------------------------
(* The page takes an answer *)

\* LiveList highlights the rows of flits by the id it looks up: none when the ids differ.
Flits(nieuw) ==
  geflitst' = [r \in Rij |-> geflitst[r] + (IF sleutels = "gelijk" /\ r \in nieuw THEN 1 ELSE 0)]
Wisser(v, nieuw) == {[nr |-> v.nr, rijen |-> nieuw]}

\* New is what the previous answer did not have; a timer of its own ends each highlight.
ToonRegiekamer(v) ==
  LET nieuw == IF vorige = Niets THEN {} ELSE (vorige + 1)..v.rijen
  IN  /\ flits' = flits \cup nieuw
      /\ wissers' = IF nieuw = {} THEN wissers ELSE wissers \cup Wisser(v, nieuw)
      /\ vorige' = v.rijen
      /\ Flits(nieuw) /\ UNCHANGED gestopt

\* Defective variant: the rows of the first answer are new.
ToonSvenAllesNieuw(v) ==
  LET nieuw == (IF vorige = Niets THEN 1 ELSE vorige + 1)..v.rijen
  IN  /\ flits' = IF nieuw = {} THEN flits ELSE nieuw
      /\ wissers' = IF nieuw = {} THEN {} ELSE Wisser(v, nieuw)
      /\ vorige' = IF vorige = Niets \/ v.rijen > vorige THEN v.rijen ELSE vorige
      /\ Flits(nieuw) /\ gestopt' = (nieuw = {} /\ flits # {})

\* New is what no answer had so far.  The effect runs at every answer, and its clean-up
\* stops the timer of the highlight before, which then stays until there are new rows: answers
\* come every 2000 ms, the timer is of 2500 ms.
ToonSven(v) ==
  LET nieuw == IF vorige = Niets THEN {} ELSE (vorige + 1)..v.rijen
  IN  /\ flits' = IF nieuw = {} THEN flits ELSE nieuw
      /\ wissers' = IF nieuw = {} THEN {} ELSE Wisser(v, nieuw)
      /\ vorige' = IF vorige = Niets \/ v.rijen > vorige THEN v.rijen ELSE vorige
      /\ Flits(nieuw) /\ gestopt' = (nieuw = {} /\ flits # {})

ToonPortaal(v) == UNCHANGED <<flits, wissers, gestopt, vorige, geflitst>>

Toon(v) ==
  /\ v.rijen # Niets
  /\ vluchten' = vluchten \ {v}
  /\ getoond' = v.rijen
  /\ eerste' = IF eerste = Niets THEN v.rijen ELSE eerste
  /\ omgekeerd' = (omgekeerd \/ (getoond # Niets /\ v.rijen < getoond) \/ (vorige # Niets /\ v.rijen < vorige))
  /\ \/ hook = "regiekamer" /\ ToonRegiekamer(v)
     \/ hook = "sven" /\ ToonSven(v)
     \/ hook = "portaal" /\ ToonPortaal(v)
  /\ UNCHANGED <<hook, sleutels, rijen, vragen>>

EindeFlits(w) ==
  /\ wissers' = wissers \ {w}
  /\ flits' = IF hook = "sven" THEN {} ELSE flits \ w.rijen
  /\ UNCHANGED <<hook, sleutels, rijen, vluchten, vragen, getoond, vorige, gestopt, geflitst, eerste, omgekeerd>>

VerversNext ==
  \/ NieuweRij \/ Tik \/ VerversNaFormulier \/ Invalideer
  \/ \E v \in vluchten : Lees(v) \/ LeesMislukt(v) \/ Toon(v)
  \/ \E w \in wissers : EindeFlits(w)

-----------------------------------------------------------------------------
\* A highlight means "new": however reads overlap, fail and overtake each other, a row of the
\* first answer is never highlighted; a row shown that came later was highlighted, except in
\* the lists of the Regiekamer whose ids differ, where none ever is; and only in the
\* Regiekamer, after an answer that was overtaken, can one be so twice.  There every
\* highlight has a timer that ends it.  In Sven it has one, for exactly the rows that are
\* highlighted, until an answer without new rows stops it: from then on nothing ends the
\* highlight but new rows.  The portal never goes back to fewer rows.
FlitsKlopt ==
  /\ hook # "portaal" => \A r \in Rij :
       /\ r > eerste /\ getoond # Niets /\ r <= getoond => (geflitst[r] > 0 <=> sleutels = "gelijk")
       /\ hook = "sven" \/ ~omgekeerd => geflitst[r] <= (IF r > eerste THEN 1 ELSE 0)
  /\ hook = "regiekamer" => \A r \in flits : \E w \in wissers : r \in w.rijen
  /\ hook = "sven" => IF flits = {} \/ gestopt
                      THEN wissers = {}
                      ELSE Cardinality(wissers) = 1 /\ \A w \in wissers : w.rijen = flits
  /\ hook = "portaal" => ~omgekeerd
=============================================================================
