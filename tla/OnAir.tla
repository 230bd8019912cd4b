-------------------------------- MODULE OnAir --------------------------------
(***************************************************************************)
(* What a course promises the people who read it, with nothing of how: one  *)
(* revision at most is on air; it is put there only when it is fit, that is *)
(* when it was judged under every rule that has reached it; a change of the *)
(* rules takes fitness away and leaves learners where they are; what was    *)
(* taken off air is retired and never comes back.                           *)
(***************************************************************************)
CONSTANTS Rev, None

VARIABLES
    onAir,    \* the revision learners are served, or None
    fit,      \* the revisions that may be put on air
    retired   \* the revisions withdrawn or archived for good

vars == <<onAir, fit, retired>>

Init == onAir = None /\ fit = {} /\ retired = {}

\* A revision passes every check.
Judge(r) ==
    /\ r \notin retired
    /\ fit' = fit \cup {r}
    /\ UNCHANGED <<onAir, retired>>

\* Revisions must be judged again; the one on air stays on air meanwhile.
Recall(R) ==
    /\ fit' = fit \ R
    /\ UNCHANGED <<onAir, retired>>

Switch(r) ==
    /\ r \in fit
    /\ onAir' = r
    /\ UNCHANGED <<fit, retired>>

Retire(r) ==
    /\ retired' = retired \cup {r}
    /\ fit' = fit \ {r}
    /\ onAir' = IF onAir = r THEN None ELSE onAir

Next ==
    \/ \E r \in Rev : Judge(r) \/ Switch(r) \/ Retire(r)
    \/ \E R \in SUBSET Rev : Recall(R)

Spec == Init /\ [][Next]_vars
=============================================================================
