------------------------ MODULE MCCompleteRollback ------------------------
(* TLC instances of CompleteRollback. *)
EXTENDS CompleteRollback, TLC

\* Two stages: one partial, one full.
TwoStages == <<10, 100>>

\* The stages config.py sets.
ThreeStages == <<10, 50, 100>>

Symmetry == Permutations(Incident) \cup Permutations(Completer)
=============================================================================
