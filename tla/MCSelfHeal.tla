---------------------------- MODULE MCSelfHeal ----------------------------
(* SelfHeal on small instances.                                            *)
EXTENDS SelfHeal, TLC

\* Incidents are interchangeable, and so are workers: no action or property
\* names one of them.
Symmetry == Permutations(Incident) \cup Permutations(Worker)
=============================================================================
