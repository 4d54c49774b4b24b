----------------------------- MODULE TrustRamp -----------------------------
(***************************************************************************)
(* The autonomy document of a service (agent/autosre/autonomy.py): how     *)
(* much Airbag may do on its own, the streak of verified heals, and, under *)
(* AIRBAG_APPROVAL_COALESCE, the incident a demotion was caused by.        *)
(***************************************************************************)
EXTENDS Naturals

CONSTANTS
  PromoteAfter,       \* config.AUTONOMY_PROMOTE_AFTER
  ApprovalCoalesce,   \* config.APPROVAL_COALESCE
  Nobody              \* no demotion on record

ASSUME TrustAssumption == PromoteAfter \in Nat /\ ApprovalCoalesce \in BOOLEAN

Levels == {"L0", "L1", "L2", "L3"}
Autonomous == {"L2", "L3"}

AutonomyDoc(Causes) ==
  [level : Levels, streak : Nat, advise : BOOLEAN, by : Causes \cup {Nobody}]

Trusted(level) == [level |-> level, streak |-> 0, advise |-> FALSE, by |-> Nobody]

\* Mutated form: the breadcrumb names the latest failure, not the demoting one.
RecordOutcomeLatest(doc, success, i) ==
  IF success THEN [doc EXCEPT !.streak = @ + 1]
  ELSE [doc EXCEPT !.streak = 0, !.advise = FALSE, !.by = i,
                   !.level = IF @ \in Autonomous THEN "L1" ELSE @]

\* record_outcome: a success builds the streak and may suggest (only suggest) a
\* promotion; a failure resets it and takes autonomy away.
RecordOutcome(doc, success, i) ==
  IF success
  THEN [doc EXCEPT !.streak = @ + 1,
                   !.advise = doc.streak + 1 >= PromoteAfter /\ doc.level # "L3"]
  ELSE [doc EXCEPT !.streak = 0,
                   !.advise = FALSE,
                   !.level = IF @ \in Autonomous THEN "L1" ELSE @,
                   !.by = IF ApprovalCoalesce /\ doc.level \in Autonomous THEN i ELSE @]

\* set_level: an operator grants a level, which clears the breadcrumb.
SetLevel(doc, level) == [doc EXCEPT !.level = level, !.advise = FALSE, !.by = Nobody]
=============================================================================
