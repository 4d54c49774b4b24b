--------------------------- MODULE MCDecisionsAndLog ---------------------------
(***************************************************************************)
(* The decisions of the heals, and the log and the auditor that account    *)
(* for them.  They share no state in these models: the log knows a heal by *)
(* its record alone.  A behaviour moves one of the two, chosen at the      *)
(* start, and leaves the other as it began.                                *)
(***************************************************************************)
EXTENDS MCHealDecision, LogAudit, TLC

VARIABLE part

Symmetry == Permutations(Incidents) \cup Permutations(Stampers) \cup Permutations(Heals)

AccountInit ==
  /\ DecisionInit /\ AuditInit
  /\ part \in {"decision", "log"}
  /\ part = "log" => serving = 1 /\ level = "L3" /\ quality = <<"good", "bad", "slow">>

AccountNext ==
  /\ UNCHANGED part
  /\ \/ part = "decision" /\ DecisionNext /\ UNCHANGED vars
     \/ part = "log" /\ AuditNext /\ UNCHANGED decisionvars

AccountSpec == AccountInit /\ [][AccountNext]_<<decisionvars, vars, part>>
================================================================================
