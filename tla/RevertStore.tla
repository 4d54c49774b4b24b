---------------------------- MODULE RevertStore ----------------------------
(***************************************************************************)
(* The pending revert of a service (agent/autosre/pending.py): what is     *)
(* needed to undo a temporary rollback later, and the lease that lets one  *)
(* complete_rollback at a time do it.  Each operator is the mutator that   *)
(* one atomic step of the store applies to the document; leases are the    *)
(* time they have left, as in HealStore.                                   *)
(***************************************************************************)
EXTENDS Naturals

CONSTANTS
  Incident,          \* Monitoring incident ids
  NoIncident,        \* no incident
  MaxRev,            \* bound on the revisions of the service
  CompleteLease,     \* config.COMPLETE_LEASE_S
  MaxUndoAttempts    \* config.MAX_UNDO_ATTEMPTS

ASSUME RevertStoreAssumption ==
  /\ NoIncident \notin Incident
  /\ MaxRev \in Nat
  /\ CompleteLease \in Nat \ {0}
  /\ MaxUndoAttempts \in Nat

Rev == 1..MaxRev   \* revisions, numbered as they are created; 0 is none

Revert ==
  [inc : Incident, bad : Rev, safe : Rev, counted : BOOLEAN,
   attempts : Nat, lease : 0..CompleteLease]

\* No document.
NoRevert == [inc |-> NoIncident, bad |-> 0, safe |-> 0, counted |-> FALSE,
             attempts |-> 0, lease |-> 0]

\* Mutated form: a re-arm unlocks the record under a running completion.
SetPendingUnlocks(cur, data) == [data EXCEPT !.lease = 0]

\* set_pending keeps the lease and the attempts of a completion in flight.
SetPending(cur, data) ==
  IF cur.lease > 0
  THEN [data EXCEPT !.lease = cur.lease, !.attempts = cur.attempts]
  ELSE [data EXCEPT !.lease = 0]

\* try_begin_complete answers TRUE and locks the record, or answers FALSE.
MayComplete(cur)   == cur # NoRevert /\ cur.lease = 0
BeginComplete(cur) == [cur EXCEPT !.lease = CompleteLease]

\* Mutated form: a failed undo is not counted.
BumpNothing(cur) == cur

BumpAttempts(cur) == IF cur = NoRevert THEN cur ELSE [cur EXCEPT !.attempts = @ + 1]

\* Mutated form: a completion that did not close drops the record all the same.
EndCompleteDrops(cur, closed) == NoRevert

\* end_complete deletes the record of a closed transaction, whoever armed it, and
\* otherwise unlocks it.
EndComplete(cur, closed) ==
  IF closed \/ cur = NoRevert THEN NoRevert ELSE [cur EXCEPT !.lease = 0]
=============================================================================
