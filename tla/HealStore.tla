----------------------------- MODULE HealStore -----------------------------
(***************************************************************************)
(* The documents of the durable store (agent/autosre/state_store.py) that  *)
(* the self-heal run coordinates through, and the mutators the store       *)
(* applies to them.  transact() reads a document, runs the mutator and     *)
(* writes the result in one atomic step per (collection, id), so each      *)
(* mutator is an operator from the old document to the new one and every   *)
(* action that uses one is a single step.                                  *)
(*                                                                         *)
(* The code stores absolute expiry times and compares them with            *)
(* time.time().  A lease here is the time it has left: `until > now' is    *)
(* lease > 0, and a lease that is absent or lapsed is 0.                   *)
(***************************************************************************)
EXTENDS Naturals, FiniteSets

CONSTANTS
  Incident,         \* Monitoring incident ids (document ids of heal_runs)
  NoIncident,       \* no leader yet / no owner
  HealLease,        \* config.HEAL_LEASE_S
  ServiceLease,     \* config.SERVICE_HEAL_LEASE_S
  ApprovalHold,     \* config.APPROVAL_TTL_S, the hold a settle may ask for
  MaxHealAttempts   \* config.MAX_HEAL_ATTEMPTS

ASSUME StoreAssumption ==
  /\ NoIncident \notin Incident
  /\ HealLease \in Nat \ {0}
  /\ ServiceLease \in Nat /\ ServiceLease >= HealLease
  /\ ApprovalHold \in Nat
  /\ MaxHealAttempts \in Nat \ {0}

\* One unit of time passes for a lease.
Elapse(lease) == IF lease > 0 THEN lease - 1 ELSE 0
Aged(doc) == [doc EXCEPT !.lease = Elapse(@)]

-----------------------------------------------------------------------------
(* heal_runs/<incident>: the per-incident claim and its circuit breaker.   *)

HealDoc ==
  [lease : 0..HealLease, done : BOOLEAN, attempts : 0..MaxHealAttempts]

\* An absent document reads as all defaults.
NoHealDoc == [lease |-> 0, done |-> FALSE, attempts |-> 0]

\* Mutated form: a claim that does not look at the lease of a running heal.
ClaimVerdictBlind(doc) ==
  IF doc.done THEN "duplicate"
  ELSE IF doc.attempts >= MaxHealAttempts THEN "exhausted" ELSE "claimed"

\* Mutated form: a claim that forgets the heal already finished.
ClaimVerdictRerun(doc) ==
  IF doc.lease > 0 THEN "duplicate"
  ELSE IF doc.attempts >= MaxHealAttempts THEN "exhausted" ELSE "claimed"

\* Mutated form: the breaker trips one attempt late.
ClaimVerdictLate(doc) ==
  IF doc.done \/ doc.lease > 0 THEN "duplicate"
  ELSE IF doc.attempts > MaxHealAttempts THEN "exhausted" ELSE "claimed"

\* What claim_heal answers.
ClaimVerdict(doc) ==
  IF doc.done \/ doc.lease > 0 THEN "duplicate"
  ELSE IF doc.attempts >= MaxHealAttempts THEN "exhausted" ELSE "claimed"

\* Mutated form: the breaker trips without marking the heal done.
ExhaustedSilently(doc) == [doc EXCEPT !.lease = 0]

\* What claim_heal writes when it answers "claimed" and "exhausted".
Claimed(doc)   == [lease |-> HealLease, done |-> FALSE, attempts |-> doc.attempts + 1]
Exhausted(doc) == [lease |-> 0, done |-> TRUE, attempts |-> doc.attempts]

FinishHeal(doc)  == [lease |-> 0, done |-> TRUE, attempts |-> doc.attempts]
ReleaseHeal(doc) == [doc EXCEPT !.lease = 0]

-----------------------------------------------------------------------------
(* service_heals/<service>: the correlation lease that coalesces a storm.  *)

ServiceDoc ==
  [leader : Incident \cup {NoIncident},
   lease  : Nat,
   attached : SUBSET Incident]

NoServiceDoc == [leader |-> NoIncident, lease |-> 0, attached |-> {}]

\* Mutated form: liveness of the current leader is not checked.
ServiceRoleGreedy(doc, i) == "leader"

\* What claim_service_heal answers: a live lease of another incident makes
\* the caller a follower; a lapsed one, or the caller's own, makes it leader.
ServiceRole(doc, i) ==
  IF doc.lease > 0 /\ doc.leader # i THEN "follower" ELSE "leader"

\* What claim_service_heal writes: attach, refresh one's own lease, or take over.
ClaimService(doc, i) ==
  IF ServiceRole(doc, i) = "follower"
  THEN [doc EXCEPT !.attached = @ \cup {i}]
  ELSE IF doc.lease > 0
       THEN [doc EXCEPT !.lease = ServiceLease]
       ELSE [leader |-> i, lease |-> ServiceLease, attached |-> {}]

\* Mutated form: a settle that does not check who leads.
SettleAnyone(doc, i, hold) == [doc EXCEPT !.lease = hold]

\* settle_service_heal re-aims the lease of the current leader and is a no-op
\* for anybody else.
SettleService(doc, i, hold) ==
  IF doc.leader = i THEN [doc EXCEPT !.lease = hold] ELSE doc
=============================================================================
