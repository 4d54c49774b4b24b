-------------------------- MODULE CompleteRollback --------------------------
(***************************************************************************)
(* A temporary rollback from the moment it moves traffic to the moment it  *)
(* is undone (agent/autosre/state_machine.py), for ONE service: heals that *)
(* roll back and arm the pending revert (_mitigate), complete_rollback     *)
(* requests that canary the fix, restore traffic and close or compensate,  *)
(* the L2 approval that rewrites the pending revert with its pull request, *)
(* deploys of new revisions, and the operator who sets the autonomy level. *)
(*                                                                         *)
(* Every call of the store or of Cloud Run is one step.  Any of them may   *)
(* raise, and the process may die between any two.                         *)
(***************************************************************************)
EXTENDS RevertStore, TrustRamp, Sequences, FiniteSets

CONSTANTS
  Completer,          \* requests that may be running complete_rollback
  CanaryStages,       \* config.CANARY_STAGES
  CloseSettlement,    \* config.CLOSE_SETTLEMENT
  InitialLevel,       \* config.AUTONOMY_LEVEL
  GrantLevels,        \* the levels an operator sets
  BoundedCompletions, \* a completion ends before its lease (COMPLETE_LEASE_S)
  FixApprovals,       \* L2 gates its fix pull requests
  MaxHeals,           \* bound on the heals that move traffic
  MaxFaults,          \* bound on the calls that raise and the processes that die
  MaxGrants           \* bound on set_level calls

ASSUME CompleteAssumption ==
  /\ MaxRev >= 2
  /\ CanaryStages \in Seq(1..100) /\ Len(CanaryStages) > 0
  /\ CanaryStages[Len(CanaryStages)] = 100
  /\ {CloseSettlement, BoundedCompletions, FixApprovals} \subseteq BOOLEAN
  /\ InitialLevel \in Levels /\ GrantLevels \subseteq Levels
  /\ Nobody = NoIncident
  /\ MaxHeals \in Nat /\ MaxFaults \in Nat /\ MaxGrants \in Nat

VARIABLES
  deployed,   \* how many revisions exist and are ready
  good,       \* the healthy ones
  traffic,    \* percent of the traffic each revision serves
  pending,    \* the pending revert document, or NoRevert
  autonomy,   \* the autonomy document
  healer,     \* the heal that is inside _mitigate
  healed,     \* incidents whose heal is done: it is not delivered again
  comp,       \* the complete_rollback requests
  gated,      \* incidents whose fix pull request waits for an approval
  rearm,      \* the record an approved L2 resume read and is about to write back
  \* what happened, for the properties:
  pin,        \* the incident whose rollback or compensation placed the traffic
  robbed,     \* a completion or an approval took a record that was not its own (RobbedBy)
  credits,    \* per incident, how often it was credited to the trust ramp
  undone,     \* per incident, how often its completions moved the traffic back
  broken,     \* per incident, its heals that failed half way and are delivered again
  uncounted,  \* per incident, compensations that failed before bump_attempts counted them
  unclosed,   \* per incident, completions that died before end_complete closed the record
  rewrites,   \* per incident, the records of it that an approved fix wrote back
  culprit,    \* the incident that demoted the service, until a human grants a level
  heals, faults, grants

cloud  == <<deployed, good, traffic>>
tally  == <<credits, undone, broken, uncounted, unclosed, rewrites>>
ghosts == <<pin, robbed, tally, culprit, heals, faults, grants>>
vars == <<cloud, pending, autonomy, healer, healed, comp, gated, rearm, ghosts>>

IdleHeal == [pc |-> "idle", inc |-> NoIncident, bad |-> 0, safe |-> 0, ok |-> FALSE]
IdleComp == [pc |-> "idle", inc |-> NoIncident, bad |-> 0, safe |-> 0,
             counted |-> FALSE, cand |-> 0, stage |-> 0, fuse |-> 0]

\* The steps of a completion before and after `closed = True'.
OpenPc   == {"select", "split", "gate", "compensate", "bump", "demote"}
ClosedPc == {"credit", "close"}
CompPc   == OpenPc \cup ClosedPc \cup {"idle", "giveup", "unlock"}

\* The completion claimed the record and has not let go of it.
Active(c) == comp[c].pc # "idle"
Quiet == healer.pc = "idle" /\ rearm = NoRevert /\ \A c \in Completer : ~Active(c)

AllOn(r) == [x \in Rev |-> IF x = r THEN 100 ELSE 0]
Serving  == {r \in Rev : \A x \in Rev : traffic[x] <= traffic[r]}

\* One revision that worked, and the bad one that was just deployed over it.
Init ==
  /\ deployed = 2 /\ good = {1} /\ traffic = AllOn(2)
  /\ pending = NoRevert
  /\ autonomy = Trusted(InitialLevel)
  /\ healer = IdleHeal /\ healed = {}
  /\ comp = [c \in Completer |-> IdleComp]
  /\ gated = {} /\ rearm = NoRevert
  /\ pin = NoIncident /\ robbed = FALSE /\ culprit = NoIncident
  /\ LET never == [i \in Incident |-> 0]
     IN  /\ credits = never /\ undone = never /\ broken = never
         /\ uncounted = never /\ unclosed = never /\ rewrites = never
  /\ heals = 0 /\ faults = 0 /\ grants = 0

-----------------------------------------------------------------------------
(* The surroundings.                                                       *)

\* A revision is deployed with --no-traffic (traffic is pinned), good or bad.
Deploy ==
  /\ deployed < MaxRev
  /\ deployed' = deployed + 1
  /\ \E g \in BOOLEAN : good' = IF g THEN good \cup {deployed + 1} ELSE good
  /\ UNCHANGED <<traffic, pending, autonomy, healer, healed, comp, gated, rearm, ghosts>>

Grant(level) ==
  /\ grants < MaxGrants
  /\ autonomy' = SetLevel(autonomy, level)
  /\ culprit' = NoIncident
  /\ grants' = grants + 1
  /\ UNCHANGED <<cloud, pending, healer, healed, comp, gated, rearm,
                 pin, robbed, tally, heals, faults>>

\* One more of what a tally counts per incident.
Count(tallied, i) == [tallied EXCEPT ![i] = @ + 1]

\* record_outcome for incident i.
Outcome(success, i) ==
  /\ autonomy' = RecordOutcome(autonomy, success, i)
  /\ credits' = IF success THEN Count(credits, i) ELSE credits
  /\ culprit' = IF ~success /\ autonomy.level \in Autonomous THEN i ELSE culprit

-----------------------------------------------------------------------------
(* _mitigate: roll back, prove recovery, arm the pending revert.           *)

\* rollback_traffic_to_revision for the incident i: away from a serving revision, to
\* any other ready one.  A heal that failed may be delivered again.  (A language model
\* may name a bad revision that is not serving; the model does not let it.)
Rollback(i) ==
  /\ healer.pc = "idle"
  /\ i \notin healed
  /\ heals < MaxHeals
  /\ \E bad \in Serving, target \in 1..deployed :
       /\ bad # target
       /\ traffic' = AllOn(target)
       /\ healer' = [pc |-> "rolled", inc |-> i, bad |-> bad, safe |-> target, ok |-> FALSE]
  /\ pin' = i
  /\ heals' = heals + 1
  /\ UNCHANGED <<deployed, good, pending, autonomy, healed, comp, gated, rearm,
                 robbed, tally, culprit, faults, grants>>

\* _verify, then record_outcome.  A bad target never verifies.
Verified(ok) ==
  /\ healer.pc = "rolled"
  /\ ok => healer.safe \in good
  /\ Outcome(ok, healer.inc)
  /\ healer' = [healer EXCEPT !.pc = "arm", !.ok = ok]
  /\ UNCHANGED <<cloud, pending, healed, comp, gated, rearm, pin, robbed,
                 undone, broken, uncounted, unclosed, rewrites, heals, faults, grants>>

\* L2 files the approval of its fix pull request before it arms the revert.
SaveApproval ==
  /\ FixApprovals
  /\ healer.pc = "arm" /\ healer.ok
  /\ gated' = gated \cup {healer.inc}
  /\ healer' = [healer EXCEPT !.pc = "filed"]
  /\ UNCHANGED <<cloud, pending, autonomy, healed, comp, rearm, ghosts>>

\* set_pending, with outcome_counted when the heal was verified.
Arm ==
  /\ healer.pc \in {"arm", "filed"}
  /\ pending' = SetPending(pending,
       [inc |-> healer.inc, bad |-> healer.bad, safe |-> healer.safe,
        counted |-> CloseSettlement /\ healer.ok, attempts |-> 0, lease |-> 0])
  /\ healer' = [healer EXCEPT !.pc = "armed"]
  /\ UNCHANGED <<cloud, autonomy, healed, comp, gated, rearm, ghosts>>

\* finish_heal: the incident is done, and its heal is not delivered again.
FinishHeal ==
  /\ healer.pc = "armed"
  /\ healed' = healed \cup {healer.inc}
  /\ healer' = IdleHeal
  /\ UNCHANGED <<cloud, pending, autonomy, comp, gated, rearm, ghosts>>

\* A call raises or the process dies, before finish_heal: what was done stays done,
\* and the heal is delivered again.
HealFails ==
  /\ healer.pc # "idle"
  /\ faults < MaxFaults
  /\ faults' = faults + 1
  /\ broken' = Count(broken, healer.inc)
  /\ healer' = IdleHeal
  /\ UNCHANGED <<cloud, pending, autonomy, healed, comp, gated, rearm, pin, robbed,
                 credits, undone, uncounted, unclosed, rewrites, culprit, heals, grants>>

\* Whoever acts on the record of i overwrites or deletes the record that is there,
\* and it is another incident's.
RobbedBy(i) == robbed \/ pending.inc \notin {i, NoIncident}

\* The record an approval read is older than the one that a heal, delivered again
\* after it failed, has armed for the same incident since.
ReadBeforeRearm ==
  pending.inc = rearm.inc /\ broken[rearm.inc] > 0 /\ pending.attempts < rearm.attempts

-----------------------------------------------------------------------------
(* apply_approval of an L2 fix pull request.                               *)

\* The approval is claimed and the pull request opened; get_pending of the service.
FixRead(i) ==
  /\ i \in gated
  /\ rearm = NoRevert
  /\ gated' = gated \ {i}
  /\ rearm' = pending
  /\ UNCHANGED <<cloud, pending, autonomy, healer, healed, comp, ghosts>>

\* The approval is denied or lapses.
FixDropped(i) ==
  /\ i \in gated
  /\ gated' = gated \ {i}
  /\ UNCHANGED <<cloud, pending, autonomy, healer, healed, comp, rearm, ghosts>>

\* The resume dies between its read and its write.
FixFails ==
  /\ rearm # NoRevert
  /\ faults < MaxFaults
  /\ faults' = faults + 1
  /\ rearm' = NoRevert
  /\ UNCHANGED <<cloud, pending, autonomy, healer, healed, comp, gated,
                 pin, robbed, tally, culprit, heals, grants>>

\* set_pending of the record that was read, with the pull request added.
FixWrite ==
  /\ rearm # NoRevert
  /\ pending' = SetPending(pending, rearm)
  /\ rearm' = NoRevert
  /\ rewrites' = Count(rewrites, rearm.inc)
  /\ robbed' = (RobbedBy(rearm.inc) \/ ReadBeforeRearm)
  /\ UNCHANGED <<cloud, autonomy, healer, healed, comp, gated, pin,
                 credits, undone, broken, uncounted, unclosed,
                 culprit, heals, faults, grants>>

-----------------------------------------------------------------------------
(* complete_rollback.                                                      *)

\* try_begin_complete locks the record; past the cap the request gives up.
Begin(c) ==
  /\ ~Active(c)
  /\ MayComplete(pending)
  /\ pending' = BeginComplete(pending)
  /\ comp' = [comp EXCEPT ![c] =
       [pc |-> IF pending.attempts >= MaxUndoAttempts THEN "giveup" ELSE "select",
        inc |-> pending.inc, bad |-> pending.bad, safe |-> pending.safe,
        counted |-> pending.counted, cand |-> 0, stage |-> 0, fuse |-> CompleteLease]]
  /\ UNCHANGED <<cloud, autonomy, healer, healed, gated, rearm, ghosts>>

\* Out of attempts: clear_pending, and a human takes the pinned traffic over.
GiveUp(c) ==
  /\ comp[c].pc = "giveup"
  /\ pending' = NoRevert
  /\ robbed' = RobbedBy(comp[c].inc)
  /\ pin' = IF robbed' = robbed THEN NoIncident ELSE pin
  /\ comp' = [comp EXCEPT ![c] = IdleComp]
  /\ UNCHANGED <<cloud, autonomy, healer, healed, gated, rearm,
                 tally, culprit, heals, faults, grants>>

Goto(c, label) == comp' = [comp EXCEPT ![c].pc = label]

\* _select_fix_revision: the revision CI named or the newest one, never the bad
\* one or the one rolled back to.
FixCandidates(c) == (1..deployed) \ {comp[c].bad, comp[c].safe}

Select(c) ==
  /\ comp[c].pc = "select"
  /\ \E r \in FixCandidates(c) :
       comp' = [comp EXCEPT ![c].pc = "split", ![c].cand = r, ![c].stage = 1]
  /\ UNCHANGED <<cloud, pending, autonomy, healer, healed, gated, rearm, ghosts>>

\* No revision qualifies, or CI named one that does not: the record stays armed.
NoCandidate(c) ==
  /\ comp[c].pc = "select"
  /\ Goto(c, "unlock")
  /\ UNCHANGED <<cloud, pending, autonomy, healer, healed, gated, rearm, ghosts>>

\* set_traffic_split of a canary stage; the last one restores all traffic to the fix.
Split(c) ==
  /\ comp[c].pc = "split"
  /\ LET pct == CanaryStages[comp[c].stage] IN
       /\ traffic' = [r \in Rev |-> IF r = comp[c].cand THEN pct
                                    ELSE IF r = comp[c].safe THEN 100 - pct ELSE 0]
       /\ pin' = IF pct = 100 THEN NoIncident ELSE pin
  /\ Goto(c, "gate")
  /\ UNCHANGED <<deployed, good, pending, autonomy, healer, healed, gated, rearm,
                 robbed, tally, culprit, heals, faults, grants>>

\* Mutated form: the close forgets that the heal was credited when it was verified.
GatePassesUncounted(c) ==
  /\ comp[c].pc = "gate"
  /\ comp[c].cand \in good
  /\ comp' = IF comp[c].stage = Len(CanaryStages)
             THEN [comp EXCEPT ![c].pc = IF CloseSettlement THEN "credit" ELSE "close"]
             ELSE [comp EXCEPT ![c].pc = "split", ![c].stage = @ + 1]
  /\ UNCHANGED <<cloud, pending, autonomy, healer, healed, gated, rearm, ghosts>>

\* Mutated form: the canary runs one stage past the last.
GatePassesOverruns(c) ==
  /\ comp[c].pc = "gate"
  /\ comp[c].cand \in good
  /\ comp' = IF comp[c].stage > Len(CanaryStages)
             THEN [comp EXCEPT ![c].pc = "close"]
             ELSE [comp EXCEPT ![c].pc = "split", ![c].stage = @ + 1]
  /\ UNCHANGED <<cloud, pending, autonomy, healer, healed, gated, rearm, ghosts>>

\* The direct probe of the fix and _verify pass: next stage, or closed.
GatePasses(c) ==
  /\ comp[c].pc = "gate"
  /\ comp[c].cand \in good
  /\ comp' = IF comp[c].stage = Len(CanaryStages)
             THEN [comp EXCEPT ![c].pc = IF CloseSettlement /\ ~comp[c].counted
                                         THEN "credit" ELSE "close"]
             ELSE [comp EXCEPT ![c].pc = "split", ![c].stage = @ + 1]
  /\ UNCHANGED <<cloud, pending, autonomy, healer, healed, gated, rearm, ghosts>>

GateFails(c) ==
  /\ comp[c].pc = "gate"
  /\ Goto(c, "compensate")
  /\ UNCHANGED <<cloud, pending, autonomy, healer, healed, gated, rearm, ghosts>>

\* Mutated form: a failed gate leaves the canary split in place.
CompensateNot(c) ==
  /\ comp[c].pc = "compensate"
  /\ Goto(c, "bump")
  /\ UNCHANGED <<cloud, pending, autonomy, healer, healed, gated, rearm, ghosts>>

\* All traffic back to the revision that was rolled back to.
Compensate(c) ==
  /\ comp[c].pc = "compensate"
  /\ traffic' = AllOn(comp[c].safe)
  /\ pin' = comp[c].inc
  /\ undone' = Count(undone, comp[c].inc)
  /\ Goto(c, "bump")
  /\ UNCHANGED <<deployed, good, pending, autonomy, healer, healed, gated, rearm, robbed,
                 credits, broken, uncounted, unclosed, rewrites,
                 culprit, heals, faults, grants>>

\* bump_attempts counts the failed undo on whatever record is armed.
Bump(c) ==
  /\ comp[c].pc = "bump"
  /\ pending' = BumpAttempts(pending)
  /\ Goto(c, "demote")
  /\ UNCHANGED <<cloud, autonomy, healer, healed, gated, rearm, ghosts>>

Demote(c) ==
  /\ comp[c].pc = "demote"
  /\ Outcome(FALSE, comp[c].inc)
  /\ Goto(c, "unlock")
  /\ UNCHANGED <<cloud, pending, healer, healed, gated, rearm, pin, robbed,
                 undone, broken, uncounted, unclosed, rewrites, heals, faults, grants>>

\* A closed transaction whose heal was never verified credits the trust ramp.
Credit(c) ==
  /\ comp[c].pc = "credit"
  /\ Outcome(TRUE, comp[c].inc)
  /\ Goto(c, "close")
  /\ UNCHANGED <<cloud, pending, healer, healed, gated, rearm, pin, robbed,
                 undone, broken, uncounted, unclosed, rewrites, heals, faults, grants>>

\* The finally clause: end_complete.
Close(c) ==
  /\ comp[c].pc = "close"
  /\ pending' = EndComplete(pending, TRUE)
  /\ robbed' = RobbedBy(comp[c].inc)
  /\ comp' = [comp EXCEPT ![c] = IdleComp]
  /\ UNCHANGED <<cloud, autonomy, healer, healed, gated, rearm,
                 pin, tally, culprit, heals, faults, grants>>

Unlock(c) ==
  /\ comp[c].pc = "unlock"
  /\ pending' = EndComplete(pending, FALSE)
  /\ comp' = [comp EXCEPT ![c] = IdleComp]
  /\ UNCHANGED <<cloud, autonomy, healer, healed, gated, rearm, ghosts>>

\* The completion of c failed where `tallied' counts the failures.
Unfinished(tallied, c, at) ==
  IF comp[c].pc = at THEN Count(tallied, comp[c].inc) ELSE tallied

\* A call raises: the finally clause still runs, with `closed' as it is by then.
Raise(c) ==
  /\ comp[c].pc \in OpenPc \cup {"credit"}
  /\ faults < MaxFaults
  /\ faults' = faults + 1
  /\ uncounted' = Unfinished(uncounted, c, "bump")
  /\ Goto(c, IF comp[c].pc \in OpenPc THEN "unlock" ELSE "close")
  /\ UNCHANGED <<cloud, pending, autonomy, healer, healed, gated, rearm, pin, robbed,
                 credits, undone, broken, unclosed, rewrites, culprit, heals, grants>>

\* The process dies: nothing is cleaned up and the lease has to lapse.
Die(c) ==
  /\ Active(c)
  /\ faults < MaxFaults
  /\ faults' = faults + 1
  /\ uncounted' = Unfinished(uncounted, c, "bump")
  /\ unclosed' = Unfinished(unclosed, c, "close")
  /\ comp' = [comp EXCEPT ![c] = IdleComp]
  /\ UNCHANGED <<cloud, pending, autonomy, healer, healed, gated, rearm, pin, robbed,
                 credits, undone, broken, rewrites, culprit, heals, grants>>

Elapse(lease) == IF lease > 0 THEN lease - 1 ELSE 0

Tick ==
  /\ BoundedCompletions => \A c \in Completer : Active(c) => comp[c].fuse > 1
  /\ pending.lease > 0 \/ \E c \in Completer : comp[c].fuse > 0
  /\ pending' = [pending EXCEPT !.lease = Elapse(@)]
  /\ comp' = [c \in Completer |-> [comp[c] EXCEPT !.fuse = Elapse(@)]]
  /\ UNCHANGED <<cloud, autonomy, healer, healed, gated, rearm, ghosts>>

HealStep ==
  \/ \E i \in Incident : Rollback(i)
  \/ \E ok \in BOOLEAN : Verified(ok)
  \/ SaveApproval \/ Arm \/ FinishHeal \/ HealFails

CompStep(c) ==
  \/ Begin(c) \/ GiveUp(c) \/ Select(c) \/ NoCandidate(c)
  \/ Split(c) \/ GatePasses(c) \/ GateFails(c) \/ Compensate(c)
  \/ Bump(c) \/ Demote(c) \/ Credit(c) \/ Close(c) \/ Unlock(c)
  \/ Raise(c) \/ Die(c)

Next ==
  \/ Deploy \/ Tick
  \/ \E level \in GrantLevels : Grant(level)
  \/ HealStep
  \/ \E i \in Incident : FixRead(i) \/ FixDropped(i)
  \/ FixWrite \/ FixFails
  \/ \E c \in Completer : CompStep(c)

Spec == Init /\ [][Next]_vars
-----------------------------------------------------------------------------
(* Properties.                                                             *)

HealState ==
  [pc : {"idle", "rolled", "arm", "filed", "armed"}, inc : Incident \cup {NoIncident},
   bad : Rev \cup {0}, safe : Rev \cup {0}, ok : BOOLEAN]
CompState ==
  [pc : CompPc, inc : Incident \cup {NoIncident}, bad : Rev \cup {0}, safe : Rev \cup {0},
   counted : BOOLEAN, cand : Rev \cup {0}, stage : 0..Len(CanaryStages),
   fuse : 0..CompleteLease]

RevertTypeOK ==
  /\ deployed \in Rev /\ good \subseteq 1..deployed
  /\ traffic \in [Rev -> 0..100]
  /\ pending \in Revert \cup {NoRevert} /\ rearm \in Revert \cup {NoRevert}
  /\ autonomy \in AutonomyDoc(Incident)
  /\ healer \in HealState /\ comp \in [Completer -> CompState]
  /\ gated \subseteq Incident /\ healed \subseteq Incident
  /\ pin \in Incident \cup {NoIncident} /\ culprit \in Incident \cup {NoIncident}
  /\ robbed \in BOOLEAN /\ heals \in Nat /\ faults \in Nat /\ grants \in Nat
  /\ credits \in [Incident -> Nat] /\ undone \in [Incident -> Nat]
  /\ broken \in [Incident -> Nat] /\ uncounted \in [Incident -> Nat]
  /\ unclosed \in [Incident -> Nat] /\ rewrites \in [Incident -> Nat]

\* "a duplicate /internal/complete-rollback is a no-op" (try_begin_complete): two
\* requests never complete the service's transaction at once, whatever a heal or
\* an approval writes to the record meanwhile, if a completion ends in its lease.
SingleCompletion ==
  BoundedCompletions =>
    \A b, c \in Completer : b # c /\ Active(b) /\ Active(c) => FALSE

\* A canary split that nobody is working on is remembered: whatever raised or
\* died on the way, the pending revert is there for the next request to finish
\* or compensate.  Out of it are the services of which a record was ever robbed: an
\* incident's completion or approval took another's along (RobbedBy), or an approval
\* brought back the count of before a second heal (ReadBeforeRearm).
TornSplitTracked ==
  BoundedCompletions /\ Quiet /\ ~robbed /\ (\A r \in Rev : traffic[r] < 100)
    => pending # NoRevert

\* "Tracking the pin is REQUIRED ...: a later healthy deploy would get 0% traffic
\* until complete_rollback restores it" (_arm_pending): while a rollback or a
\* compensation pins the traffic and nobody is at work, the pending revert is armed.
PinTracked == Quiet /\ pin # NoIncident => pending # NoRevert

\* The ways a pin is ever forgotten.  A heal of its incident failed before it was
\* done: it may have moved the traffic and never armed the revert, or the completion
\* of the revert it did arm may delete the one its second delivery armed.  Or the
\* service was robbed of a record: the completion of an earlier incident deleted the
\* one that was there, or the approval of an earlier fix wrote over it (once is
\* enough, `robbed' says nothing of which pin was lost then).
PinForgottenOnlyBy ==
  BoundedCompletions => PinTracked \/ robbed \/ broken[pin] > 0

\* "crediting the trust ramp WITHOUT double-counting" (complete_rollback): an
\* incident is credited once, at its verified rollback or at its close.  It is
\* credited again at most as often as something undid that: a heal of it failed half
\* way and was delivered again, a completion credited it and died before end_complete
\* closed the record, an approved fix wrote a closed record back.
CreditedOnce ==
  BoundedCompletions =>
    \A i \in Incident : credits[i] <= 1 + broken[i] + unclosed[i] + rewrites[i]

\* "Cap compensation retries ...: don't keep re-shifting traffic on every re-trigger"
\* (complete_rollback): the completions of an incident move the traffic back at most
\* MAX_UNDO_ATTEMPTS times.  The count starts again whenever a heal of the incident
\* failed half way and armed a new record, or an approved fix wrote an old one back,
\* and a compensation that fails before bump_attempts has counted it is not counted.
CapHolds ==
  BoundedCompletions =>
    \A i \in Incident :
      undone[i] <= MaxUndoAttempts * (1 + broken[i] + rewrites[i]) + uncounted[i]

\* "a bad heal revokes autonomy until a human re-grants it" (record_outcome), and
\* the incident that did is on record until then, whatever fails after it.
DemotionSticks ==
  culprit # NoIncident =>
    autonomy.level \notin Autonomous /\ (ApprovalCoalesce => autonomy.by = culprit)
=============================================================================
