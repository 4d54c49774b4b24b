----------------------------- MODULE TrafficBlock -----------------------------
(***************************************************************************)
(* The traffic block of a Cloud Run service and its writers, gcp.py.       *)
(* Rollbacks, canary splits, the demo's break and reset, and the causal    *)
(* probe all write the whole block through _set_traffic: it reads the      *)
(* service for its etag, replaces the block, and starts over when another  *)
(* write came in between, up to MaxAttempts times.  What is written was    *)
(* decided before the first attempt, so the etag only tells that a write   *)
(* raced, not that its targets are old.                                    *)
(***************************************************************************)
EXTENDS Integers, FiniteSets

CONSTANTS
  Writers,      \* threads of the agent that write the block
  Revs,         \* revisions, newest first when larger
  Faulty,       \* those with a fault-carrying FAULT_MODE
  Stages,       \* percentages of a canary stage
  MaxAttempts   \* _TRAFFIC_MAX_ATTEMPTS

ASSUME TrafficAssumption ==
  /\ Revs \subseteq Nat \ {0}
  /\ \A S \in SUBSET Revs : S # {} => \E r \in S : \A q \in S : q <= r
  /\ Faulty \subseteq Revs
  /\ Stages \subseteq 1..100
  /\ MaxAttempts \in Nat \ {0}

VARIABLES
  traffic,  \* the block: split, and the revisions with a tag
  write,    \* the locals of each writer
  marred    \* a restore failed, wrote an old block or never came, once (ghost)

trafficvars == <<traffic, write, marred>>

None == 0

\* split is the set of <<revision, percent>> with traffic; causal and fix are
\* the revisions tagged _CAUSAL_TAG and _CANARY_TAG, at 0% or more.
Block == [split : SUBSET (Revs \X (1..100)), causal : Revs \cup {None}, fix : Revs \cup {None}]

Whole(r) == [split |-> {<<r, 100>>}, causal |-> None, fix |-> None]

Quiet == [pc |-> "idle"]
Busy(w) == write[w] # Quiet

TrafficInit ==
  /\ traffic \in {Whole(r) : r \in Revs}
  /\ write = [w \in Writers |-> Quiet]
  /\ marred = FALSE

\* A writer that has decided on its targets: a fresh call of _set_traffic.
\* Only the probe keeps an original to restore.
\* stale: another write landed since the decision; moved: another write landed
\* since this one did (ghosts).
Writing(kind, r, targets, original) ==
  [pc |-> "read", kind |-> kind, rev |-> r, targets |-> targets, original |-> original,
   attempt |-> 1, fresh |-> FALSE, stale |-> FALSE, moved |-> FALSE]

Begin(w, local) ==
  /\ write[w] = Quiet
  /\ write' = [write EXCEPT ![w] = local]
  /\ UNCHANGED <<traffic, marred>>
------------------------------------------------------------------------------
(* Who writes what. *)

\* rollback_traffic_to_revision: all traffic to one revision, every tag dropped.
Rollback(w, r) == Begin(w, Writing("route", r, Whole(r), Whole(r)))

Newest(S) == CHOOSE r \in S : \A q \in S : q <= r

\* break_target and reset_target route to the newest faulty or healthy revision.
BreakTarget(w) == Faulty # {} /\ Rollback(w, Newest(Faulty))
ResetTarget(w) == Revs \ Faulty # {} /\ Rollback(w, Newest(Revs \ Faulty))

\* Mutated form: the fix gets its share without the tag.
SplitUntagged(fix, safe, pct) ==
  [split |-> {share \in {<<fix, pct>>, <<safe, 100 - pct>>} : share[2] > 0},
   causal |-> None, fix |-> None]

\* set_traffic_split: shares of zero are left out, the fix is tagged.
SplitTargets(fix, safe, pct) ==
  [split |-> {share \in {<<fix, pct>>, <<safe, 100 - pct>>} : share[2] > 0},
   causal |-> None, fix |-> fix]

\* A canary stage of complete_rollback; one completion at a time holds its lease.
SetTrafficSplit(w, fix, safe, pct) ==
  /\ \A v \in Writers : Busy(v) => write[v].kind # "canary"
  /\ Begin(w, Writing("canary", fix, SplitTargets(fix, safe, pct), Whole(safe)))

\* Mutated form: the tagged revision is the only target written.
ProbeTargetsAlone(block, r) == [Whole(r) EXCEPT !.causal = r]

\* probe_revision_health: the block as it is, with one more target at 0%.
ProbeTargets(block, r) == [block EXCEPT !.causal = r]

ProbeRevisionHealth(w, r) == Begin(w, Writing("tag", r, ProbeTargets(traffic, r), traffic))
------------------------------------------------------------------------------
(* _set_traffic. *)

Fetch(w) ==
  /\ write[w].pc = "read"
  /\ write' = [write EXCEPT ![w].pc = "update", ![w].fresh = TRUE]
  /\ UNCHANGED <<traffic, marred>>

\* What follows the call, by its caller.
Then(w) ==
  CASE write[w].kind = "tag"    -> [write[w] EXCEPT !.pc = "look", !.moved = FALSE]
    [] write[w].kind = "canary" -> [write[w] EXCEPT !.pc = "gate", !.moved = FALSE]
    [] OTHER                    -> Quiet

\* The finally clause of the probe, whatever happened before.
Restoring(w) ==
  [write[w] EXCEPT !.pc = "read", !.kind = "restore", !.targets = write[w].original, !.attempt = 1, !.fresh = FALSE]

\* Mutated form: the restore is skipped when the tagging call raises.
RaisedUntouched(w) == Quiet

Raised(w) == IF write[w].kind = "tag" THEN Restoring(w) ELSE Quiet

\* A tag may name one revision only: Cloud Run refuses a block that repeats one.
Refused(w) == write[w].kind = "tag" /\ write[w].original.causal # None

\* Nobody's etag or decision survives the write of another.
Raced(w, local) ==
  [v \in Writers |->
     IF v = w THEN local
     ELSE IF write[v] = Quiet THEN Quiet
     ELSE [write[v] EXCEPT !.fresh = FALSE, !.stale = TRUE, !.moved = TRUE]]

\* update_service commits; the answer may be lost on the way (result timeout).
Update(w, answered) ==
  /\ write[w].pc = "update" /\ write[w].fresh /\ ~Refused(w)
  /\ traffic' = write[w].targets
  /\ write' = Raced(w, IF answered THEN Then(w) ELSE Raised(w))
  /\ marred' = (marred \/ (write[w].kind = "restore" /\ (write[w].stale \/ ~answered)))

Again(w) == [write[w] EXCEPT !.pc = "read", !.attempt = @ + 1]

\* The etag is old: start over, and raise when the attempts are used up.
Conflict(w) ==
  /\ write[w].pc = "update" /\ ~write[w].fresh
  /\ write' = [write EXCEPT ![w] = IF write[w].attempt < MaxAttempts THEN Again(w) ELSE Raised(w)]
  /\ marred' = (marred \/ (write[w].kind = "restore" /\ write[w].attempt = MaxAttempts))
  /\ UNCHANGED traffic

\* Any other error of a call, a refused block included.
Error(w) ==
  /\ write[w].pc \in {"read", "update"}
  /\ write' = [write EXCEPT ![w] = Raised(w)]
  /\ marred' = (marred \/ write[w].kind = "restore")
  /\ UNCHANGED traffic

\* The instance is recycled in the middle.
Crash(w) ==
  /\ Busy(w)
  /\ write' = [write EXCEPT ![w] = Quiet]
  /\ marred' = (marred \/ write[w].kind \in {"tag", "restore"})
  /\ UNCHANGED traffic
------------------------------------------------------------------------------
(* The two readers of a tagged address. *)

\* The revision behind the address the probe finds: that of its tag.
ProbedRevision == traffic.causal

\* The probe has its samples and restores the block it read at the start.
Look(w) ==
  /\ write[w].pc = "look"
  /\ write' = [write EXCEPT ![w] = Restoring(w)]
  /\ UNCHANGED <<traffic, marred>>

\* probe_candidate: the canary tag, or a tagged revision of that name, or the
\* load-balanced address of the service (None).
GatedRevision(r) ==
  IF traffic.fix # None THEN traffic.fix
  ELSE IF traffic.causal = r THEN r ELSE None

ProbeCandidate(w) ==
  /\ write[w].pc = "gate"
  /\ write' = [write EXCEPT ![w] = Quiet]
  /\ UNCHANGED <<traffic, marred>>
------------------------------------------------------------------------------
WriterStep(w) ==
  \/ Fetch(w) \/ Conflict(w) \/ Error(w) \/ Crash(w)
  \/ \E answered \in BOOLEAN : Update(w, answered)
  \/ Look(w) \/ ProbeCandidate(w)

WriterCall(w) ==
  \/ \E r \in Revs : Rollback(w, r) \/ ProbeRevisionHealth(w, r)
  \/ BreakTarget(w) \/ ResetTarget(w)
  \/ \E fix, safe \in Revs, pct \in Stages : fix # safe /\ SetTrafficSplit(w, fix, safe, pct)

TrafficNext == \E w \in Writers : WriterStep(w) \/ WriterCall(w)

TrafficSpec == TrafficInit /\ [][TrafficNext]_trafficvars
------------------------------------------------------------------------------
Committed(w) == write[w].pc = "update" /\ write'[w].pc # "update" /\ traffic' # traffic

\* The causal probe does not disturb the serving split (probe_revision_health
\* calls itself NON-disruptive): its writes move traffic only when another
\* write landed since it read the block, whose split it then undoes.
ProbeIsNonDisruptive ==
  [][\A w \in Writers :
       Committed(w) /\ write[w].kind \in {"tag", "restore"} /\ ~write[w].stale
         => traffic'.split = traffic.split]_trafficvars

\* The causal tag is gone when no probe is at work, unless once before a restore
\* failed, was cut off or wrote back a block that was old by then, which may carry
\* what another probe had tagged: a leaked tag makes every later probe of the
\* service fail without evidence.
TagLeaksOnlyBy ==
  traffic.causal # None =>
    marred \/ \E w \in Writers : Busy(w) /\ write[w].kind \in {"tag", "restore"}

\* Evidence is about the revision it is taken for: until another write lands,
\* the canary gate (probe_candidate) samples the fix and not the balanced
\* service, and the causal probe samples its rollback target.
EvidenceIsOfTheTarget ==
  \A w \in Writers :
    Busy(w) /\ ~write[w].moved =>
      /\ write[w].pc = "gate" => GatedRevision(write[w].rev) = write[w].rev
      /\ write[w].pc = "look" => ProbedRevision = write[w].rev
==============================================================================
