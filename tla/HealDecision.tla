----------------------------- MODULE HealDecision -----------------------------
(***************************************************************************)
(* What a heal decides and does to production: _heal_body and _mitigate of *)
(* state_machine.py with the detection engine, the causal probe, the       *)
(* reversibility guard, the learned baseline and the ledger of witnessed   *)
(* revisions.  Several heals of one service run at once (storm coalescing  *)
(* off, or an approval resumed beside a new incident) while revisions are  *)
(* deployed and retired, traffic is moved, a shared dependency fails and   *)
(* recovers, and the autonomy level changes.                               *)
(*                                                                         *)
(* The configuration is the one with every safeguard on: STAT_GATE,        *)
(* CAUSAL_CHECK, REVERSIBILITY_GUARD, TARGET_EVIDENCE, BASELINE_GUARD and  *)
(* the signals 5xx and latency.  The advice of the language model is any   *)
(* decision at all, so the heuristic that stands in for it is among them.  *)
(***************************************************************************)
EXTENDS Integers, Sequences, FiniteSets

CONSTANTS
  Heals,       \* runs of a heal that may overlap
  Revisions,   \* numbered by create_time
  Marker,      \* the irreversibility annotation of each, or Unmarked
  Unmarked,
  Qualities,   \* what the revisions may be like, as functions on Revisions
  Samples,     \* the 5xx samples a revision of each condition can yield
  MinErrors,   \* config.STAT_MIN_FAIL_ERRORS
  Seed, Floor, \* config.STAT_BASELINE_RATE and STAT_BASELINE_FLOOR, per mille
  MaxDrift,    \* config.BASELINE_MAX_FOLD_DRIFT, per mille
  WitnessMax,  \* config.WITNESS_MAX
  Budget       \* bound on the heals that start and on what happens around them

Condition == {"good", "noisy", "slow", "bad"}

\* A sample of the business path: its error count and rate, and the bounds of
\* its Wilson interval, the rates per mille.
Sample == [errs : Nat, total : Nat, rate : 0..1000, lo : 0..1000, hi : 0..1000]

\* _active_sample could not look the service up.
NoSample == [errs |-> 0, total |-> 0, rate |-> 0, lo |-> 0, hi |-> 1000]

ASSUME DecisionAssumption ==
  /\ Revisions \subseteq Nat \ {0}
  /\ Qualities \subseteq [Revisions -> Condition]
  /\ \A c \in Condition : Samples[c] \subseteq {s \in Sample : s.lo <= s.rate /\ s.rate <= s.hi}
  /\ {MinErrors, Seed, Floor, MaxDrift, WitnessMax, Budget} \subseteq Nat
  /\ Floor <= Seed /\ Seed <= 1000

\* Of any revisions one is the newest: they are finitely many.
ASSUME NewestAssumption ==
  \A S \in SUBSET Revisions : S # {} => \E r \in S : \A q \in S : q <= r

\* What the conditions mean to a sample: a good revision never shows enough
\* errors to count, a noisy one shows no more than the seed explains, and a bad
\* one shows errors, more than an interval below the seed holds.
ASSUME ConditionAssumption ==
  /\ \A s \in Samples["good"] : s.errs < MinErrors
  /\ \A s \in Samples["noisy"] : s.errs < MinErrors \/ s.lo <= Seed
  /\ \A s \in Samples["bad"] : s.rate > 0 /\ s.hi >= Seed

VARIABLES
  serving, existing,  \* the revision with the traffic; those deployed and ready
  quality, outage,    \* what each is like; whether a shared dependency is down
  level,              \* the autonomy level
  baseline,           \* the learned EMA of the 5xx rate
  ledger, stale,      \* witnessed revisions, latest last; those past WITNESS_FRESH_S
  run,                \* the locals of each heal
  happened            \* how much of the bound is used up

cloud == <<serving, existing, quality, outage>>
store == <<level, baseline, ledger, stale>>
decisionvars == <<cloud, store, run, happened>>

Newer(S) == CHOOSE r \in S : \A q \in S : q <= r
Nobody == 0

ConditionOf(r) == IF outage THEN "bad" ELSE quality[r]
Sick(c) == c \in {"bad", "slow"}

NoRun == [pc |-> "idle"]
Active(h) == run[h] # NoRun
NoStamp == [fit |-> TRUE, why |-> {}]

DecisionInit ==
  /\ existing = Revisions \ {Newer(Revisions)}
  /\ serving \in existing
  /\ quality \in Qualities
  /\ outage = FALSE
  /\ level \in {"L1", "L3"}
  /\ baseline = Seed
  /\ ledger = <<>> /\ stale = {}
  /\ run = [h \in Heals |-> NoRun]
  /\ happened = 0

To(h, local) == run' = [run EXCEPT ![h] = local]
End(h) == To(h, NoRun)
--------------------------------------------------------------------------------
(* Detection: analyzer.analyze, signals/engine.py, memory.py. *)

\* analyze: the Wilson interval of the sample against a baseline rate.
Analyze(s, b) ==
  IF s.lo > b /\ s.errs >= MinErrors THEN "FAIL"
  ELSE IF s.hi < b THEN "PASS"
  ELSE "INCONCLUSIVE"

\* _detect_latency: slow in enough windows, or no window with a request in it.
Latency(c) == {IF c = "slow" THEN "FAIL" ELSE "PASS", "INCONCLUSIVE"}

\* _fuse: the strongest signal decides.
Fuse(verdicts) ==
  IF "FAIL" \in verdicts THEN "FAIL"
  ELSE IF "INCONCLUSIVE" \in verdicts THEN "INCONCLUSIVE"
  ELSE "PASS"

\* baseline_for: the floor applies on reading only.
BaselineFor == IF baseline < Floor THEN Floor ELSE baseline

\* _primary_signal: a 5xx failure takes precedence.
PrimarySignal(five, lat) ==
  IF five = "FAIL" THEN "5xx" ELSE IF lat = "FAIL" THEN "latency" ELSE "unknown"

\* Mutated form: whatever is not a failure is healthy.
HealthyUnlessFailed(local) == local.verdict # "FAIL"

\* _healthy_witness: PASS, or nothing seen although that proves little.
HealthyWitness(local) ==
  local.verdict = "PASS" \/ (local.verdict = "INCONCLUSIVE" /\ local.rate = 0)

\* observe_healthy: the EMA with BASELINE_ALPHA 0.2, its drift per fold clamped.
Folded(rate) ==
  LET ema == (rate + 4 * baseline) \div 5
  IN  IF ema > baseline + MaxDrift THEN baseline + MaxDrift
      ELSE IF ema < baseline - MaxDrift THEN baseline - MaxDrift
      ELSE ema

\* witness_serving: r becomes the latest entry, the oldest make room.
Stamped(r) ==
  LET w == Append(SelectSeq(ledger, LAMBDA q : q # r), r)
  IN  IF Len(w) > WitnessMax THEN Tail(w) ELSE w

\* _witnessed_for_selection: the entries that are fresh.
Witnessed == {ledger[k] : k \in DOMAIN ledger} \ stale

--------------------------------------------------------------------------------
(* Triage and decision. *)

\* The revisions are listed.  since holds what changed after the heal last
\* looked; hurt, whether the service was sick at any time since it began.
Triage(h) ==
  /\ ~Active(h) /\ happened < Budget
  /\ happened' = happened + 1
  /\ To(h, [pc |-> "detect", approved |-> FALSE, saw |-> serving, known |-> existing,
            verdict |-> "none", rate |-> 0, sig |-> "unknown", vouched |-> {}, target |-> Nobody,
            why |-> {}, since |-> {}, hurt |-> Sick(ConditionOf(serving)), fit |-> NoStamp])
  /\ UNCHANGED <<cloud, store>>

\* The locals a heal that is to roll back still needs.
Bound(h, label, t) ==
  [run[h] EXCEPT !.pc = label, !.target = t, !.saw = Nobody, !.known = {}, !.vouched = {},
                 !.verdict = "none", !.rate = 0, !.fit = NoStamp, !.since = {}]

\* signals.detect samples the service, then the ledger is read, before the
\* language model is asked.  Resumed by an approval, a healthy service is left
\* alone and any other is mitigated.
Detect(h, s, lat) ==
  LET five == Analyze(s, BaselineFor)
      v == Fuse({five, lat})
      unsampled == s = NoSample \/ lat = "INCONCLUSIVE"
  IN
  /\ run[h].pc = "detect"
  /\ s \in Samples[ConditionOf(serving)] \cup {NoSample}
  /\ lat \in Latency(ConditionOf(serving))
  /\ To(h, IF run[h].approved /\ v # "PASS"
           THEN [Bound(h, "guard", run[h].target) EXCEPT !.sig = PrimarySignal(five, lat)]
           ELSE [run[h] EXCEPT
              !.verdict = v, !.rate = s.rate, !.sig = PrimarySignal(five, lat),
              !.fit = [fit |-> serving = run[h].saw /\ ~Sick(ConditionOf(serving)),
                       why |-> (run[h].since \cap {"traffic"})
                                 \cup (IF unsampled THEN {"unsampled"} ELSE {})],
              !.since = {},
              !.vouched = IF run[h].approved THEN {} ELSE Witnessed,
              !.pc = IF run[h].approved THEN "fold" ELSE "decide"])
  /\ UNCHANGED <<cloud, store, happened>>

\* _preferred_target among the ready revisions with no traffic: the newest
\* witnessed one, else the newest.
Candidates(h) == run[h].known \ {run[h].saw}
FromLedger(h) == Candidates(h) \cap run[h].vouched # {}

RollbackPair(h) ==
  IF FromLedger(h) THEN Newer(Candidates(h) \cap run[h].vouched)
  ELSE IF Candidates(h) # {} THEN Newer(Candidates(h)) ELSE Nobody

\* _validate: the statistical verdict promotes or withholds a rollback, then
\* the confidence and the target are judged, and the aim moved to a witness.
Observe  == [action |-> "OBSERVE", target |-> Nobody]
Escalate == [action |-> "ESCALATE", target |-> Nobody]
RollTo(r) == [action |-> "ROLLBACK", target |-> r]

Promote(h) == IF RollbackPair(h) = Nobody THEN Escalate ELSE RollTo(RollbackPair(h))

Aim(h, t, sure) ==
  IF ~sure \/ t \notin run[h].known THEN Escalate
  ELSE IF FromLedger(h) /\ t \notin run[h].vouched THEN RollTo(RollbackPair(h))
  ELSE RollTo(t)

\* Mutated form: the verdict only promotes, and withholds no rollback.
ValidateUngated(h, advice, sure) ==
  IF advice.action # "ROLLBACK"
  THEN IF run[h].verdict = "FAIL" THEN Promote(h) ELSE advice
  ELSE Aim(h, advice.target, sure)

Validate(h, advice, sure) ==
  CASE advice.action # "ROLLBACK" /\ run[h].verdict = "FAIL" -> Promote(h)
    [] advice.action # "ROLLBACK" /\ run[h].verdict # "FAIL" -> advice
    [] advice.action = "ROLLBACK" /\ run[h].verdict = "PASS" -> Observe
    [] advice.action = "ROLLBACK" /\ run[h].verdict = "INCONCLUSIVE" -> Escalate
    [] OTHER -> Aim(h, advice.target, sure)

Decide(h, advice, sure) ==
  LET d == Validate(h, advice, sure) IN
  /\ run[h].pc = "decide"
  /\ CASE d.action = "ROLLBACK" -> To(h, Bound(h, "level", d.target))
       [] d.action = "OBSERVE" /\ HealthyWitness(run[h]) -> To(h, [run[h] EXCEPT !.pc = "fold", !.vouched = {}])
       [] OTHER -> End(h)
  /\ UNCHANGED <<cloud, store, happened>>

\* A healthy service is a sample of its steady state ...
Fold(h) ==
  /\ run[h].pc = "fold"
  /\ baseline' = Folded(run[h].rate)
  /\ To(h, [run[h] EXCEPT !.pc = "witness"])
  /\ UNCHANGED <<cloud, level, ledger, stale, happened>>

\* ... and vouches for the revision that was listed as serving it.
Witness(h) ==
  /\ run[h].pc = "witness"
  /\ ledger' = Stamped(run[h].saw)
  /\ stale' = stale \ {run[h].saw}
  /\ End(h)
  /\ UNCHANGED <<cloud, level, baseline, happened>>

\* Mutated form: L1 is not told from the levels above it.
ReadLevelOffOrOn(h) ==
  /\ run[h].pc = "level"
  /\ IF level = "L0" THEN End(h) ELSE To(h, [run[h] EXCEPT !.pc = "guard", !.since = {}])
  /\ UNCHANGED <<cloud, store, happened>>

\* The autonomy gate reads the level, once.
ReadLevel(h) ==
  /\ run[h].pc = "level"
  /\ CASE level = "L0" -> End(h)
       [] level = "L1" -> To(h, [run[h] EXCEPT !.pc = "waiting"])
       [] OTHER -> To(h, [run[h] EXCEPT !.pc = "guard", !.since = {}])
  /\ UNCHANGED <<cloud, store, happened>>

\* apply_approval: the operator says no, or yes to a target that is still
\* ready, for which the service is examined again.
Answer(h, approve) ==
  /\ run[h].pc = "waiting"
  /\ IF approve /\ run[h].target \in existing
     THEN To(h, [run[h] EXCEPT !.pc = "detect", !.approved = TRUE, !.saw = serving,
                               !.known = existing, !.since = {}])
     ELSE End(h)
  /\ UNCHANGED <<cloud, store, happened>>
--------------------------------------------------------------------------------
(* _mitigate. *)

\* A declared change lies between the target and the traffic, and the target
\* does not carry it (reversibility.check).
Crosses(t, s) ==
  \E m \in existing : t < m /\ m <= s /\ Marker[m] \notin {Unmarked, Marker[t]}

\* Mutated form: the annotation is looked for on the target itself.
GuardOfTarget(h) ==
  /\ run[h].pc = "guard"
  /\ IF run[h].target \in existing /\ Marker[run[h].target] # Unmarked
     THEN End(h)
     ELSE To(h, [run[h] EXCEPT !.pc = "probe", !.since = @ \cap {"level"}])
  /\ UNCHANGED <<cloud, store, happened>>

\* The guard lists the revisions again and fails open on an unknown target.
Guard(h) ==
  /\ run[h].pc = "guard"
  /\ IF run[h].target \in existing /\ Crosses(run[h].target, serving)
     THEN End(h)
     ELSE To(h, [run[h] EXCEPT !.pc = "probe", !.since = @ \cap {"level"}])
  /\ UNCHANGED <<cloud, store, happened>>

\* The conditions that rule a target out, by the signal of the incident.
Degraded(sig) == IF sig = "latency" THEN {"bad", "slow"} ELSE {"bad"}

\* Mutated form: the probe counts errors and takes no times.
RuledOutByErrors(h) == ConditionOf(run[h].target) = "bad"

RuledOut(h) == ConditionOf(run[h].target) \in Degraded(run[h].sig)

\* causal.precheck: enough samples, too few to judge by, or none.
Probe(h, outcome) ==
  /\ run[h].pc = "probe"
  /\ outcome # "errored" => run[h].target \in existing
  /\ LET seen == [run[h] EXCEPT !.pc = "shift", !.since = @ \ {"health"}] IN
     CASE outcome = "assessed" ->
            IF RuledOut(h) THEN End(h) ELSE To(h, seen)
       [] outcome = "thin" -> To(h, [seen EXCEPT !.why = @ \cup {"thin"}])
       [] outcome = "errored" /\ "again" \in run[h].why ->
            To(h, [seen EXCEPT !.why = @ \cup {"blind"}])
       [] outcome = "errored" /\ "again" \notin run[h].why /\ run[h].target \in Witnessed ->
            To(h, [seen EXCEPT !.why = @ \cup {"vouched"}])
       [] OTHER -> To(h, [run[h] EXCEPT !.why = @ \cup {"again"}])
  /\ UNCHANGED <<cloud, store, happened>>

\* Every other heal learns what it did not see happen.
Learn(kind, s, down) ==
  [g \in Heals |->
     IF run[g] = NoRun THEN NoRun
     ELSE [run[g] EXCEPT !.since = @ \cup {kind},
                         !.hurt = @ \/ Sick(IF down THEN "bad" ELSE quality[s])]]

\* rollback_traffic_to_revision, which fails for a revision that is gone.
Shift(h) ==
  LET t == run[h].target IN
  /\ run[h].pc = "shift"
  /\ t \in existing
  /\ serving' = t
  /\ run' = [Learn("traffic", t, outage) EXCEPT ![h] = [run[h] EXCEPT !.pc = "verify", !.since = {}, !.why = {}, !.hurt = FALSE]]
  /\ UNCHANGED <<existing, quality, outage, store, happened>>

\* Mutated form: a latency incident is over once the errors are.
RecoversOnErrors(sig, c) == IF c = "noisy" THEN BOOLEAN ELSE {c # "bad"}

\* _verify: the error log is clean and the business path answers, in time when
\* latency was the signal.  A noisy revision may pass or not.
Recovers(sig, c) ==
  CASE c = "good" -> {TRUE}
    [] c = "noisy" -> BOOLEAN
    [] OTHER -> {c \notin Degraded(sig)}

\* A failed heal costs the service its autonomy (record_outcome).
Verify(h, recovered) ==
  /\ run[h].pc = "verify"
  /\ recovered \in Recovers(run[h].sig, ConditionOf(serving))
  /\ IF recovered
     THEN /\ To(h, [run[h] EXCEPT
                      !.pc = "certify",
                      !.fit = [fit |-> serving = run[h].target
                                         /\ ConditionOf(serving) \notin Degraded(run[h].sig),
                               why |-> run[h].since \cap {"traffic"}]])
          /\ UNCHANGED level
     ELSE /\ level' = IF level = "L3" THEN "L1" ELSE level
          /\ run' = [Learn("level", serving, outage) EXCEPT ![h] = NoRun]
  /\ UNCHANGED <<cloud, baseline, ledger, stale, happened>>

\* The window after the rollback must read clean as well for the target to be
\* witnessed.
Certify(h, clean) ==
  /\ run[h].pc = "certify"
  /\ IF clean
     THEN /\ ledger' = Stamped(run[h].target)
          /\ stale' = stale \ {run[h].target}
     ELSE UNCHANGED <<ledger, stale>>
  /\ End(h)
  /\ UNCHANGED <<cloud, level, baseline, happened>>

\* A call raises or the instance dies; the queue starts the heal over.
HealRaises(h) ==
  /\ Active(h) /\ run[h].pc # "waiting"
  /\ End(h)
  /\ UNCHANGED <<cloud, store, happened>>
--------------------------------------------------------------------------------
(* What happens around the heals. *)

Happens(kind) ==
  /\ happened < Budget
  /\ happened' = happened + 1
  /\ run' = Learn(kind, serving', outage')
  /\ UNCHANGED <<quality, baseline, ledger>>

\* A revision is deployed, with the traffic (LATEST) or without.
DeployRevision(takes) ==
  /\ Revisions # existing
  /\ existing' = existing \cup {Newer(Revisions \ existing)}
  /\ serving' = IF takes THEN Newer(Revisions \ existing) ELSE serving
  /\ UNCHANGED <<outage, level, stale>>
  /\ Happens(IF takes THEN "traffic" ELSE "deploy")

RetireRevision(r) ==
  /\ r \in existing \ {serving}
  /\ existing' = existing \ {r}
  /\ UNCHANGED <<serving, outage, level, stale>>
  /\ Happens("deploy")

\* Somebody else moves the traffic: complete_rollback, the demo, the console.
MoveTraffic(r) ==
  /\ r \in existing \ {serving}
  /\ serving' = r
  /\ UNCHANGED <<existing, outage, level, stale>>
  /\ Happens("traffic")

DependencyTurns ==
  /\ outage' = ~outage
  /\ UNCHANGED <<serving, existing, level, stale>>
  /\ Happens("health")

OperatorSets(l) ==
  /\ l # level
  /\ level' = l
  /\ UNCHANGED <<serving, existing, outage, stale>>
  /\ Happens("level")

WitnessAges(r) ==
  /\ r \in Witnessed
  /\ stale' = stale \cup {r}
  /\ UNCHANGED <<serving, existing, outage, level>>
  /\ Happens("age")
--------------------------------------------------------------------------------
Advice == {Observe, Escalate} \cup {RollTo(r) : r \in Revisions \cup {Nobody}}

HealStep(h) ==
  \/ Triage(h)
  \/ \E c \in Condition : \E s \in Samples[c] \cup {NoSample},
        lat \in {"PASS", "FAIL", "INCONCLUSIVE"} : Detect(h, s, lat)
  \/ \E advice \in Advice, sure \in BOOLEAN : Decide(h, advice, sure)
  \/ Fold(h) \/ Witness(h) \/ ReadLevel(h)
  \/ \E approve \in BOOLEAN : Answer(h, approve)
  \/ Guard(h)
  \/ \E outcome \in {"assessed", "thin", "errored"} : Probe(h, outcome)
  \/ Shift(h)
  \/ \E recovered \in BOOLEAN : Verify(h, recovered)
  \/ \E clean \in BOOLEAN : Certify(h, clean)
  \/ HealRaises(h)

World ==
  \/ \E takes \in BOOLEAN : DeployRevision(takes)
  \/ \E r \in Revisions : RetireRevision(r) \/ MoveTraffic(r) \/ WitnessAges(r)
  \/ DependencyTurns
  \/ \E l \in {"L0", "L1", "L3"} : OperatorSets(l)

DecisionNext == (\E h \in Heals : HealStep(h)) \/ World

DecisionSpec == DecisionInit /\ [][DecisionNext]_decisionvars
--------------------------------------------------------------------------------
Shifts(h) == run[h].pc = "shift" /\ run'[h].pc = "verify"

Stamps(h) == run[h].pc \in {"witness", "certify"} /\ <<ledger, stale>>' # <<ledger, stale>>

\* Traffic is moved without an operator only at an autonomous level, unless
\* the level changed after the heal had read it (_heal_body reads it once).
ActsAboveItsLevelOnlyBy ==
  [][\A h \in Heals : Shifts(h) =>
       run[h].approved \/ level = "L3" \/ "level" \in run[h].since]_decisionvars

\* No rollback crosses a declared irreversible change, unless traffic moved or
\* a revision came or went after the guard had looked (reversibility.check).
CrossesMigrationOnlyBy ==
  [][\A h \in Heals : Shifts(h) /\ Crosses(serving', serving) =>
       run[h].since \cap {"traffic", "deploy"} # {}]_decisionvars

\* Traffic moves onto a revision that is as sick as the one it leaves only if
\* it fell sick after the probe, the probe saw too little, the ledger vouched
\* for it, or the landing is marked blind (causal.precheck, _mitigate).
FutileShiftOnlyBy ==
  [][\A h \in Heals : Shifts(h) /\ ConditionOf(serving') \in Degraded(run[h].sig) =>
       "health" \in run[h].since \/ run[h].why \cap {"thin", "vouched", "blind"} # {}]_decisionvars

\* The advice of the language model alone moves nothing: no service is rolled
\* back that was well all the time since its heal began (_validate), unless it
\* is a noisy one and the baseline was learned down below its seed before.
HealthyServiceLeftAlone ==
  [][\A h \in Heals : Shifts(h) =>
       run[h].hurt \/ (baseline < Seed /\ \E r \in Revisions : quality[r] = "noisy")]_decisionvars

\* A revision is witnessed only if it served in health when it was judged,
\* unless traffic moved between listing and judging it, or the judgement had
\* no sample (_healthy_witness, witness_serving).
WitnessedUnfitOnlyBy ==
  [][\A h \in Heals : Stamps(h) => run[h].fit.fit \/ run[h].fit.why # {}]_decisionvars

\* Under the guard the learned baseline never rises above its seed: a slow
\* burn cannot hide itself (observe_healthy), and a noisy service stays noisy.
BaselineNeverLearnsUp == baseline <= Seed

\* The ledger holds confident evidence only (_healthy_witness): a revision is
\* witnessed unfit at most because traffic moved while it was judged.
WitnessIsEvidence ==
  [][\A h \in Heals : Stamps(h) => run[h].fit.fit \/ "traffic" \in run[h].fit.why]_decisionvars
================================================================================
