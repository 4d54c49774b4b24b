# Airbag in TLA+

Airbag heals a Cloud Run service on its own: a Monitoring alert starts a heal, the heal rolls traffic
back to a good revision, proves the recovery, opens a fix pull request, and undoes the rollback once
the fix is deployed and healthy. Several processes and several people act on the same few documents
of a durable store and on the same traffic split, calls fail, instances are recycled and queues
redeliver. This directory holds TLA+ modules of that coordination, the TLC runs that check them on
small instances, and theorems about them that TLAPS checks for every instance. Paths below are
relative to the repository.

    tlc -config MCSelfHealSafety.cfg MCSelfHeal      model-check one run
    tlapm SelfHealProofs.tla                         check the proofs
    tlapm CompleteRollbackProofs.tla                 and so for the other *Proofs modules

## 1. Inventory

| Part | Code | State it keeps | Operations | What is hard |
|---|---|---|---|---|
| Intake and queue | `agent/app.py`, `agent/autosre/queue.py` | dedup marks, Cloud Tasks | webhook, `enqueue_heal`, `/internal/run-heal` | at-least-once delivery, redelivery during or after a crash, the attempt limit, the in-process fallback |
| Durable store | `agent/autosre/state_store.py` | `heal_runs`, `service_heals`, `dedup` and every other collection | `transact`, `claim_heal`, `finish_heal`, `release_heal`, `claim_service_heal`, `settle_service_heal` | leases without owners, expiry against the clock |
| Self-heal run | `agent/autosre/state_machine.py` `run_self_heal`, `_heal_body`, `_mitigate` | program counter of the run | claim, correlate, gate, roll back, arm, settle, finish | crash between two steps, a run outliving its lease, storms of alerts |
| Approvals | `apply_approval`, `agent/autosre/autonomy.py` | `approvals` | approve, deny, lapse | the answer races the heal that asked, a double click |
| Closing a transaction | `complete_rollback`, `agent/autosre/pending.py` | `pending`, the traffic split | canary, compensate, close, give up | a heal re-arms during a completion, failure between canary stages |
| Trust ramp | `autonomy.py` | `autonomy` | `record_outcome`, `set_level` | order of failures, credits and grants |
| Decision pipeline | `_heal_body`, `_mitigate`, `_validate`, `causal.py`, `reversibility.py` | the locals of a heal | triage, detect, decide, gate, guard, probe, shift, verify, certify | values read early and used late |
| Detection and memory | `analyzer.py`, `signals/engine.py`, `memory.py` | learned baseline, witnessed revisions | detect, fold, witness | boundaries, eviction at the cap |
| Cloud Run backend | `backends/gcp.py` | traffic block with its etag | split, rollback, tag, restore, probe | read-modify-write of shared traffic, a tag left behind |
| Transparency log | `transparency.py`, `_persist_proof` | head and entries, the proof on the record | stamp, append | concurrent stamps, failed appends, a cap on what is remembered |
| Auditor | `auditor/*.py` | checkpoint of the chain, cache and page of verdicts | poll, audit, attest | the chain grows while it is read, the checkpoint is lost, a cached verdict outlives its key |
| Event bus | `events.py` | ring of events | publish, subscribe | redelivery, a full ring |
| Fix pull request | `github_pr.py`, `fix_pipeline.py` | branch and pull request | open, watch CI, correct | retries of what was done |
| Rest | reports, proofs, DSSE, MCP servers, demo, scripts | | | sequential |

How they interact: the webhook calls the queue, which calls `run_self_heal` (over HTTP, or on a
thread); heals, approvals and completions meet only in the store's documents and in the traffic split;
each store call is one transaction on one document; nothing is atomic across two.

What makes each part correct is stated as the properties of its module (section 3); what has none is
in sections 6 and 7. `PROJECT.json` lists the hazards line by line, with the properties about each.

## 2. Modules

**HealStore** - the documents `heal_runs/<incident>` and `service_heals/<service>` and the mutators
that `transact` applies to them. A mutator is an operator from document to document, and an action that
applies one is one step, which is the store's own promise (a lock in memory, a transaction in
Firestore). The code stores absolute expiry times; the model stores the time left, so `until > now` is
`lease > 0` and a lapsed lease is indistinguishable from none, as it is for the code.

**SelfHeal** - `run_self_heal` from alert to settled outcome for the incidents of one service, the queue
in front of it, and the two other actors that settle the storm lease. One action per store access:

| Action | Code |
|---|---|
| `Alert`, `Enqueue`, `EnqueueInproc`, `DedupLapse` | webhook, `seen_and_mark`, `enqueue_heal` and its fallback |
| `Deliver`, `Return` | Cloud Tasks dispatch, and what a 2xx or 5xx does to the task (`Task`: the attempts left and the retry window, which starts with the first attempt) |
| `ClaimDuplicate`, `ClaimExhausted`, `GiveUp`, `ClaimGranted` | `claim_heal` and its three answers |
| `Correlate`, `Attach` | `claim_service_heal`, `_attach_to_leader` |
| `Gate`, `Arm`, `BodyReturns`, `BodyRaises` | `_heal_body` as the leases see it |
| `Release`, `ReadHold`, `ReadRevert`, `Settle`, `Finish` | the except clause, the two reads of `_service_hold_seconds` (approval, then pending revert), `settle_service_heal`, `finish_heal` |
| `Peek` ... `ApproverSettles` | `apply_approval` |
| `CompleteBegin` ... `Compensate` | `complete_rollback`, as far as it touches the storm lease |
| `Die`, `ApproverFails`, `Tick` | a recycled instance, and time |

What `_heal_body` decides is a free choice among its statuses; it is constrained only in what it leaves
behind (an approval, an armed revert), since that is all `_service_hold_seconds` reads. A task is `Queued`
until both limits of its queue are reached, since Cloud Tasks stops retrying only then: attempts used up
*and* the retry window over. Before that it may have more attempts than `QueueAttempts`.

**RevertStore**, **TrustRamp** - the `pending` and `autonomy` documents and their mutators.

**CompleteRollback** - a rollback from the moment it moves traffic to the moment it is undone: `_mitigate`
(`Rollback`, `Verified`, `SaveApproval`, `Arm`) and the `finish_heal` after it (`FinishHeal`; until then a
failed heal is delivered again), `complete_rollback` (`Begin`, `GiveUp`, `Select`,
`NoCandidate`, `Split`, `GatePasses`, `GateFails`, `Compensate`, `Bump`, `Demote`, `Credit`, `Close`,
`Unlock`), the approved fix that rewrites the record (`FixRead`, `FixWrite`), deploys, and grants. Any
call may raise (`Raise`, `HealFails`, `FixFails`: the `finally` clause still runs) and any process may die
(`Die`: it does not). The choice of the newest eligible revision is inside the choice of any eligible
one, because CI may name any. A revision is good or bad for good; a bad one fails its direct probe, a
good one may fail a gate all the same. Six counts per incident (`tally`) say how often its account was
upset: its `credits`, the traffic moved back for it (`undone`, counted in `Compensate`, where it is moved),
its heals that failed half way (`broken`), its compensations that failed before `bump_attempts`
(`uncounted`), its completions that died before `end_complete` (`unclosed`), its records an approved fix
wrote back (`rewrites`). The properties are bounds in these counts.

**HealDecision** - what a heal decides and does to production, from the first look at the service to the
witnessing of its target: `_heal_body` and `_mitigate` with `analyzer.py`, `signals/engine.py`,
`memory.py`, `causal.py` and `reversibility.py`. SelfHeal leaves this body open and is about who may run
it; HealDecision lets several bodies run at once and is about what each does with values it read earlier.
Everything around the heals moves between any two steps: deploys, retirements, traffic moved by others,
a failing dependency, the level, the age of a witness.

| Action | Code |
|---|---|
| `Triage`, `Detect` | the first listing of the revisions, `signals.detect` (`Analyze`, `Fuse`, `BaselineFor`), the ledger read for selection |
| `Decide` | the model's advice (any), `_validate` (`Promote`, `Aim`, `RollbackPair`), `_healthy_witness` |
| `Fold`, `Witness` | `observe_healthy`, `witness_serving` |
| `ReadLevel`, `Answer` | the autonomy gate, `apply_approval` |
| `Guard`, `Probe`, `Shift` | `reversibility.check`, `causal.precheck` with its retry and blind landing, the rollback |
| `Verify`, `Certify` | `_verify` with `record_outcome`, the clean window that witnesses the target |

The configuration is the one with every safeguard on. A sample is an error rate with its Wilson interval,
given as data: the intervals of samples of 400 requests, computed from the formula in `analyzer.py`. Rates
are integers per mille, and the EMA rounds down. The incident memory and the revision delta are evidence
shown to people and decide nothing.

**TransparencyLog** - `_persist_proof` and `transparency.append`. A stamp saves the status, reads the
record back, signs, saves the snapshot and appends a link if it was signed; stamps of one incident
overlap because the revert is armed before the heal records its status. A hash is modelled by what it
commits to, the sequence of links below it, so that equal hashes mean equal histories. A proof is signed
with the key version the auditor pinned, with another one, or (signing failed) not at all. **AppendOnlyLog**
is the abstract specification: one sequence that only grows, without repeating a recent key;
`LogIsAppendOnly` and, with restores, `LogGrowsOrIsRestored` are the refinements, with the links as the
documents hold them for the abstract sequence.

**LogAudit** - extends TransparencyLog with `fetch_chain`, `walk` and `attest_chain` of the auditor: the
head, then pages up to `max_entries`, while heals append; links out of place, unsigned or signed by another
key version than the pinned one; containment in the last checkpoint; anti-reset; and the faults: a
page that does not arrive, a store restored from a backup, a checkpoint lost with or without the memory
that there was one. A page is read in one step, which `transparency.entries` does document by document;
entries are never changed, so a page read across an append differs from one read before it at most by
entries past the head the auditor holds.

**TrafficBlock** - the traffic block of the service and every writer of it in `backends/gcp.py`: rollback,
canary split, break and reset, the causal probe's tag and its restore, all through `_set_traffic` with
its etag, attempts, refusals, lost answers and crashes; and the two readers of a tagged address. Targets
are decided in `Begin`, before the etag is read in `Fetch`, as in the code.

**FixWatch** - `open_fix_pr` and `self_correct_ci` against one shared GitHub: the listing that finds an
open PR, the branch, the commits one by one, the PR, the watcher with the per-process `_watching`, the
sha of the file it corrects, CI, humans and recycled instances.

**EventBus** - `events.py`: `_append_local` with its bounded log and its set of seen ids, `publish`, the
subscription that delivers late, out of order and again, and the index of a dashboard's stream.

**ProofPoll** - the auditor's `_poll_loop` and `audit_incident`: the key read once a cycle, the listing, a
fetch per incident, the cache keyed by bytes and pins, the tri-state verdict, the counter-signature, the
page; and the agent's side of it, incidents that are opened, stamped and altered.

**MCSelfHeal**, **MCCompleteRollback**, **MCHealDecision**, **MCDecisionsAndLog**, **MCFleet** - TLC
instances. The last two put components side by side that share no state in the code either (a heal is
known to the log by its record alone; traffic, pull requests, events and proofs are different services):
a variable `part` says which of them a behaviour moves, and the others stay as they began, so the run
explores the sum of the components and not their product. **SelfHealProofs**, **CompleteRollbackProofs**,
**HealDecisionProofs**, **FixWatchProofs**, **TransparencyLogProofs**, **LogAuditProofs**,
**TrafficBlockProofs**, **BusAndPollProofs** (EventBus and ProofPoll) - the theorems.

Ghost variables (`fuse`, `runs`, `cut`, `dropped`, `stranded`, `bare` in SelfHeal; `pin`, `robbed`, `tally`
and `culprit` in CompleteRollback; `since`, `hurt` and `fit` of a
heal in HealDecision; `begun`, `mixed` in TransparencyLog; `torn`, `truth`, `restores`, `wipes`, `reset`
in LogAudit; `stale`, `moved`, `marred` in TrafficBlock; `doubled` in FixWatch; `shown`, `history`,
`cleared` in EventBus; `saw`, `pem` of an attestation in ProofPoll) record what happened, for the
properties; no guard reads one but to bound how much happens, and `fuse`, which holds the clock back when
runs are assumed bounded.

## 3. Runs

| Run | Shows | Instance |
|---|---|---|
| `heal_safety` | one worker per incident, one incident per storm, the only three ways an accepted heal is lost | 2 incidents, 2 workers, 1 crash, early redelivery, fallback; queue and breaker both at 2, as both are at 5 when deployed |
| `heal_operators` | a running leader is not replaced unless its lease was settled under it | 2 incidents, 2 workers, 1 answer, 1 completion, L1 |
| `heal_recycle` | liveness: accepted heals end, followers included; exhaustion is explicit | 2 incidents, 2 workers, 1 crash, L1 |
| `heal_overrun` | types, the circuit breaker and the finality of a done heal, with no assumption on time at all | 1 incident, 2 workers, 1 answer, L1 and L2 |
| `revert_safety` | one completion at a time, no split or pin forgotten but in the ways named; undo cap and single credit up to the failures counted; demotion | 2 incidents, 2 completers, 3 revisions, 2 heals, 1 fault, 1 grant |
| `recycle_lost` | violation: a redelivery within the dead run's lease is acknowledged and the heal is lost | 1 incident, 1 worker |
| `silent_giveup` | violation: five runs that fail after more than 1800 s in all use the task up before the breaker speaks | 1 incident, 1 worker, the deployed limits in units of 120 s |
| `bare_escalate` | violation: another incident's revert makes a bare escalate hold the storm lease | 2 incidents, 1 worker |
| `rearmed_revert` | violation: a closing completion deletes the revert a newer heal has armed | 2 incidents, 1 completer |
| `decisions_and_log` | no shift of traffic against the level, across a migration or onto an equally sick revision but in the ways named; a healthy service is left alone; the baseline does not learn up; the chain is whole, only grows, and what an auditor trusts is a whole chain that extends the last one, with no false alarm but those of `max_entries` and of another key version | 2 heals, 3 revisions, 3 outside events or starts; 1 incident, 2 stampers, 3 links of which an audit fetches 2, 1 restore, 1 wipe |
| `fleet_safety` | the probe does not move traffic, tags do not leak, evidence is about its target; one PR per class, no conflict within a process, allowed paths only; events are not repeated or skipped but in the ways named; verdicts are fresh, and (liveness) the page catches up | 2 writers, 2 revisions; 2 threads, 3 paths, 2 branches; 2 instances, 3 events; 2 incidents, 2 faults |
| `blind_witness` | violation: a sample that could not be taken counts as one with no errors, and a sick revision is witnessed healthy | as `decisions_and_log` |

Bounds. Two incidents of one service are enough for every race of the storm lease and of the pending
revert: the documents hold one owner, and a third incident meets the same owner. Two workers make a
redelivery overlap a run; two completers make a duplicate request. Leases of 1 or 2 ticks suffice to
let one lapse before, during and after a run. `MaxHealAttempts` is 2 instead of 5, and
`MaxUndoAttempts` 1 or 2; the breaker theorem holds for every value. `MaxCrashes`, `MaxFaults`,
`MaxAnswers`, `MaxCompletions` and `MaxGrants` are 1 or 0; `MaxHeals` is 2, two incidents' heals or one heal
delivered twice. The canary has one partial and one full stage
in `revert_safety` and the three of `config.py` in `rearmed_revert`. Three revisions are a bad one, the
one rolled back to and a fix, in any assignment to good and bad. A heal names the serving revision as
the bad one. `Gates` names the approvals the autonomy level asks for: both in `heal_safety`
and `heal_overrun`, the L1 rollback alone in the two dearest runs, where the fix of L2 adds only a second
way into the same hold. Runs that switch deadlock checking off are those where the system may really stop: every
alert handled and the dedup mark in force, or every incident healed and closed.

In `decisions_and_log`, `Budget` counts the heals that start and the events around them together: two
heals and one event, or one heal and two, which is what each of the properties takes to break. The
revisions are an older good one (or a noisy one), one that changes the schema, and the newest, not yet
deployed; both serving revisions, both levels and both mixes of conditions are initial. A ledger of one
makes every second witness evict, and `RecentCap` 1 makes every second link forget, which is the case a
cap of 200 meets only late; the proofs hold for any cap. A page of one entry lets appends fall between any
two pages. In `fleet_safety` two attempts of `_set_traffic` show both a retry and its exhaustion; two
threads of one process show what `_watching` is for, and a human is the other writer; `Max` 2 fills the
log and clears the seen set within three events; `Limit` 1 of two incidents lets one leave the window and
come back.

Assumptions that are switches. `BoundedRuns` is what `config.py` says of `HEAL_LEASE_S` (">= worst-case
run"); `heal_overrun` drops it. `EarlyRedelivery` is on where a property claims to hold under it.
`BoundedCompletions` says the same of `COMPLETE_LEASE_S`, which no line of the code promises: the
properties that need it say so in their formula. `QueueAttempts` is larger than the breaker in
`heal_recycle` and equal to it, as deployed, in `heal_safety` and `silent_giveup`.
`RetryWindow` is what `--max-retry-duration` leaves of a task in units of time. Where it is 1 the queue may
outlast it or not, as its backoff has it (in `heal_operators`, the dearest, the attempts alone count: 0); with `PromptQueue`, in `silent_giveup`, the queue wastes no time
and only the runs themselves can use the window up. There both limits and both leases keep their
deployed ratio: 5 attempts, 5 units of lease (600 s), 15 of window (1800 s).

Fairness (`FairSpec`, only in `heal_recycle` and violation runs that need it): weak fairness of each
worker, because a thread that started runs until it returns or dies; weak fairness of time; strong
fairness of delivery per incident, because Cloud Tasks keeps dispatching an unacknowledged task but
workers may be busy in between. Nothing is assumed of alerts, operators, CI or deploys. `fleet_safety`
adds weak fairness of the auditor's poll step: `_poll_loop` is a `while True` that catches every exception
and sleeps, and the step in question is the next one of the cycle with calls that are answered; since
failures are bounded by `MaxFaults`, that says that failures end. `PageCatchesUp` promises nothing of an
incident that keeps leaving the window or of an agent that never comes to rest.

Symmetry is used in safety runs only, over incidents, workers, completers, heals and stampers, which the
modules treat alike. `decisions_and_log` has no liveness property; its temporal ones are safety.

## 4. What the violations say

1. `recycle_lost`: the heal lease of a dead run stays live for `HEAL_LEASE_S`; a redelivery before it
   lapses is answered `duplicate` with a 200, which acknowledges the task. `queue.py` promises that the
   heal survives an instance recycle.
2. `silent_giveup`: Cloud Tasks stops when a task has had its 5 attempts and its 1800 s are over. Five
   quick failures are followed by a sixth delivery, on which `claim_heal` gives up aloud and the storm
   lease is released. Five runs that fail late, more than 1800 s in all (each may take up to
   `HEAL_LEASE_S`, 600 s, the dispatch deadline of the task), reach both limits, and that sixth
   delivery never comes. With failures of up to 360 s each the property holds.
3. `bare_escalate`: `_service_hold_seconds` asks for the pending revert of the service, not of the
   incident.
4. `rearmed_revert`: `end_complete` deletes the service's record whoever armed it. `set_pending` takes
   care not to disturb a running completion, but the completion does not take care of the re-arm. The
   model shows the same loss through the approved fix (`FixWrite`), and `PinForgottenOnlyBy` says there
   is no further way but a heal that dies before it arms.
5. `blind_witness`: `_active_sample` answers (0, 0) when the service cannot be looked up; `analyze` turns
   that into INCONCLUSIVE at rate 0.0, and `_healthy_witness` asks only for a rate of zero. The serving
   revision is witnessed, and 0.0 is folded into its baseline, on no sample at all.
   `WitnessedUnfitOnlyBy` says that this and traffic moved during the judgement are the only ways.

Smaller differences between code and words, met while modelling and not made runs of:

- With BASELINE_GUARD on, the learned baseline can only fall (`BaselineNeverLearnsUp`): a sample is folded
  only after a PASS below the baseline or a rate of zero. `memory.py:5-8` says that the rate of a normally noisy
  service is learned so that it is not flagged for ever, and `engine.py:97-101`, which says that the guard
  ships with the burn detector, lets the baseline converge on a true normal above the configured one: with
  the guard on, neither can happen upwards, and such a rate has to be configured.
- `gcp.py:336-342` says the retry keeps a write from silently undoing a fresh rollback; the etag only makes
  the write start over, and the same targets are written at the second attempt. `ProbeIsNonDisruptive`
  therefore excepts a probe that was overtaken.
- `checkpoint.py:149` says that absence of a fetch is not evidence; that holds of the head, but a page that
  does not arrive is reported as gaps, `ok: False` (`torn` in `AlarmOnlyBy`). `checkpoint.py:145` speaks of
  the full log audit "the poller runs each cycle"; nothing in `auditor/app.py` or `poller.py` calls it, and
  only the tests do. LogAudit models the audit as its functions define it, for whoever runs it.
- `fetch_chain` stops at `max_entries` (`transparency_audit.py:158`), and `walk` goes on to the head: once the
  log has more entries (100 000), every audit reports gaps although nothing was lost (`TooLong`). Likewise a
  link signed by another key version than the pinned one, a rotation say, fails every later audit
  (`OtherKey`).
- A completion that dies between crediting the trust ramp and `end_complete` (`state_machine.py:634-643`) is
  done again by the next request and credits again, although the comment above says "WITHOUT
  double-counting" (`unclosed` in `CreditedOnce`); and a compensation whose `bump_attempts` fails
  (`:612-613`) does not count against the cap (`uncounted` in `CapHolds`).
- A reused PR is watched for `FIX_FILE`, whatever file it fixed (`github_pr.py:60`); `WritesWhereItMay`
  excepts it. A listing that is not a 200 is taken for an empty one (`blind`).
- A failed counter-signature stays in the auditor's cache until the bytes change; a proof built live for a
  heal under way is unsigned, and DEGRADED after the cutover.
- A thin causal probe lands on a sick target without the blind mark that an errored one leaves.

## 5. Proofs

Every invariant and every action property of the passing runs but `HealSurvivesRecycle` and `NoSilentGiveUp`
is also a theorem, for every value of the
constants that satisfies the assumptions named in the modules. Liveness stays with TLC. Each section
below gives the theorems, and the inductive invariant they need, since few of the properties are
inductive as they stand. TLC was run on each of those invariants before it was proved, on the instances
of the runs (but for the record type of a heal's locals, `Whole`, whose quantifiers are unbounded). A proof that a step preserves one has a step per action, and a lemma for what the actions have in common (`...Kept`,
`...Keeps`: a step that leaves such and such alone).

### SelfHealProofs

For any number of incidents and workers, any lease lengths, attempts, bounds and switches
(`StoreAssumption`, `SelfHealAssumption`):

| Theorem | Statement |
|---|---|
| `TypeCorrect` | `Spec => []TypeOK` |
| `BreakerHolds` | `Spec => []BreakerBoundsRuns` |
| `OneRunPerIncident` | `Spec => []SingleRun` |
| `OneIncidentPerStorm` | `Spec => []SingleHealer` |
| `LeaderKeepsService` | `Spec => NoTakeoverMidRun` |
| `FinishedForGood` | `Spec => DoneIsTerminal` |
| `AttemptsAccounted` | `Spec => []CountInv` |
| `NoUnnamedLoss` | `Spec => []LossesAreNamed` |

`TypeOK` and `BreakerBoundsRuns` are inductive given the former: the attempts in the document and the
number of starts move together. `SingleRun` is not: a second claim is refused because of a live lease, so
the proof needs `RunInv`, that the lease of a run's incident lasts at least as long as the worker's `fuse`
and its document is not done. That carries through time because `Tick` ages both, and through releases
because a worker only ever closes the document of its own incident, which by `SingleRun` is nobody else's.
`SingleHealer` needs `LeadInv` on top: a worker past the gate and not cut leads the service, and the
storm lease outlasts its fuse (`SERVICE_HEAL_LEASE_S >= HEAL_LEASE_S` is the assumption that makes a
takeover impossible).

The last two follow the fate of a delivery, with no hypothesis on time, redelivery or the limits; they hold
of the deployed queue. `CountInv` is bookkeeping between two counters that no line of the code compares, the
attempts of the queue and those of the breaker: what a task has left, plus what the breaker counted, plus
the deaths so far, is at least what the queue began with, and one more for every run under way. An attempt
that the queue charges was either counted by `claim_heal` before it failed, or died. An overrun only adds
runs, which are counted; a delivery answered 2xx takes the task away. It bounds the queue's used attempts by
the breaker's count and the deaths, not the other way round: an in-process run counts against the
breaker and against no task. `TracedInv` says that an accepted heal is settled, named as dropped or
stranded, on an in-process thread, or a task, one that ran out included; where it ran out, `CountInv` gives
the third way of `LossesAreNamed`. That a heal with attempts to spare survives a recycle
(`HealSurvivesRecycle`) and is given up aloud (`NoSilentGiveUp`) rests on when Cloud Tasks redelivers and is
model-checked in `heal_recycle`, under the conditions that run states.

### CompleteRollbackProofs

For any number of incidents, requests and revisions, any lease, cap, canary and bounds
(`RevertStoreAssumption`, `TrustAssumption`, `CompleteAssumption`):

| Theorem | Statement |
|---|---|
| `RevertTypeCorrect` | `Spec => []RevertTypeOK` |
| `OneCompletion` | `Spec => []SingleCompletion` |
| `DemotionHolds` | `Spec => []DemotionSticks` |
| `UndoCapHolds` | `Spec => []CapHolds` |
| `PinRemembered` | `Spec => []PinForgottenOnlyBy` |
| `TornSplitsTracked` | `Spec => []TornSplitTracked` |
| `CreditsNotDoubled` | `Spec => []CreditedOnce` |

Types need `LocalsOK`: what a heal or a completion under way carries in its locals (incident, revisions,
canary index) are those of a record. `SingleCompletion` needs `LeaseInv`: whoever completes holds the
lease of the record, even when a heal or an approved fix replaced the record under it, because
`set_pending` carries a live lease over.

`HealerInv` says that a heal under way is of an incident that is not done, and `Armed` that only an incident
whose heal got as far has a record, a completion or a written-back record (`KnownInv`): the heal under way is
of none of them, unless it failed before and came again, and then `broken` counts it. `CapHolds` needs
`UndoInv`: an incident's completions have the allowance (`Cap`) of one record, for each time a record of it
was written (`Records`), and of what was not counted; the record that is armed has spent no more of its own
allowance than its attempts say, one compensation on its way to `bump_attempts` aside (`Owed`); and a completion
that may still compensate has not used the allowance up. The step of `bump_attempts` is where `LeaseInv`
enters: nobody else is about to compensate. A raise before it moves the debt from `Owed` to `uncounted`.

`PinInv` says that a pin which nobody has forgotten yet is on record or its heal is about to put it there,
and that a completion which restored the traffic does not hold the record of a later pin. `TornInv` says that
a split left half way is on record *and* has attempts left: without the second half the next request might
give the record up. It holds because who compensates makes the traffic whole before it counts the
attempt, and because a fix that writes a record back brings no larger count, unless it read the record
before a second heal of the incident armed a new one (`ReadBeforeRearm`, part of `robbed`). `CreditInv`
follows the one credit an incident is due (`Due`) from the heal that earned it, through `counted` on the
record, to the close that pays it (`Settled`); where it has not been paid, the credits stay one behind, and
each failed heal, each completion that died unclosed and each rewrite allows one more. As their formulas
say, `SingleCompletion`, `CapHolds` and these three hold where completions end within their lease.

### HealDecisionProofs

For any heals, revisions, markers, conditions, samples and thresholds. `DecisionAssumption` types the
constants; `NewestAssumption` says that any revisions have a newest (they are finitely many);
`ConditionAssumption` says what the conditions mean to a sample: a good revision never shows enough errors
to count, a noisy one no more than the seed explains, a bad one shows some.

| Theorem | Statement |
|---|---|
| `DecisionInvariant` | `DecisionSpec => []DecisionInv` |
| `LevelIsObeyed` | `DecisionSpec => ActsAboveItsLevelOnlyBy` |
| `MigrationsAreNotCrossed` | `DecisionSpec => CrossesMigrationOnlyBy` |
| `FutileShiftsAreExplained` | `DecisionSpec => FutileShiftOnlyBy` |
| `BaselineHolds` | `DecisionSpec => []BaselineNeverLearnsUp` |
| `HealthInvariant` | `DecisionSpec => []HealthInv` |
| `HealthyServiceStays` | `DecisionSpec => HealthyServiceLeftAlone` |
| `WitnessesServedWell` | `DecisionSpec => WitnessedUnfitOnlyBy` |

Each action property speaks of the step that moves traffic or writes the ledger, while what justifies it
was read several steps earlier. `DecisionInv` carries the justification along: from the moment a heal has
read the level (`Levelled`), passed the reversibility guard (`Guarded`) or probed its target (`Probed`),
what it concluded is still so or what changed since is in `since`. The lemma that every outside event
teaches every other heal (`Learn`) is what keeps it. `Calm` says that a rate about to be folded is below
the seed, from which the baseline's bound follows through the arithmetic of `Folded`.

`HealthInv` does the same for health. A heal that never saw the service sick is at a service that is well,
and rolls it back only if there is noise to take for failure and the baseline was learned down (`HurtOK`):
this is where `BaselineFor`, `Analyze` and `Fuse` enter, with `ConditionAssumption`. What it is about to
witness served in health, or `fit` says why that is not known (`FitOK`).

### FixWatchProofs

For any instances, threads, classes, paths and fixes (`FixAssumption`):

| Theorem | Statement |
|---|---|
| `FixInvariant` | `FixSpec => []FixInv` |
| `DuplicatesAreBlind` | `FixSpec => []DuplicateOnlyBy` |
| `NoConflictAtHome` | `FixSpec => []ConflictOnlyAcrossInstances` |
| `WritesAreAllowed` | `FixSpec => []WritesWhereItMay` |

`FixInv` says of every thread: one that writes a fix and was not overtaken still has no open PR of its
class before it (`SeesNone`); the path it will watch is committed or first among those to commit
(`Covers`); past the lock it is the only one of its process on its branch (`Alone`), which a crash keeps
because threads and `_watching` go together; so nobody at home can have beaten it to the file.

### TransparencyLogProofs and LogAuditProofs

For any incidents, stamping threads, cap and number of appends (`LogAssumption`), and any page size,
restores and faults (`AuditAssumption`):

| Theorem | Statement |
|---|---|
| `LogInvariant` | `LogSpec => []LogInv` |
| `ChainIsWhole` | `LogSpec => []ChainWhole` |
| `LogImplementsAppendOnly` | `LogSpec => LogIsAppendOnly`, the refinement of AppendOnlyLog |
| `ServedIsCurrent` | `LogSpec => []ServedMatchesRecord` |
| `LogIsRestorable` | `AuditSpec => LogGrowsOrIsRestored`, the refinement with restores |
| `ReadsAreFaithful` | `AuditSpec => []FaithfulRead` |
| `TrustIsInWholeChains` | `AuditSpec => TrustsWholeChains` |
| `TrustGoesOn` | `AuditSpec => TrustOnlyExtends` |
| `AlarmsAreFounded` | `AuditSpec => []AlarmOnlyBy` |

`LogInv` adds to the chain's wholeness that a thread about to append holds a signed snapshot, and that the
head's `recent` is the keys of the last `RecentCap` links in order (`Remembers`). The latter is what the
refinement needs: a key the head does not remember is not among the last links, so the append is a step
of the abstract log. That the window shifts by one when it is full (`AppendKeepsRemembers`) is arithmetic
on positions. A restore cuts the documents to an earlier state, of which `LogInv` holds again.
`ServedInv` follows the snapshot of an incident whose stamps never overlapped.

The auditor's soundness does not rest on what it was shown: `AuditInv` says only that no two entries it
holds claim one place and that its head is as long as it says. `TrustsWholeChains` then is a fact about
`walk`: entries that link from the genesis to the head, each committing to those below it, are the
head's history. It is an induction on the position, done over sets (`RangeInduction`, from the minimum of a
nonempty set of naturals, `WFMin`), since the induction theorem of the library takes an operator. That no
alarm is false needs the converse, `FaithfulRead`, which is `ReadsAreFaithful`: until the store is first
restored, the chain extends both the head and the checkpoint, and the entries got are exactly the log's below
`lo`, though every page was read from the log of its own moment. After a restore a reading may mix two
histories, and `AuditInv` alone says nothing against it: that is why the verdict must. `AlarmOnlyBy` then
excepts what the formula names, a log longer than `max_entries` and links of another key version included.

### TrafficBlockProofs

For any writers, revisions, stages and attempts (`TrafficAssumption`, which also says that any revisions
have a newest):

| Theorem | Statement |
|---|---|
| `TrafficInvariant` | `TrafficSpec => []TrafficInv` |
| `TagsAreOwned` | `TrafficSpec => []TagLeaksOnlyBy` |
| `EvidenceIsOnTarget` | `TrafficSpec => []EvidenceIsOfTheTarget` |
| `ProbesDisturbNothing` | `TrafficSpec => ProbeIsNonDisruptive` |

`InPlace` is what a writer may rely on until another write lands: the split is the one it remembers, the
tag it looks at is on its revision. `TagIsOwned` is the delicate half: a probe that started while another's
tag was up has it in its `original` and will put it back, so it is not enough that some probe is under way
while a tag is on the block; each probe that would put one back must leave another behind it to take it
off, or the restore is marked in `marred`.

### BusAndPollProofs

For any instances, publishers, dashboards, duplicates and log limit of at least 2
(`BusAssumption`), and for any incidents, window and faults (`PollAssumption`):

| Theorem | Statement |
|---|---|
| `BusInvariant` | `BusSpec => []BusInv` |
| `RepeatsAreRedeliveries` | `BusSpec => []RepeatOnlyBy` |
| `ViewersSeeTheRest` | `BusSpec => []ViewersMissOnlyTheTrimmed` |
| `PollInvariant` | `PollSpec => []PollInv` |
| `VerdictsAreFresh` | `PollSpec => []VerdictIsFresh` |

`BusInv` relates each bounded log to all the instance ever took: the log is its end, at the offset
(`LogIs`); what was taken is still in `seen` unless that was cleared, and what is on the wire was not taken
unless it came again (`OnceIs`); a stream was shown, in order, all up to its index but what was trimmed
(`StreamIs`), which a trim under an open stream keeps because it moves the offset by what it removes.
`PollInv` says that every verdict, in the cycle, the cache or the page, is the one its bytes and its pins
give; a hit keeps it because the pins are part of the key.

### Not proved

Liveness (`AcceptedHealEnds`, `PageCatchesUp`) is only model-checked: the prover does
not reach fairness and ENABLED. Of the five properties that runs show
violated, two hold in `heal_recycle` under its conditions (`HealSurvivesRecycle`, `NoSilentGiveUp`; no theorem
states those), two hold
with their exceptions named (`PinTracked` as `PinForgottenOnlyBy`, and likewise `WitnessIsEvidence` as
`WitnessedUnfitOnlyBy`), and `BareEscalateReleases` is simply false.
What the proofs take from outside is the constants' assumptions, which TLC evaluates on every instance, and
that the modules are faithful to the code.

Two things the proofs changed in the model. Two CASE arms of HealDecision overlapped (`Fuse`, `Probe`): TLC
takes the first, the language any; the guards now exclude each other. And facts about the constants that
every instance had met in silence are stated as assumptions: that revisions have a newest, that the log
limit is not 1, what conditions mean to a sample.

## 6. Plan

1. Abstract specifications of the two transactions, and the refinements proved: a heal that is accepted,
   started at most so often, and done (SelfHeal); a revert that is armed, completing, and closed,
   compensated or given up (CompleteRollback), as long as no other incident takes the record.
2. The two hazards without a property: what the mark before the enqueue and the answer before the settle
   may cost, stated as the only ways in which an alert or an answer goes unheard.
3. `HealSurvivesRecycle` and `NoSilentGiveUp` as theorems of the deployed limits, with the longest failing run
   in terms of the retry window as the hypothesis.
4. `HealDecision` with a safeguard switched off, each in turn, to see which property each one carries; the
   coverage cross-check of the auditor once it has a verdict.

## 7. Not modelled, and why

- The Wilson interval (real arithmetic; its values are data), hashing, signing and canonical JSON
  (modelled by what they establish), reports and dashboards (renderings of the records modelled).
- Language-model calls, prompts, the agent framework and the sandbox that tries a fix: any answer is
  allowed wherever one is used.
- The parsing of hostile proofs in `verify.py`, and its ports in `docs/explorer` and `scripts`: sequential
  and pure, and not about states.
- The burn detector, off in the configuration modelled; unguarded configurations in general.
- The MCP servers, thin front ends that call the agent's functions; the demo target and the setup scripts;
  the local and mock backends, test doubles without concurrency of their own.
- The webhook's mark before the enqueue and the answer that races a settle are in SelfHeal as steps, and no
  property is claimed of them: the code says nothing of what should happen.
