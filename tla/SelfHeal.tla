------------------------------ MODULE SelfHeal ------------------------------
(***************************************************************************)
(* run_self_heal (agent/autosre/state_machine.py) from the alert webhook   *)
(* to the settled outcome, for the incidents of ONE service: the webhook   *)
(* dedup, the work queue (Cloud Tasks, or an in-process thread), the       *)
(* per-incident claim with its circuit breaker, the per-service storm      *)
(* lease, and the two other actors that settle that lease: an operator's   *)
(* apply_approval and complete_rollback.                                   *)
(*                                                                         *)
(* Every read or write of the durable store is one step; a worker may die  *)
(* between any two of them.  What _heal_body does to production is         *)
(* abstracted to what the leases can see of it: whether it saved an        *)
(* approval, whether it armed the pending revert, and how it ended.        *)
(***************************************************************************)
EXTENDS HealStore

CONSTANTS
  Worker,            \* threads that may be running run_self_heal
  StormCoalesce,     \* config.STORM_COALESCE
  EarlyRedelivery,   \* Cloud Tasks may redeliver while the heal lease is live
  BoundedRuns,       \* a run ends before its heal lease (HEAL_LEASE_S >= worst case)
  QueueAttempts,     \* --max-attempts of the Cloud Tasks queue (deploy.sh)
  RetryWindow,       \* its --max-retry-duration, counted from a task's first attempt
  PromptQueue,       \* a task is retried, and claims its heal, within one unit of time
  DedupExpires,      \* Monitoring may fire again after DEDUP_TTL_S
  Gates,             \* the approvals that the autonomy levels met file
  Fallback,          \* create_task may fail, so the heal runs in process
  MaxCrashes,        \* bound on the number of workers that die
  MaxAnswers,        \* bound on the calls of apply_approval
  MaxCompletions     \* bound on the calls of complete_rollback

ASSUME SelfHealAssumption ==
  /\ {StormCoalesce, EarlyRedelivery, BoundedRuns, DedupExpires, Fallback,
      PromptQueue} \subseteq BOOLEAN
  /\ Gates \subseteq {"rollback", "fix_pr"}
  /\ QueueAttempts \in Nat \ {0} /\ RetryWindow \in Nat
  /\ IsFiniteSet(Worker)
  /\ {MaxCrashes, MaxAnswers, MaxCompletions} \subseteq Nat

VARIABLES
  heal,       \* heal_runs documents
  service,    \* the service_heals document
  alert,      \* per incident: "quiet", "marked" (deduped, not enqueued), "accepted"
  tasks,      \* per incident, what is left of the two limits of its Cloud Task
  approval,   \* approvals documents: "none", "rollback" (L1) or "fix_pr" (L2)
  pending,    \* incident_id of the pending revert, or NoIncident
  pc, inc, durable, status, hold,          \* the workers' program and locals
  apc, ainc, apeek, astatus, ahold, asnap, \* the operator's apply_approval
  cpc, cinc,                               \* complete_rollback
  \* what happened, for the properties:
  fuse,       \* per worker, what is left of the lease its claim was granted
  runs,       \* per incident, how often a heal was started
  cut,        \* workers whose service lease another actor re-aimed mid-run
  dropped,    \* incidents a delivery of which was acknowledged as "duplicate" while not done
  stranded,   \* incidents whose in-process heal died with nobody to redeliver it
  bare,       \* workers that escalated with no approval or revert of their incident
  crashes, answers, completions   \* how much of each bound is used up

store      == <<heal, service, approval, pending>>
workerVars == <<pc, inc, durable, status, hold>>
approver   == <<apc, ainc, apeek, astatus, ahold, asnap>>
completer  == <<cpc, cinc>>
intake     == <<alert, tasks>>
bounds     == <<crashes, answers, completions>>
ghosts     == <<fuse, runs, cut, dropped, stranded, bare, bounds>>
vars == <<store, workerVars, approver, completer, intake, ghosts>>

\* Cloud Tasks gives up on a failing task only when both limits are reached: its
\* attempts are used up and its retry window has passed.
Task    == [left : 0..QueueAttempts, window : 0..RetryWindow, tried : BOOLEAN]
NoTask  == [left |-> 0, window |-> 0, tried |-> FALSE]
NewTask == [left |-> QueueAttempts, window |-> RetryWindow, tried |-> FALSE]
Queued(i)     == tasks[i].left > 0 \/ tasks[i].window > 0
OutOfTries(i) == tasks[i].tried /\ ~Queued(i)

\* A task is attempted, its attempt fails (unless another one acknowledged it), and
\* its retry window runs.
Attempted(task)  == [task EXCEPT !.tried = TRUE]
Failed(task)     ==
  IF task = NoTask THEN task
  ELSE [left |-> Elapse(task.left), window |-> task.window, tried |-> TRUE]
WindowRuns(task) == IF task.tried THEN [task EXCEPT !.window = Elapse(task.window)] ELSE task

InBody   == {"body", "gate_l1", "gate_l2", "armed", "armed_l2"}
\* The worker holds the per-incident lease it was granted.
InRun    == InBody \cup {"claimed", "attach", "release", "hold", "revert", "settle", "finish"}
WorkerPc == InRun \cup {"idle", "start", "giveup"}
Status   == {"none", "noop", "escalated", "mitigated", "denied",
             "awaiting_approval", "awaiting_fix_approval"}
\* state_machine._MAYBE_HELD_STATES
MaybeHeldStates == {"awaiting_approval", "awaiting_fix_approval", "escalated"}

Running(w) == pc[w] \in InRun

Init ==
  /\ heal = [i \in Incident |-> NoHealDoc]
  /\ service = NoServiceDoc
  /\ alert = [i \in Incident |-> "quiet"]
  /\ tasks = [i \in Incident |-> NoTask]
  /\ approval = [i \in Incident |-> "none"]
  /\ pending = NoIncident
  /\ pc = [w \in Worker |-> "idle"]
  /\ inc = [w \in Worker |-> NoIncident]
  /\ durable = [w \in Worker |-> FALSE]
  /\ status = [w \in Worker |-> "none"]
  /\ hold = [w \in Worker |-> 0]
  /\ apc = "idle" /\ ainc = NoIncident /\ apeek = FALSE
  /\ astatus = "none" /\ ahold = 0 /\ asnap = NoIncident
  /\ cpc = "idle" /\ cinc = NoIncident
  /\ fuse = [w \in Worker |-> 0]
  /\ runs = [i \in Incident |-> 0]
  /\ cut = {} /\ dropped = {} /\ stranded = {} /\ bare = {}
  /\ crashes = 0 /\ answers = 0 /\ completions = 0

-----------------------------------------------------------------------------
(* The alert webhook and the queue.                                        *)

\* cloud_monitoring_alert up to seen_and_mark: a marked incident is a duplicate.
Alert(i) ==
  /\ alert[i] = "quiet"
  /\ alert' = [alert EXCEPT ![i] = "marked"]
  /\ UNCHANGED <<store, workerVars, approver, completer, tasks, ghosts>>

\* enqueue_heal creates the Cloud Task.
Enqueue(i) ==
  /\ alert[i] = "marked"
  /\ alert' = [alert EXCEPT ![i] = "accepted"]
  /\ tasks' = [tasks EXCEPT ![i] = NewTask]
  /\ UNCHANGED <<store, workerVars, approver, completer, ghosts>>

\* create_task failed: enqueue_heal runs the heal on a thread of this process.
EnqueueInproc(i, w) ==
  /\ Fallback
  /\ alert[i] = "marked"
  /\ pc[w] = "idle"
  /\ alert' = [alert EXCEPT ![i] = "accepted"]
  /\ pc' = [pc EXCEPT ![w] = "start"]
  /\ inc' = [inc EXCEPT ![w] = i]
  /\ durable' = [durable EXCEPT ![w] = FALSE]
  /\ UNCHANGED <<store, status, hold, approver, completer, tasks, ghosts>>

\* The dedup mark lapsed (DEDUP_TTL_S) and Monitoring fires for the incident again.
DedupLapse(i) ==
  /\ DedupExpires
  /\ alert[i] = "accepted"
  /\ alert' = [alert EXCEPT ![i] = "quiet"]
  /\ UNCHANGED <<store, workerVars, approver, completer, tasks, ghosts>>

\* Cloud Tasks delivers an unacknowledged task to /internal/run-heal.  With
\* EarlyRedelivery it may do so although an earlier delivery's lease is live:
\* the instance died, the dispatch deadline passed, or the task was duplicated.
Deliverable(i) ==
  /\ Queued(i)
  /\ ~EarlyRedelivery =>
       /\ heal[i].lease = 0
       /\ \A v \in Worker : pc[v] # "idle" => inc[v] # i

Deliver(i, w) ==
  /\ Deliverable(i)
  /\ pc[w] = "idle"
  /\ tasks' = [tasks EXCEPT ![i] = Attempted(@)]
  /\ pc' = [pc EXCEPT ![w] = "start"]
  /\ inc' = [inc EXCEPT ![w] = i]
  /\ durable' = [durable EXCEPT ![w] = TRUE]
  /\ UNCHANGED <<store, status, hold, approver, completer, alert, ghosts>>

\* The worker returns.  A 2xx acknowledges the task; a 5xx uses up one attempt,
\* and an in-process thread that raised leaves nothing.
Return(w, code) ==
  /\ pc' = [pc EXCEPT ![w] = "idle"]
  /\ inc' = [inc EXCEPT ![w] = NoIncident]
  /\ durable' = [durable EXCEPT ![w] = FALSE]
  /\ status' = [status EXCEPT ![w] = "none"]
  /\ hold' = [hold EXCEPT ![w] = 0]
  /\ fuse' = [fuse EXCEPT ![w] = 0]
  /\ cut' = cut \ {w}
  /\ bare' = bare \ {w}
  /\ tasks' = IF durable[w]
              THEN [tasks EXCEPT ![inc[w]] = IF code = "2xx" THEN NoTask ELSE Failed(@)]
              ELSE tasks
  /\ stranded' = IF ~durable[w] /\ code = "5xx" THEN stranded \cup {inc[w]} ELSE stranded

Goto(w, label) == pc' = [pc EXCEPT ![w] = label]

-----------------------------------------------------------------------------
(* run_self_heal.                                                          *)

\* claim_heal answered "duplicate": drop the delivery with a 2xx.
ClaimDuplicate(w) ==
  /\ pc[w] = "start"
  /\ ClaimVerdict(heal[inc[w]]) = "duplicate"
  /\ Return(w, "2xx")
  /\ dropped' = IF heal[inc[w]].done THEN dropped ELSE dropped \cup {inc[w]}
  /\ UNCHANGED <<store, alert, approver, completer, runs, bounds>>

\* claim_heal tripped the circuit breaker and marked the heal done.
ClaimExhausted(w) ==
  /\ pc[w] = "start"
  /\ ClaimVerdict(heal[inc[w]]) = "exhausted"
  /\ heal' = [heal EXCEPT ![inc[w]] = Exhausted(@)]
  /\ Goto(w, "giveup")
  /\ UNCHANGED <<service, approval, pending, inc, durable, status, hold,
                 approver, completer, intake, ghosts>>

\* manual_intervention: the leader that gives up releases the storm lease.
GiveUp(w) ==
  /\ pc[w] = "giveup"
  /\ service' = IF StormCoalesce THEN SettleService(service, inc[w], 0) ELSE service
  /\ Return(w, "2xx")
  /\ UNCHANGED <<heal, approval, pending, alert, approver, completer, runs,
                 dropped, bounds>>

\* claim_heal granted the lease: this worker runs the heal.
ClaimGranted(w) ==
  /\ pc[w] = "start"
  /\ ClaimVerdict(heal[inc[w]]) = "claimed"
  /\ heal' = [heal EXCEPT ![inc[w]] = Claimed(@)]
  /\ fuse' = [fuse EXCEPT ![w] = HealLease]
  /\ runs' = [runs EXCEPT ![inc[w]] = @ + 1]
  /\ Goto(w, IF StormCoalesce THEN "claimed" ELSE "body")
  /\ UNCHANGED <<service, approval, pending, inc, durable, status, hold,
                 approver, completer, intake, cut, dropped, stranded, bare, bounds>>

\* claim_service_heal: lead the heal of this service or attach to its leader.
Correlate(w) ==
  /\ pc[w] = "claimed"
  /\ service' = ClaimService(service, inc[w])
  /\ Goto(w, IF ServiceRole(service, inc[w]) = "leader" THEN "body" ELSE "attach")
  /\ UNCHANGED <<heal, approval, pending, inc, durable, status, hold,
                 approver, completer, intake, ghosts>>

\* _attach_to_leader: a follower's incident is terminal.
Attach(w) ==
  /\ pc[w] = "attach"
  /\ heal' = [heal EXCEPT ![inc[w]] = FinishHeal(@)]
  /\ Return(w, "2xx")
  /\ UNCHANGED <<service, approval, pending, alert, approver, completer, runs,
                 dropped, bounds>>

\* _heal_body at L1 (kind "rollback") or L2 (kind "fix_pr") files its approval.
Gate(w, kind) ==
  /\ pc[w] = "body"
  /\ approval' = [approval EXCEPT ![inc[w]] = kind]
  /\ Goto(w, IF kind = "rollback" THEN "gate_l1" ELSE "gate_l2")
  /\ UNCHANGED <<heal, service, pending, inc, durable, status, hold,
                 approver, completer, intake, ghosts>>

\* _mitigate shifted traffic and arms the pending revert (verified or not).
Arm(w) ==
  /\ pc[w] \in {"body", "gate_l2"}
  /\ pending' = inc[w]
  /\ Goto(w, IF pc[w] = "body" THEN "armed" ELSE "armed_l2")
  /\ UNCHANGED <<heal, service, approval, inc, durable, status, hold,
                 approver, completer, intake, ghosts>>

\* The statuses _heal_body can return from each point; "noop" stands for
\* observed too: neither leaves anything behind nor can hold the lease.
Outcomes(label) ==
  CASE label = "body"     -> {"noop", "escalated"}
    [] label = "gate_l1"  -> {"awaiting_approval"}
    [] label = "armed"    -> {"mitigated", "escalated"}
    [] label = "armed_l2" -> {"awaiting_fix_approval"}
    [] OTHER -> {}

\* _heal_body returns.
BodyReturns(w) ==
  /\ \E s \in Outcomes(pc[w]) :
       /\ status' = [status EXCEPT ![w] = s]
       /\ bare' = IF s = "escalated" /\ approval[inc[w]] = "none" /\ pending # inc[w]
                  THEN bare \cup {w} ELSE bare
  /\ Goto(w, IF StormCoalesce THEN "hold" ELSE "finish")
  /\ UNCHANGED <<store, inc, durable, hold, approver, completer, intake,
                 fuse, runs, cut, dropped, stranded, bounds>>

\* _heal_body raises: a store, backend or GitHub call failed.
BodyRaises(w) ==
  /\ pc[w] \in InBody
  /\ Goto(w, "release")
  /\ UNCHANGED <<store, inc, durable, status, hold, approver, completer, intake, ghosts>>

\* Mutated form: the failed run keeps its lease.
ReleaseKeepsLease(w) ==
  /\ pc[w] = "release"
  /\ Return(w, "2xx")
  /\ UNCHANGED <<store, alert, approver, completer, runs, dropped, bounds>>

\* release_heal, then the exception goes on to the caller (500 to Cloud Tasks).
Release(w) ==
  /\ pc[w] = "release"
  /\ heal' = [heal EXCEPT ![inc[w]] = ReleaseHeal(@)]
  /\ Return(w, "5xx")
  /\ UNCHANGED <<service, approval, pending, alert, approver, completer, runs,
                 dropped, bounds>>

\* _service_hold_seconds reads the approval of the incident, and if there is none
\* the pending revert of the service.
ApprovalHolds(s, i) == s \in MaybeHeldStates /\ approval[i] # "none"
AsksRevert(s, i)    == s \in MaybeHeldStates /\ approval[i] = "none"
RevertHold          == IF pending # NoIncident THEN ApprovalHold ELSE 0

ReadHold(w) ==
  /\ pc[w] = "hold"
  /\ hold' = [hold EXCEPT ![w] = IF ApprovalHolds(status[w], inc[w]) THEN ApprovalHold ELSE 0]
  /\ Goto(w, IF AsksRevert(status[w], inc[w]) THEN "revert" ELSE "settle")
  /\ UNCHANGED <<store, inc, durable, status, approver, completer, intake, ghosts>>

ReadRevert(w) ==
  /\ pc[w] = "revert"
  /\ hold' = [hold EXCEPT ![w] = RevertHold]
  /\ Goto(w, "settle")
  /\ UNCHANGED <<store, inc, durable, status, approver, completer, intake, ghosts>>

Settle(w) ==
  /\ pc[w] = "settle"
  /\ service' = SettleService(service, inc[w], hold[w])
  /\ Goto(w, "finish")
  /\ UNCHANGED <<heal, approval, pending, inc, durable, status, hold,
                 approver, completer, intake, ghosts>>

Finish(w) ==
  /\ pc[w] = "finish"
  /\ heal' = [heal EXCEPT ![inc[w]] = FinishHeal(@)]
  /\ Return(w, "2xx")
  /\ UNCHANGED <<service, approval, pending, alert, approver, completer, runs,
                 dropped, bounds>>

\* The instance dies, or a store call outside run_self_heal's try raises: the
\* delivery fails and nothing is cleaned up.
Die(w) ==
  /\ pc[w] # "idle"
  /\ crashes < MaxCrashes
  /\ crashes' = crashes + 1
  /\ Return(w, "5xx")
  /\ UNCHANGED <<store, alert, approver, completer, runs, dropped, answers, completions>>

-----------------------------------------------------------------------------
(* apply_approval: an operator answers a gate.                             *)

\* The approval lapses (APPROVAL_TTL_S).
ApprovalLapse(i) ==
  /\ approval[i] # "none"
  /\ approval' = [approval EXCEPT ![i] = "none"]
  /\ UNCHANGED <<heal, service, pending, workerVars, approver, completer, intake, ghosts>>

\* apply_approval reads the approval for its service (only under STORM_COALESCE).
Peek(i) ==
  /\ apc = "idle"
  /\ answers < MaxAnswers
  /\ answers' = answers + 1
  /\ apc' = "peeked" /\ ainc' = i
  /\ apeek' = (StormCoalesce /\ approval[i] # "none")
  /\ UNCHANGED <<store, workerVars, astatus, ahold, asnap, completer, intake,
                 fuse, runs, cut, dropped, stranded, bare, crashes, completions>>

\* Where apply_approval goes once its body returned s.
Answered(s) ==
  IF apeek THEN apc' = "hold" /\ astatus' = s /\ UNCHANGED <<ainc, apeek>>
  ELSE apc' = "idle" /\ astatus' = "none" /\ ainc' = NoIncident /\ apeek' = FALSE

\* claim_approval finds nothing: the answer came late or twice.
ClaimNothing ==
  /\ apc = "peeked"
  /\ approval[ainc] = "none"
  /\ Answered("noop")
  /\ UNCHANGED <<store, workerVars, ahold, asnap, completer, intake, ghosts>>

Deny ==
  /\ apc = "peeked"
  /\ approval[ainc] # "none"
  /\ approval' = [approval EXCEPT ![ainc] = "none"]
  /\ Answered("denied")
  /\ UNCHANGED <<heal, service, pending, workerVars, ahold, asnap, completer, intake, ghosts>>

\* claim_approval deletes the document and hands it to this caller alone.
Approve ==
  /\ apc = "peeked"
  /\ approval[ainc] # "none"
  /\ approval' = [approval EXCEPT ![ainc] = "none"]
  /\ apc' = IF approval[ainc] = "rollback" THEN "resumed" ELSE "fix_pr"
  /\ UNCHANGED <<heal, service, pending, workerVars, ainc, apeek, astatus, ahold, asnap,
                 completer, intake, ghosts>>

\* L1 resume: the target went stale, the service healed by itself, or a
\* pre-check of _mitigate refused.
ResumeRefused ==
  /\ apc = "resumed"
  /\ \E s \in {"noop", "escalated"} : Answered(s)
  /\ UNCHANGED <<store, workerVars, ahold, asnap, completer, intake, ghosts>>

\* L1 resume: _mitigate rolled back and armed the pending revert.
ResumeArms ==
  /\ apc = "resumed"
  /\ pending' = ainc
  /\ \E s \in {"mitigated", "escalated"} : Answered(s)
  /\ UNCHANGED <<heal, service, approval, workerVars, ahold, asnap, completer, intake, ghosts>>

\* L2: the fix PR is open; get_pending ...
FixRead ==
  /\ apc = "fix_pr"
  /\ IF pending = NoIncident
     THEN Answered("mitigated") /\ UNCHANGED asnap
     ELSE /\ apc' = "rearm" /\ asnap' = pending
          /\ UNCHANGED <<ainc, apeek, astatus>>
  /\ UNCHANGED <<store, workerVars, ahold, completer, intake, ghosts>>

\* ... and set_pending with the record read.
FixWrite ==
  /\ apc = "rearm"
  /\ pending' = asnap
  /\ asnap' = NoIncident
  /\ Answered("mitigated")
  /\ UNCHANGED <<heal, service, approval, workerVars, ahold, completer, intake, ghosts>>

\* Workers in the middle of a run of i that lead the service.
Leading(i) == {w \in Worker : inc[w] = i /\ pc[w] \in InBody}

ApproverReadsHold ==
  /\ apc = "hold"
  /\ ahold' = IF ApprovalHolds(astatus, ainc) THEN ApprovalHold ELSE 0
  /\ apc' = IF AsksRevert(astatus, ainc) THEN "revert" ELSE "settle"
  /\ UNCHANGED <<store, workerVars, ainc, apeek, astatus, asnap, completer, intake, ghosts>>

ApproverReadsRevert ==
  /\ apc = "revert"
  /\ ahold' = RevertHold
  /\ apc' = "settle"
  /\ UNCHANGED <<store, workerVars, ainc, apeek, astatus, asnap, completer, intake, ghosts>>

\* A step of apply_approval raises or its instance dies: the approval it claimed
\* is gone and the lease stays as it was.
ApproverFails ==
  /\ apc # "idle"
  /\ apc' = "idle" /\ ainc' = NoIncident /\ apeek' = FALSE
  /\ astatus' = "none" /\ ahold' = 0 /\ asnap' = NoIncident
  /\ UNCHANGED <<store, workerVars, completer, intake, ghosts>>

ApproverSettles ==
  /\ apc = "settle"
  /\ service' = SettleService(service, ainc, ahold)
  /\ cut' = cut \cup Leading(ainc)
  /\ apc' = "idle" /\ ainc' = NoIncident /\ apeek' = FALSE
  /\ astatus' = "none" /\ ahold' = 0
  /\ UNCHANGED <<heal, approval, pending, workerVars, asnap, completer, intake,
                 fuse, runs, dropped, stranded, bare, bounds>>

-----------------------------------------------------------------------------
(* complete_rollback, as the leases see it (CompleteRollback has the rest). *)

CompleteBegin ==
  /\ cpc = "idle"
  /\ pending # NoIncident
  /\ completions < MaxCompletions
  /\ completions' = completions + 1
  /\ cpc' = "working" /\ cinc' = pending
  /\ UNCHANGED <<store, workerVars, approver, intake,
                 fuse, runs, cut, dropped, stranded, bare, crashes, answers>>

\* Its _release_service_lease: hold 0.
CompleterSettles(next) ==
  /\ service' = IF StormCoalesce THEN SettleService(service, cinc, 0) ELSE service
  /\ cut' = cut \cup Leading(cinc)
  /\ cpc' = next
  /\ cinc' = IF next = "idle" THEN NoIncident ELSE cinc
  /\ UNCHANGED <<heal, approval, pending, workerVars, approver, intake,
                 fuse, runs, dropped, stranded, bare, bounds>>

\* closed: release the lease, then end_complete deletes the record.
Close == cpc = "working" /\ CompleterSettles("ending")

EndComplete ==
  /\ cpc = "ending"
  /\ pending' = NoIncident
  /\ cpc' = "idle" /\ cinc' = NoIncident
  /\ UNCHANGED <<heal, service, approval, workerVars, approver, intake, ghosts>>

\* No candidate fix: a human is needed, the lease is released, the record stays.
NoCandidate == cpc = "working" /\ CompleterSettles("idle")

\* Out of undo attempts: the record is cleared, then the lease released.
ClearPending ==
  /\ cpc = "working"
  /\ pending' = NoIncident
  /\ cpc' = "giveup"
  /\ UNCHANGED <<heal, service, approval, workerVars, cinc, approver, intake, ghosts>>

CompleteGivesUp == cpc = "giveup" /\ CompleterSettles("idle")

\* compensated, or the completion raised: the record and the lease stay.
Compensate ==
  /\ cpc = "working"
  /\ cpc' = "idle" /\ cinc' = NoIncident
  /\ UNCHANGED <<store, workerVars, approver, intake, ghosts>>

-----------------------------------------------------------------------------
\* Time passes.  BoundedRuns is what config says of HEAL_LEASE_S: it covers the
\* worst-case run, so no run is still going when its lease lapses.  With PromptQueue
\* the queue's backoff and its dispatch are shorter than a unit of time.
Tick ==
  /\ BoundedRuns => \A w \in Worker : Running(w) => fuse[w] > 1
  /\ PromptQueue => /\ \A i \in Incident : ~Deliverable(i)
                    /\ \A w \in Worker : pc[w] \notin {"start", "giveup"}
  /\ \/ service.lease > 0
     \/ \E i \in Incident : heal[i].lease > 0
     \/ \E w \in Worker : fuse[w] > 0
     \/ \E i \in Incident : tasks[i].tried /\ tasks[i].window > 0
  /\ heal' = [i \in Incident |-> Aged(heal[i])]
  /\ service' = Aged(service)
  /\ fuse' = [w \in Worker |-> Elapse(fuse[w])]
  /\ tasks' = [i \in Incident |-> WindowRuns(tasks[i])]
  /\ UNCHANGED <<approval, pending, workerVars, approver, completer, alert,
                 runs, cut, dropped, stranded, bare, bounds>>

WorkerStep(w) ==
  \/ ClaimDuplicate(w) \/ ClaimExhausted(w) \/ ClaimGranted(w)
  \/ GiveUp(w) \/ Correlate(w) \/ Attach(w)
  \/ (\E kind \in Gates : Gate(w, kind)) \/ Arm(w)
  \/ BodyReturns(w) \/ BodyRaises(w) \/ Release(w)
  \/ ReadHold(w) \/ ReadRevert(w) \/ Settle(w) \/ Finish(w)

Approver ==
  \/ \E i \in Incident : Peek(i)
  \/ ClaimNothing \/ Deny \/ Approve \/ ResumeRefused \/ ResumeArms
  \/ FixRead \/ FixWrite \/ ApproverReadsHold \/ ApproverReadsRevert
  \/ ApproverSettles \/ ApproverFails

Completer ==
  \/ CompleteBegin \/ Close \/ EndComplete \/ NoCandidate
  \/ ClearPending \/ CompleteGivesUp \/ Compensate

Next ==
  \/ \E i \in Incident : Alert(i) \/ Enqueue(i) \/ DedupLapse(i) \/ ApprovalLapse(i)
  \/ \E i \in Incident, w \in Worker : Deliver(i, w) \/ EnqueueInproc(i, w)
  \/ \E w \in Worker : WorkerStep(w) \/ Die(w)
  \/ Approver
  \/ Completer
  \/ Tick

Spec == Init /\ [][Next]_vars

\* A worker that started keeps going until it returns or dies, the clock runs, and
\* Cloud Tasks keeps dispatching every unacknowledged task.  Nothing is assumed of
\* the webhook, the operator or the CI that reports a fix.
FairSpec ==
  /\ Spec
  /\ \A w \in Worker : WF_vars(WorkerStep(w))
  /\ \A i \in Incident : SF_vars(\E w \in Worker : Deliver(i, w))
  /\ WF_vars(Tick)
-----------------------------------------------------------------------------
(* Properties.                                                             *)

TypeOK ==
  /\ heal \in [Incident -> HealDoc]
  /\ service \in ServiceDoc
  /\ alert \in [Incident -> {"quiet", "marked", "accepted"}]
  /\ tasks \in [Incident -> Task]
  /\ approval \in [Incident -> {"none", "rollback", "fix_pr"}]
  /\ pending \in Incident \cup {NoIncident}
  /\ pc \in [Worker -> WorkerPc]
  /\ inc \in [Worker -> Incident \cup {NoIncident}]
  /\ \A w \in Worker : pc[w] # "idle" => inc[w] \in Incident
  /\ durable \in [Worker -> BOOLEAN]
  /\ status \in [Worker -> Status]
  /\ hold \in [Worker -> {0, ApprovalHold}]
  /\ apc \in {"idle", "peeked", "resumed", "fix_pr", "rearm", "hold", "revert", "settle"}
  /\ ainc \in Incident \cup {NoIncident}
  /\ apc # "idle" => ainc \in Incident
  /\ apeek \in BOOLEAN /\ astatus \in Status /\ ahold \in {0, ApprovalHold}
  /\ asnap \in Incident \cup {NoIncident}
  /\ cpc \in {"idle", "working", "ending", "giveup"}
  /\ cpc # "idle" => cinc \in Incident
  /\ cinc \in Incident \cup {NoIncident}
  /\ fuse \in [Worker -> 0..HealLease]
  /\ runs \in [Incident -> Nat]
  /\ cut \subseteq Worker
  /\ dropped \subseteq Incident /\ stranded \subseteq Incident /\ bare \subseteq Worker
  /\ crashes \in Nat /\ answers \in Nat /\ completions \in Nat

\* "Claim a per-incident lease BEFORE any side effect so a duplicate trigger
\* can't double-heal" (run_self_heal): two workers never run the heal of one
\* incident at once, whatever is redelivered, retried or crashes, as long as a
\* run does not outlive its lease.
SingleRun ==
  BoundedRuns =>
    \A v, w \in Worker : v # w /\ Running(v) /\ Running(w) => inc[v] # inc[w]

\* The circuit breaker of claim_heal: however often a heal is redelivered,
\* crashes or outlives its lease, it starts at most MaxHealAttempts times.
BreakerBoundsRuns ==
  \A i \in Incident : runs[i] = heal[i].attempts /\ runs[i] <= MaxHealAttempts

\* A storm of incidents of one service heals it once (STORM_COALESCE): workers
\* of two incidents are never both past the correlation gate, unless an operator
\* or a completion settled the lease of one of them while it was still running.
SingleHealer ==
  BoundedRuns /\ StormCoalesce =>
    \A v, w \in Worker :
      pc[v] \in InBody /\ pc[w] \in InBody /\ inc[v] # inc[w] => v \in cut \/ w \in cut

\* "The heal survives an instance recycle" (queue.py): a heal that was accepted
\* is finished, still queued, or being run.
HealSurvivesRecycle ==
  \A i \in Incident :
    alert[i] = "accepted" =>
      \/ heal[i].done
      \/ Queued(i)
      \/ \E w \in Worker : pc[w] # "idle" /\ inc[w] = i

\* The three ways an accepted heal is ever lost: a redelivery that came while the
\* lease of a dead or failing run was live was acknowledged as a duplicate; the
\* in-process fallback raised or died; or Cloud Tasks gave up, both its limits reached
\* by tries that were all made: each started a run that the breaker counted, or died.
LossesAreNamed ==
  \A i \in Incident :
    alert[i] = "accepted" =>
      \/ heal[i].done
      \/ Queued(i)
      \/ \E w \in Worker : pc[w] # "idle" /\ inc[w] = i
      \/ i \in dropped \cup stranded
      \/ OutOfTries(i) /\ heal[i].attempts + crashes >= QueueAttempts

\* A finished heal never starts again, not even by a redelivery or a stale
\* run's release_heal after finish_heal.
DoneIsTerminal ==
  [][\A i \in Incident : heal[i].done => heal'[i].done /\ runs'[i] = runs[i]]_vars

\* While a leader is inside its run nobody becomes leader in its place, unless
\* the lease was settled under it.
NoTakeoverMidRun ==
  [][\A w \in Worker :
       BoundedRuns /\ StormCoalesce /\ pc[w] \in InBody /\ w \notin cut
         => service'.leader = inc[w]]_vars

\* Every accepted heal reaches a terminal outcome, deterministic failures included
\* (the breaker gives up): nothing loops or waits forever.
AcceptedHealEnds ==
  \A i \in Incident : Queued(i) ~> heal[i].done

\* "exhausted: failed max_attempts times, give up (marked done ...)" (claim_heal):
\* a heal that used up its attempts and that nothing will deliver again was given
\* up explicitly, so a human is told and the storm lease is released.
NoSilentGiveUp ==
  \A i \in Incident :
    /\ heal[i].attempts = MaxHealAttempts
    /\ ~Queued(i)
    /\ \A w \in Worker : inc[w] # i
    => heal[i].done

\* "A BARE escalate ... armed neither and must RELEASE: it is a corpse a follower
\* must never attach to" (_MAYBE_HELD_STATES): a run that escalates with neither a
\* live approval nor a pending revert of its own settles with no hold.
BareEscalateReleases ==
  \A w \in Worker : pc[w] = "settle" /\ w \in bare => hold[w] = 0
=============================================================================
