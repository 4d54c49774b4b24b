--------------------------- MODULE SelfHealProofs ---------------------------
(***************************************************************************)
(* Proofs about SelfHeal, for every set of incidents and workers and every *)
(* value of the leases and bounds.                                         *)
(***************************************************************************)
EXTENDS SelfHeal, FiniteSetTheorems, TLAPS

USE StoreAssumption, SelfHealAssumption
USE DEF vars, store, workerVars, approver, completer, intake, ghosts, bounds

-----------------------------------------------------------------------------
(* What the store's mutators do to their documents.                        *)

LEMMA HealMutators ==
  ASSUME NEW doc \in HealDoc
  PROVE  /\ FinishHeal(doc) \in HealDoc /\ FinishHeal(doc).done
         /\ FinishHeal(doc).attempts = doc.attempts
         /\ Exhausted(doc) \in HealDoc /\ Exhausted(doc).done
         /\ Exhausted(doc).attempts = doc.attempts
         /\ ReleaseHeal(doc) \in HealDoc /\ ReleaseHeal(doc).done = doc.done
         /\ ReleaseHeal(doc).attempts = doc.attempts
         /\ Aged(doc) \in HealDoc /\ Aged(doc).done = doc.done
         /\ Aged(doc).attempts = doc.attempts
         /\ Aged(doc).lease = Elapse(doc.lease)
  <1> USE DEF HealDoc, StoreAssumption
  <1>1. FinishHeal(doc) \in HealDoc /\ FinishHeal(doc).done /\ FinishHeal(doc).attempts = doc.attempts
    BY DEF FinishHeal
  <1>2. Exhausted(doc) \in HealDoc /\ Exhausted(doc).done /\ Exhausted(doc).attempts = doc.attempts
    BY DEF Exhausted
  <1>3. ReleaseHeal(doc) \in HealDoc /\ ReleaseHeal(doc).done = doc.done
        /\ ReleaseHeal(doc).attempts = doc.attempts
    BY DEF ReleaseHeal
  <1>4. Aged(doc) \in HealDoc /\ Aged(doc).done = doc.done
        /\ Aged(doc).attempts = doc.attempts /\ Aged(doc).lease = Elapse(doc.lease)
    BY DEF Aged, Elapse
  <1> QED BY <1>1, <1>2, <1>3, <1>4

LEMMA ClaimGrants ==
  ASSUME NEW doc \in HealDoc, ClaimVerdict(doc) = "claimed"
  PROVE  /\ doc.lease = 0 /\ ~doc.done /\ doc.attempts < MaxHealAttempts
         /\ Claimed(doc) \in HealDoc
         /\ Claimed(doc).lease = HealLease /\ ~Claimed(doc).done
         /\ Claimed(doc).attempts = doc.attempts + 1
  BY DEF HealDoc, ClaimVerdict, Claimed, StoreAssumption

LEMMA ServiceMutators ==
  ASSUME NEW doc \in ServiceDoc, NEW i \in Incident, NEW time \in Nat
  PROVE  /\ SettleService(doc, i, time) \in ServiceDoc
         /\ SettleService(doc, i, time).leader = doc.leader
         /\ doc.leader # i => SettleService(doc, i, time) = doc
  BY DEF ServiceDoc, SettleService

LEMMA ServiceAges ==
  ASSUME NEW doc \in ServiceDoc
  PROVE  /\ Aged(doc) \in ServiceDoc /\ Aged(doc).leader = doc.leader
         /\ Aged(doc).lease = Elapse(doc.lease)
  BY DEF ServiceDoc, Aged, Elapse

LEMMA Correlation ==
  ASSUME NEW doc \in ServiceDoc, NEW i \in Incident
  PROVE  /\ ClaimService(doc, i) \in ServiceDoc
         /\ ServiceRole(doc, i) \in {"leader", "follower"}
         /\ ServiceRole(doc, i) = "leader" =>
              /\ doc.lease > 0 => doc.leader = i
              /\ ClaimService(doc, i).leader = i
              /\ ClaimService(doc, i).lease = ServiceLease
         /\ ServiceRole(doc, i) = "follower" =>
              /\ ClaimService(doc, i).leader = doc.leader
              /\ ClaimService(doc, i).lease = doc.lease
  BY DEF ServiceDoc, ServiceRole, ClaimService, StoreAssumption

\* What an attempt, a failure and time do to a task; an acknowledged one stays gone.
LEMMA TaskFacts ==
  ASSUME NEW t \in Task
  PROVE  /\ t # NoTask <=> t.left > 0 \/ t.window > 0 \/ t.tried
         /\ NoTask \in Task /\ NewTask \in Task /\ NewTask # NoTask
         /\ NewTask.left = QueueAttempts
         /\ Attempted(t) \in Task /\ Attempted(t).left = t.left /\ Attempted(t) # NoTask
         /\ Failed(t) \in Task /\ (Failed(t) # NoTask <=> t # NoTask)
         /\ Failed(t).left >= t.left - 1
         /\ WindowRuns(t) \in Task /\ (WindowRuns(t) # NoTask <=> t # NoTask)
         /\ WindowRuns(t).left = t.left
  <1> USE DEF Task, NoTask
  <1>1. t # NoTask <=> t.left > 0 \/ t.window > 0 \/ t.tried
    <2>1. t = [left |-> t.left, window |-> t.window, tried |-> t.tried] OBVIOUS
    <2>2. t.left \in Nat /\ t.window \in Nat /\ t.tried \in BOOLEAN OBVIOUS
    <2> QED BY <2>1, <2>2
  <1>2. /\ NoTask \in Task /\ NewTask \in Task /\ NewTask # NoTask
        /\ NewTask.left = QueueAttempts
    BY DEF NewTask
  <1>3. Attempted(t) \in Task /\ Attempted(t).left = t.left /\ Attempted(t) # NoTask
    BY DEF Attempted
  <1>4. /\ Failed(t) \in Task /\ (Failed(t) # NoTask <=> t # NoTask)
        /\ Failed(t).left >= t.left - 1
    <2>1. Elapse(t.left) \in 0..QueueAttempts /\ Elapse(t.left) >= t.left - 1
      BY DEF Elapse
    <2>2. CASE t = NoTask BY <2>2 DEF Failed
    <2>3. CASE t # NoTask
      <3>1. Failed(t) = [left |-> Elapse(t.left), window |-> t.window, tried |-> TRUE]
        BY <2>3 DEF Failed
      <3>2. Failed(t) # NoTask BY <3>1
      <3> QED BY <2>1, <2>3, <3>1, <3>2
    <2> QED BY <2>2, <2>3
  <1>5. /\ WindowRuns(t) \in Task /\ WindowRuns(t).left = t.left
        /\ WindowRuns(t) # NoTask <=> t # NoTask
    <2>1. Elapse(t.window) \in 0..RetryWindow BY DEF Elapse
    <2>2. CASE ~t.tried BY <2>2 DEF WindowRuns
    <2>3. CASE t.tried
      <3>1. WindowRuns(t) = [t EXCEPT !.window = Elapse(t.window)] BY <2>3 DEF WindowRuns
      <3>2. WindowRuns(t).tried /\ t # NoTask BY <2>3, <3>1
      <3>3. WindowRuns(t) # NoTask BY <3>2
      <3> QED BY <2>1, <3>1, <3>2, <3>3
    <2> QED BY <2>2, <2>3
  <1> QED BY <1>1, <1>2, <1>3, <1>4, <1>5

-----------------------------------------------------------------------------
(* Types.                                                                  *)

LEMMA ReturnTypes ==
  ASSUME TypeOK, NEW w \in Worker, pc[w] # "idle",
         NEW code \in {"2xx", "5xx"}, Return(w, code)
  PROVE  /\ pc' \in [Worker -> WorkerPc]
         /\ inc' \in [Worker -> Incident \cup {NoIncident}]
         /\ \A v \in Worker : pc'[v] # "idle" => inc'[v] \in Incident
         /\ durable' \in [Worker -> BOOLEAN]
         /\ status' \in [Worker -> Status]
         /\ hold' \in [Worker -> {0, ApprovalHold}]
         /\ fuse' \in [Worker -> 0..HealLease]
         /\ cut' \subseteq Worker /\ bare' \subseteq Worker
         /\ tasks' \in [Incident -> Task]
         /\ stranded' \subseteq Incident
  <1>1. tasks' \in [Incident -> Task]
    BY TaskFacts DEF TypeOK, Return
  <1> QED BY <1>1 DEF TypeOK, Return, WorkerPc, InRun, InBody, Status

LEMMA InitTypes == Init => TypeOK
  <1> SUFFICES ASSUME Init PROVE TypeOK
    OBVIOUS
  <1>1. heal \in [Incident -> HealDoc]
    BY DEF Init, HealDoc, NoHealDoc
  <1>2. service \in ServiceDoc
    BY DEF Init, ServiceDoc, NoServiceDoc
  <1>3. fuse \in [Worker -> 0..HealLease]
    BY DEF Init, StoreAssumption
  <1>4. tasks \in [Incident -> Task]
    BY DEF Init, NoTask, Task, SelfHealAssumption
  <1> QED
    BY <1>1, <1>2, <1>3, <1>4 DEF Init, TypeOK, WorkerPc, Status

LEMMA IntakeTypes ==
  ASSUME TypeOK, NEW i \in Incident,
         \/ Alert(i) \/ Enqueue(i) \/ DedupLapse(i) \/ ApprovalLapse(i)
         \/ \E w \in Worker : Deliver(i, w) \/ EnqueueInproc(i, w)
  PROVE  TypeOK'
  <1>1. CASE Alert(i) BY <1>1 DEF TypeOK, Alert
  <1>2. CASE Enqueue(i)
    <2>1. alert' \in [Incident -> {"quiet", "marked", "accepted"}]
      BY <1>2 DEF TypeOK, Enqueue
    <2>2. NewTask \in Task
      <3>1. tasks[i] \in Task BY DEF TypeOK
      <3> QED BY <3>1, TaskFacts
    <2>3. tasks' \in [Incident -> Task] BY <1>2, <2>2 DEF TypeOK, Enqueue
    <2> QED BY <1>2, <2>1, <2>3 DEF TypeOK, Enqueue
  <1>3. CASE DedupLapse(i) BY <1>3 DEF TypeOK, DedupLapse
  <1>4. CASE ApprovalLapse(i) BY <1>4 DEF TypeOK, ApprovalLapse
  <1>5. ASSUME NEW w \in Worker, Deliver(i, w) PROVE TypeOK'
    <2>1. tasks' \in [Incident -> Task]
      BY <1>5, TaskFacts DEF TypeOK, Deliver
    <2> QED BY <1>5, <2>1 DEF TypeOK, Deliver, WorkerPc
  <1>6. ASSUME NEW w \in Worker, EnqueueInproc(i, w) PROVE TypeOK'
    BY <1>6 DEF TypeOK, EnqueueInproc, WorkerPc
  <1> QED BY <1>1, <1>2, <1>3, <1>4, <1>5, <1>6

LEMMA WorkerTypes ==
  ASSUME TypeOK, NEW w \in Worker, WorkerStep(w) \/ Die(w)
  PROVE  TypeOK'
  <1> USE DEF WorkerPc, InRun, InBody, Status
  <1>0. pc[w] # "idle" => inc[w] \in Incident /\ heal[inc[w]] \in HealDoc
    BY DEF TypeOK
  <1>1. CASE ClaimDuplicate(w)
    BY <1>1, <1>0, ReturnTypes DEF TypeOK, ClaimDuplicate
  <1>2. CASE ClaimExhausted(w)
    <2>1. heal' \in [Incident -> HealDoc]
      BY <1>0, <1>2, HealMutators DEF TypeOK, ClaimExhausted
    <2> QED BY <1>2, <2>1 DEF TypeOK, ClaimExhausted, Goto
  <1>3. CASE GiveUp(w)
    <2>1. service' \in ServiceDoc
      BY <1>0, <1>3, ServiceMutators DEF TypeOK, GiveUp
    <2> QED BY <1>3, <2>1, ReturnTypes DEF TypeOK, GiveUp
  <1>4. CASE ClaimGranted(w)
    <2>1. heal' \in [Incident -> HealDoc]
      BY <1>0, <1>4, ClaimGrants DEF TypeOK, ClaimGranted
    <2> QED BY <1>0, <1>4, <2>1 DEF TypeOK, ClaimGranted, Goto
  <1>5. CASE Correlate(w)
    <2>1. service' \in ServiceDoc
      BY <1>0, <1>5, Correlation DEF TypeOK, Correlate
    <2> QED BY <1>5, <2>1 DEF TypeOK, Correlate, Goto
  <1>6. CASE Attach(w)
    <2>1. heal' \in [Incident -> HealDoc]
      BY <1>0, <1>6, HealMutators DEF TypeOK, Attach
    <2> QED BY <1>6, <2>1, ReturnTypes DEF TypeOK, Attach
  <1>7. CASE \E kind \in Gates : Gate(w, kind)
    <2>1. PICK kind \in Gates : Gate(w, kind) BY <1>7
    <2>2. kind \in {"rollback", "fix_pr"} BY DEF SelfHealAssumption
    <2> QED BY <2>1, <2>2, <1>0 DEF TypeOK, Gate, Goto
  <1>8. CASE Arm(w)
    BY <1>8, <1>0 DEF TypeOK, Arm, Goto
  <1>9. CASE BodyReturns(w)
    BY <1>9 DEF TypeOK, BodyReturns, Outcomes, Goto
  <1>10. CASE BodyRaises(w)
    BY <1>10 DEF TypeOK, BodyRaises, Goto
  <1>11. CASE Release(w)
    <2>1. heal' \in [Incident -> HealDoc]
      BY <1>0, <1>11, HealMutators DEF TypeOK, Release
    <2> QED BY <1>11, <2>1, ReturnTypes DEF TypeOK, Release
  <1>12. CASE ReadHold(w) \/ ReadRevert(w)
    BY <1>12 DEF TypeOK, ReadHold, ReadRevert, RevertHold, Goto
  <1>13. CASE Settle(w)
    <2>0. hold[w] \in Nat /\ inc[w] \in Incident
      BY <1>0, <1>13 DEF TypeOK, Settle, StoreAssumption
    <2>1. service' \in ServiceDoc
      BY <2>0, <1>13, ServiceMutators DEF TypeOK, Settle
    <2> QED BY <1>13, <2>1 DEF TypeOK, Settle, Goto
  <1>14. CASE Finish(w)
    <2>1. heal' \in [Incident -> HealDoc]
      BY <1>0, <1>14, HealMutators DEF TypeOK, Finish
    <2> QED BY <1>14, <2>1, ReturnTypes DEF TypeOK, Finish
  <1>15. CASE Die(w)
    BY <1>15, <1>0, ReturnTypes DEF TypeOK, Die
  <1> QED
    BY <1>1, <1>2, <1>3, <1>4, <1>5, <1>6, <1>7, <1>8, <1>9, <1>10, <1>11,
       <1>12, <1>13, <1>14, <1>15 DEF WorkerStep

LEMMA ApproverTypes == ASSUME TypeOK, Approver PROVE TypeOK'
  <1> USE DEF Status
  <1>1. ASSUME NEW i \in Incident, Peek(i) PROVE TypeOK'
    BY <1>1 DEF TypeOK, Peek
  <1>2. CASE ClaimNothing BY <1>2 DEF TypeOK, ClaimNothing, Answered
  <1>3. CASE Deny BY <1>3 DEF TypeOK, Deny, Answered
  <1>4. CASE Approve BY <1>4 DEF TypeOK, Approve
  <1>5. CASE ResumeRefused BY <1>5 DEF TypeOK, ResumeRefused, Answered
  <1>6. CASE ResumeArms BY <1>6 DEF TypeOK, ResumeArms, Answered
  <1>7. CASE FixRead BY <1>7 DEF TypeOK, FixRead, Answered
  <1>8. CASE FixWrite BY <1>8 DEF TypeOK, FixWrite, Answered
  <1>9. CASE ApproverReadsHold \/ ApproverReadsRevert
    BY <1>9 DEF TypeOK, ApproverReadsHold, ApproverReadsRevert, RevertHold
  <1>10. CASE ApproverSettles
    <2>1. service' \in ServiceDoc
      BY <1>10, ServiceMutators DEF TypeOK, ApproverSettles, StoreAssumption
    <2> QED BY <1>10, <2>1 DEF TypeOK, ApproverSettles, Leading
  <1>11. CASE ApproverFails BY <1>11 DEF TypeOK, ApproverFails
  <1> QED
    BY <1>1, <1>2, <1>3, <1>4, <1>5, <1>6, <1>7, <1>8, <1>9, <1>10, <1>11
    DEF Approver

LEMMA CompleterTypes == ASSUME TypeOK, Completer PROVE TypeOK'
  <1>1. CASE CompleteBegin BY <1>1 DEF TypeOK, CompleteBegin
  <1>2. ASSUME NEW next \in {"idle", "ending"}, cpc # "idle", CompleterSettles(next)
        PROVE  TypeOK'
    <2>1. cinc \in Incident
      BY <1>2 DEF TypeOK
    <2>2. service' \in ServiceDoc
      BY <1>2, <2>1, ServiceMutators DEF TypeOK, CompleterSettles
    <2> QED BY <1>2, <2>2 DEF TypeOK, CompleterSettles, Leading
  <1>3. CASE Close BY <1>2, <1>3 DEF Close
  <1>4. CASE EndComplete BY <1>4 DEF TypeOK, EndComplete
  <1>5. CASE NoCandidate BY <1>2, <1>5 DEF NoCandidate
  <1>6. CASE ClearPending BY <1>6 DEF TypeOK, ClearPending
  <1>7. CASE CompleteGivesUp BY <1>2, <1>7 DEF CompleteGivesUp
  <1>8. CASE Compensate BY <1>8 DEF TypeOK, Compensate
  <1> QED
    BY <1>1, <1>3, <1>4, <1>5, <1>6, <1>7, <1>8 DEF Completer

LEMMA TickTypes == ASSUME TypeOK, Tick PROVE TypeOK'
  <1>1. heal' \in [Incident -> HealDoc]
    BY HealMutators DEF TypeOK, Tick
  <1>2. service' \in ServiceDoc
    BY ServiceAges DEF TypeOK, Tick
  <1>3. tasks' \in [Incident -> Task]
    BY TaskFacts DEF TypeOK, Tick
  <1> QED BY <1>1, <1>2, <1>3 DEF TypeOK, Tick, Elapse

LEMMA NextTypes == ASSUME TypeOK, [Next]_vars PROVE TypeOK'
  <1>1. CASE UNCHANGED vars BY <1>1 DEF TypeOK
  <1>2. CASE Next
    BY <1>2, IntakeTypes, WorkerTypes, ApproverTypes, CompleterTypes, TickTypes DEF Next
  <1> QED BY <1>1, <1>2

\* Every variable keeps its type whatever the workers, the operator, the CI and
\* the queue do.
THEOREM TypeCorrect == Spec => []TypeOK
  BY InitTypes, NextTypes, PTL DEF Spec

-----------------------------------------------------------------------------
(* The circuit breaker.                                                    *)

\* Only a granted claim starts a run, and it counts the attempt it starts.
LEMMA BreakerStep == ASSUME TypeOK, BreakerBoundsRuns, [Next]_vars PROVE BreakerBoundsRuns'
  <1> USE DEF BreakerBoundsRuns
  <1>1. ASSUME NEW w \in Worker, ClaimGranted(w) PROVE BreakerBoundsRuns'
    <2>1. inc[w] \in Incident /\ heal[inc[w]] \in HealDoc
      BY <1>1 DEF TypeOK, ClaimGranted
    <2>2. /\ heal[inc[w]].attempts < MaxHealAttempts
          /\ Claimed(heal[inc[w]]).attempts = heal[inc[w]].attempts + 1
      BY <2>1, <1>1, ClaimGrants DEF ClaimGranted
    <2> QED
      BY <1>1, <2>1, <2>2 DEF TypeOK, ClaimGranted, StoreAssumption, HealDoc
  <1>3. ASSUME NEW w \in Worker, WorkerStep(w) \/ Die(w), ~ClaimGranted(w)
        PROVE  BreakerBoundsRuns'
    <2>0. pc[w] # "idle" => inc[w] \in Incident /\ heal[inc[w]] \in HealDoc
      BY DEF TypeOK
    <2>1. CASE heal' = heal /\ runs' = runs
      BY <2>1
    <2>2. CASE ClaimExhausted(w)
      BY <2>0, <2>2, HealMutators DEF TypeOK, ClaimExhausted
    <2>3. CASE Attach(w) \/ Finish(w)
      BY <2>0, <2>3, HealMutators DEF TypeOK, Attach, Finish
    <2>4. CASE Release(w)
      BY <2>0, <2>4, HealMutators DEF TypeOK, Release
    <2> QED
      BY <1>3, <2>1, <2>2, <2>3, <2>4
      DEF WorkerStep, ClaimDuplicate, GiveUp, Correlate, Gate, Arm, BodyReturns,
          BodyRaises, ReadHold, ReadRevert, Settle, Die
  <1>4. CASE Approver
    BY <1>4 DEF Approver, Peek, ClaimNothing, Deny, Approve, ResumeRefused, ResumeArms,
       FixRead, FixWrite, ApproverReadsHold, ApproverReadsRevert, ApproverSettles, ApproverFails
  <1>5. CASE Completer
    BY <1>5 DEF Completer, CompleteBegin, CompleterSettles, Close, EndComplete,
       NoCandidate, ClearPending, CompleteGivesUp, Compensate
  <1>6. CASE Tick
    BY <1>6, HealMutators DEF TypeOK, Tick
  <1>7. ASSUME NEW i \in Incident,
               \/ Alert(i) \/ Enqueue(i) \/ DedupLapse(i) \/ ApprovalLapse(i)
               \/ \E w \in Worker : Deliver(i, w) \/ EnqueueInproc(i, w)
        PROVE  BreakerBoundsRuns'
    BY <1>7 DEF Alert, Enqueue, DedupLapse, ApprovalLapse, Deliver, EnqueueInproc
  <1>8. CASE UNCHANGED vars
    BY <1>8
  <1> QED
    BY <1>1, <1>3, <1>4, <1>5, <1>6, <1>7, <1>8 DEF Next

\* However a heal is redelivered, crashed or overrun, it starts at most
\* MaxHealAttempts times, and the durable attempt counter says how often.
THEOREM BreakerHolds == Spec => []BreakerBoundsRuns
  <1>1. Init => BreakerBoundsRuns
    BY DEF Init, BreakerBoundsRuns, NoHealDoc, StoreAssumption
  <1> QED
    BY <1>1, BreakerStep, TypeCorrect, PTL DEF Spec

-----------------------------------------------------------------------------
(* One run per incident.                                                   *)

\* The lease a run was granted outlasts it, so the run is the only one of its
\* incident and the incident is not done; an exhausted heal is.
RunInv ==
  /\ \A w \in Worker :
       BoundedRuns /\ Running(w) =>
         /\ fuse[w] >= 1
         /\ heal[inc[w]].lease >= fuse[w]
         /\ ~heal[inc[w]].done
  /\ \A w \in Worker : pc[w] = "giveup" => heal[inc[w]].done
  /\ SingleRun

\* A step that only moves workers along inside their runs.
LEMMA RunFrame ==
  ASSUME RunInv, heal' = heal, fuse' = fuse, inc' = inc,
         \A w \in Worker : /\ pc'[w] \in InRun => pc[w] \in InRun
                           /\ pc'[w] = "giveup" => pc[w] = "giveup"
  PROVE  RunInv'
  BY DEF RunInv, SingleRun, Running

\* A worker picks up a delivery.
LEMMA RunStarts ==
  ASSUME TypeOK, RunInv, NEW w \in Worker, heal' = heal, fuse' = fuse,
         NEW i \in Incident, inc' = [inc EXCEPT ![w] = i],
         pc' = [pc EXCEPT ![w] = "start"]
  PROVE  RunInv'
  BY DEF TypeOK, RunInv, SingleRun, Running, InRun, InBody

\* A worker ends its run and closes or releases the lease of its own incident.
LEMMA RunReturns ==
  ASSUME TypeOK, RunInv, NEW w \in Worker, NEW code \in {"2xx", "5xx"},
         Return(w, code), inc[w] \in Incident,
         \A i \in Incident : i # inc[w] => heal'[i] = heal[i],
         heal[inc[w]].done => heal'[inc[w]].done,
         heal' = heal \/ Running(w)
  PROVE  RunInv'
  <1> USE DEF TypeOK, Return
  <1>1. /\ pc'[w] = "idle"
        /\ \A v \in Worker : v # w => pc'[v] = pc[v] /\ inc'[v] = inc[v] /\ fuse'[v] = fuse[v]
    OBVIOUS
  <1>2. \A v \in Worker : v # w /\ BoundedRuns /\ Running(v) => heal'[inc[v]] = heal[inc[v]]
    BY DEF RunInv, SingleRun, Running, InRun, InBody
  <1>3. \A v \in Worker : v # w /\ pc[v] = "giveup" => heal'[inc[v]].done
    BY DEF RunInv
  <1> QED
    BY <1>1, <1>2, <1>3 DEF RunInv, SingleRun, Running, InRun, InBody

LEMMA RunStep == ASSUME TypeOK, RunInv, [Next]_vars PROVE RunInv'
  <1>1. ASSUME NEW w \in Worker, WorkerStep(w) \/ Die(w) PROVE RunInv'
    <2>0. pc[w] # "idle" => inc[w] \in Incident /\ heal[inc[w]] \in HealDoc
      BY DEF TypeOK
    <2>1. CASE ClaimDuplicate(w) \/ GiveUp(w) \/ Die(w)
      BY <2>0, <2>1, RunReturns DEF ClaimDuplicate, GiveUp, Die
    <2>2. CASE Attach(w) \/ Finish(w)
      BY <2>0, <2>2, RunReturns, HealMutators
      DEF Attach, Finish, TypeOK, Running, InRun, InBody
    <2>3. CASE Release(w)
      BY <2>0, <2>3, RunReturns, HealMutators
      DEF Release, TypeOK, Running, InRun, InBody
    <2>4. CASE ClaimExhausted(w)
      <3>1. heal[inc[w]].lease = 0
        BY <2>0, <2>4 DEF ClaimExhausted, ClaimVerdict, HealDoc
      <3>2. \A v \in Worker : BoundedRuns /\ Running(v) => inc[v] # inc[w]
        BY <3>1 DEF RunInv, TypeOK
      <3>3. /\ heal'[inc[w]].done
            /\ \A i \in Incident : i # inc[w] => heal'[i] = heal[i]
        BY <2>0, <2>4, HealMutators DEF ClaimExhausted, TypeOK
      <3>4. \A v \in Worker : Running(v)' => Running(v)
        BY <2>4 DEF ClaimExhausted, Goto, Running, InRun, InBody, TypeOK
      <3>5. \A v \in Worker : pc'[v] = "giveup" => heal'[inc[v]].done
        BY <2>4, <2>0, <3>3 DEF ClaimExhausted, Goto, RunInv, TypeOK
      <3> QED
        BY <2>4, <2>0, <3>2, <3>3, <3>4, <3>5
        DEF ClaimExhausted, RunInv, SingleRun, TypeOK, Running, InRun, InBody
    <2>5. CASE ClaimGranted(w)
      <3>1. /\ heal[inc[w]].lease = 0 /\ ~heal[inc[w]].done
            /\ Claimed(heal[inc[w]]).lease = HealLease /\ ~Claimed(heal[inc[w]]).done
        BY <2>0, <2>5, ClaimGrants DEF ClaimGranted
      <3>2. \A v \in Worker : BoundedRuns /\ Running(v) => inc[v] # inc[w]
        BY <3>1 DEF RunInv, TypeOK
      <3>3. \A v \in Worker : pc[v] = "giveup" => inc[v] # inc[w]
        BY <3>1 DEF RunInv
      <3>4. /\ heal'[inc[w]] = Claimed(heal[inc[w]])
            /\ \A i \in Incident : i # inc[w] => heal'[i] = heal[i]
            /\ fuse'[w] = HealLease
            /\ \A v \in Worker : v # w => fuse'[v] = fuse[v] /\ pc'[v] = pc[v]
            /\ inc' = inc
            /\ pc'[w] \in {"claimed", "body"}
        BY <2>0, <2>5 DEF ClaimGranted, Goto, TypeOK
      <3> QED
        BY <2>5, <2>0, <3>1, <3>2, <3>3, <3>4
        DEF RunInv, SingleRun, TypeOK, Running, InRun, InBody, StoreAssumption
    <2>6. CASE \/ Correlate(w) \/ (\E kind \in Gates : Gate(w, kind)) \/ Arm(w)
               \/ BodyReturns(w) \/ BodyRaises(w) \/ ReadHold(w) \/ ReadRevert(w) \/ Settle(w)
      <3>1. heal' = heal /\ fuse' = fuse /\ inc' = inc /\ pc[w] \in InRun
        BY <2>6 DEF Correlate, Gate, Arm, BodyReturns, Outcomes, BodyRaises, ReadHold,
           ReadRevert, Settle, InRun, InBody
      <3>2. \E label \in InRun : pc' = [pc EXCEPT ![w] = label]
        BY <2>6 DEF Correlate, Gate, Arm, BodyReturns, BodyRaises, ReadHold, ReadRevert, Settle, Goto,
           InRun, InBody
      <3>3. \A v \in Worker : v # w => pc'[v] = pc[v]
        BY <3>2 DEF TypeOK
      <3>4. pc'[w] \in InRun
        BY <3>2 DEF TypeOK
      <3> QED
        BY <3>1, <3>3, <3>4, RunFrame DEF InRun, InBody
    <2> QED
      BY <1>1, <2>1, <2>2, <2>3, <2>4, <2>5, <2>6 DEF WorkerStep
  <1>2. CASE Approver
    BY <1>2, RunFrame DEF Approver, Peek, ClaimNothing, Deny, Approve, ResumeRefused,
       ResumeArms, FixRead, FixWrite, ApproverReadsHold, ApproverReadsRevert, ApproverSettles, ApproverFails
  <1>3. CASE Completer
    BY <1>3, RunFrame DEF Completer, CompleteBegin, CompleterSettles, Close, EndComplete,
       NoCandidate, ClearPending, CompleteGivesUp, Compensate
  <1>4. CASE Tick
    <2>1. \A w \in Worker :
            /\ fuse'[w] = Elapse(fuse[w])
            /\ inc[w] \in Incident =>
                 /\ heal'[inc[w]].lease = Elapse(heal[inc[w]].lease)
                 /\ heal'[inc[w]].done = heal[inc[w]].done
      BY <1>4, HealMutators DEF Tick, TypeOK
    <2> QED
      BY <1>4, <2>1 DEF Tick, TypeOK, RunInv, SingleRun, Running, Elapse, HealDoc, InRun, InBody
  <1>5. ASSUME NEW i \in Incident, Alert(i) \/ Enqueue(i) \/ DedupLapse(i) \/ ApprovalLapse(i)
        PROVE  RunInv'
    BY <1>5, RunFrame DEF Alert, Enqueue, DedupLapse, ApprovalLapse
  <1>6. ASSUME NEW i \in Incident, NEW w \in Worker, Deliver(i, w) \/ EnqueueInproc(i, w)
        PROVE  RunInv'
    BY <1>6, RunStarts DEF Deliver, EnqueueInproc
  <1>7. CASE UNCHANGED vars
    BY <1>7, RunFrame
  <1> QED
    BY <1>1, <1>2, <1>3, <1>4, <1>5, <1>6, <1>7 DEF Next

\* Two workers never run the heal of one incident at once, as long as no run
\* outlives the lease it was granted.
THEOREM OneRunPerIncident == Spec => []SingleRun
  <1>1. Init => RunInv
    BY DEF Init, RunInv, SingleRun, Running, InRun, InBody
  <1>2. RunInv => SingleRun
    BY DEF RunInv
  <1> QED
    BY <1>1, <1>2, RunStep, TypeCorrect, PTL DEF Spec

-----------------------------------------------------------------------------
(* One incident per storm.                                                 *)

\* A worker past the correlation gate leads the service and its storm lease
\* outlasts its run, unless another actor settled that lease.
LeadInv ==
  BoundedRuns /\ StormCoalesce =>
    \A w \in Worker :
      pc[w] \in InBody /\ w \notin cut =>
        service.leader = inc[w] /\ service.lease >= fuse[w]

IInv == TypeOK /\ RunInv /\ LeadInv

\* A step that admits nobody past the gate and leaves the storm lease alone, or
\* settles the lease of an incident no uncut worker leads with.
LEMMA LeadFrame ==
  ASSUME LeadInv,
         \A w \in Worker :
           pc'[w] \in InBody /\ w \notin cut' =>
             /\ pc[w] \in InBody /\ w \notin cut
             /\ inc'[w] = inc[w] /\ fuse'[w] = fuse[w]
             /\ \/ service' = service
                \/ service.leader # inc[w]
  PROVE  LeadInv'
  BY DEF LeadInv, InBody

LEMMA LeadStep == ASSUME IInv, [Next]_vars PROVE LeadInv'
  <1> SUFFICES ASSUME BoundedRuns, StormCoalesce PROVE LeadInv'
    BY DEF LeadInv
  <1> USE DEF IInv
  <1>0. \A w \in Worker : pc[w] \in InBody => Running(w) /\ inc[w] \in Incident
    BY DEF Running, InRun, InBody, TypeOK
  <1>1. ASSUME NEW w \in Worker, WorkerStep(w) \/ Die(w) PROVE LeadInv'
    <2>0. pc[w] # "idle" => inc[w] \in Incident
      BY DEF TypeOK
    <2>1. CASE \/ ClaimDuplicate(w) \/ Attach(w) \/ Release(w) \/ Finish(w) \/ Die(w)
      BY <2>1, LeadFrame
      DEF ClaimDuplicate, Attach, Release, Finish, Die, Return, TypeOK, InBody
    <2>2. CASE ClaimExhausted(w)
      BY <2>2, LeadFrame DEF ClaimExhausted, Goto, TypeOK, InBody
    <2>3. CASE ClaimGranted(w)
      BY <2>3, LeadFrame DEF ClaimGranted, Goto, TypeOK, InBody
    <2>4. CASE GiveUp(w)
      <3>1. \A v \in Worker : pc[v] \in InBody => inc[v] # inc[w]
        BY <1>0, <2>4 DEF GiveUp, RunInv
      <3>2. service.leader # inc[w] => service' = service
        BY <2>0, <2>4, ServiceMutators DEF GiveUp, TypeOK
      <3> QED
        BY <2>4, <3>1, <3>2, LeadFrame DEF GiveUp, Return, TypeOK, LeadInv, InBody
    <2>5. CASE Correlate(w)
      <3>1. CASE ServiceRole(service, inc[w]) = "follower"
        <4>1. service'.leader = service.leader /\ service'.lease = service.lease
          BY <2>0, <2>5, <3>1, Correlation DEF Correlate, TypeOK
        <4>2. /\ pc'[w] = "attach" /\ \A v \in Worker : v # w => pc'[v] = pc[v]
              /\ cut' = cut /\ inc' = inc /\ fuse' = fuse
          BY <2>5, <3>1 DEF Correlate, Goto, TypeOK
        <4> QED
          BY <4>1, <4>2 DEF LeadInv, InBody
      <3>2. CASE ServiceRole(service, inc[w]) = "leader"
        <4>1. /\ service.lease > 0 => service.leader = inc[w]
              /\ service'.leader = inc[w] /\ service'.lease = ServiceLease
          BY <2>0, <2>5, <3>2, Correlation DEF Correlate, TypeOK
        <4>2. \A v \in Worker : v # w => pc'[v] = pc[v]
          BY <2>5 DEF Correlate, Goto, TypeOK
        <4>3. \A v \in Worker : v # w /\ pc[v] \in InBody => inc[v] # inc[w]
          BY <1>0, <2>5 DEF Correlate, RunInv, SingleRun, Running, InRun
        <4>4. \A v \in Worker : v # w /\ pc[v] \in InBody => v \in cut
          BY <1>0, <4>1, <4>3 DEF RunInv, LeadInv, TypeOK, ServiceDoc
        <4>5. ServiceLease >= fuse[w] /\ cut' = cut /\ inc' = inc /\ fuse' = fuse
          BY <2>5 DEF Correlate, TypeOK, StoreAssumption
        <4> QED
          BY <4>1, <4>2, <4>4, <4>5 DEF LeadInv
      <3> QED
        BY <2>0, <2>5, <3>1, <3>2, Correlation DEF Correlate, TypeOK
    <2>6. CASE \/ (\E kind \in Gates : Gate(w, kind)) \/ Arm(w)
      BY <2>6, LeadFrame DEF Gate, Arm, Goto, TypeOK, InBody
    <2>7. CASE BodyReturns(w) \/ BodyRaises(w) \/ ReadHold(w) \/ ReadRevert(w)
      BY <2>7, LeadFrame DEF BodyReturns, BodyRaises, ReadHold, ReadRevert, Goto, TypeOK, InBody
    <2>8. CASE Settle(w)
      <3>1. \A v \in Worker : v # w /\ pc[v] \in InBody => inc[v] # inc[w]
        BY <1>0, <2>8 DEF Settle, RunInv, SingleRun, Running, InRun
      <3>2. hold[w] \in Nat
        BY DEF TypeOK, StoreAssumption
      <3>3. service.leader # inc[w] => service' = service
        BY <2>0, <2>8, <3>2, ServiceMutators DEF Settle, TypeOK
      <3> QED
        BY <2>8, <3>1, <3>3, LeadFrame DEF Settle, Goto, TypeOK, LeadInv, InBody
    <2> QED
      BY <1>1, <2>1, <2>2, <2>3, <2>4, <2>5, <2>6, <2>7, <2>8 DEF WorkerStep
  <1>2. CASE Approver
    <2>1. CASE ApproverSettles
      <3>1. \A v \in Worker : pc[v] \in InBody /\ v \notin cut' => inc[v] # ainc
        BY <2>1 DEF ApproverSettles, Leading
      <3>0. ainc \in Incident /\ ahold \in Nat
        BY <2>1 DEF ApproverSettles, TypeOK, StoreAssumption
      <3>2. service.leader # ainc => service' = service
        BY <2>1, <3>0, ServiceMutators DEF ApproverSettles, TypeOK
      <3> QED
        BY <2>1, <3>1, <3>2, LeadFrame DEF ApproverSettles, LeadInv
    <2>2. CASE ~ApproverSettles
      BY <1>2, <2>2, LeadFrame DEF Approver, Peek, ClaimNothing, Deny, Approve,
         ResumeRefused, ResumeArms, FixRead, FixWrite, ApproverReadsHold, ApproverReadsRevert, ApproverFails
    <2> QED BY <2>1, <2>2
  <1>3. CASE Completer
    <2>1. ASSUME NEW next \in {"idle", "ending"}, cpc # "idle", CompleterSettles(next)
          PROVE  LeadInv'
      <3>1. \A v \in Worker : pc[v] \in InBody /\ v \notin cut' => inc[v] # cinc
        BY <2>1 DEF CompleterSettles, Leading
      <3>2. service.leader # cinc => service' = service
        BY <2>1, ServiceMutators DEF CompleterSettles, TypeOK
      <3> QED
        BY <2>1, <3>1, <3>2, LeadFrame DEF CompleterSettles, LeadInv
    <2> QED
      BY <1>3, <2>1, LeadFrame DEF Completer, CompleteBegin, Close, EndComplete,
         NoCandidate, ClearPending, CompleteGivesUp, Compensate
  <1>4. CASE Tick
    <2>1. /\ service'.leader = service.leader
          /\ service'.lease = Elapse(service.lease)
          /\ \A w \in Worker : fuse'[w] = Elapse(fuse[w])
          /\ pc' = pc /\ inc' = inc /\ cut' = cut
      BY <1>4, ServiceAges DEF Tick, TypeOK
    <2> QED
      BY <2>1 DEF LeadInv, TypeOK, ServiceDoc, Elapse
  <1>5. ASSUME NEW i \in Incident, Alert(i) \/ Enqueue(i) \/ DedupLapse(i) \/ ApprovalLapse(i)
        PROVE  LeadInv'
    BY <1>5, LeadFrame DEF Alert, Enqueue, DedupLapse, ApprovalLapse
  <1>6. ASSUME NEW i \in Incident, NEW w \in Worker, Deliver(i, w) \/ EnqueueInproc(i, w)
        PROVE  LeadInv'
    BY <1>6, LeadFrame DEF Deliver, EnqueueInproc, TypeOK, InBody
  <1>7. CASE UNCHANGED vars
    BY <1>7, LeadFrame
  <1> QED
    BY <1>1, <1>2, <1>3, <1>4, <1>5, <1>6, <1>7 DEF Next

LEMMA InvariantHolds == Spec => []IInv
  <1>1. Init => IInv
    BY InitTypes DEF Init, IInv, RunInv, LeadInv, SingleRun, Running, InRun, InBody
  <1>2. IInv /\ [Next]_vars => IInv'
    BY NextTypes, RunStep, LeadStep DEF IInv
  <1> QED
    BY <1>1, <1>2, PTL DEF Spec

\* Workers of two incidents of one service are never both past the correlation
\* gate, unless another actor settled the storm lease of one of them.
THEOREM OneIncidentPerStorm == Spec => []SingleHealer
  <1>1. IInv => SingleHealer
    BY DEF IInv, LeadInv, SingleHealer
  <1> QED
    BY <1>1, InvariantHolds, PTL

\* Nobody becomes leader while the leader's run is under way, unless its lease
\* was settled under it.
THEOREM LeaderKeepsService == Spec => NoTakeoverMidRun
  <1> DEFINE Keeps ==
        \A w \in Worker :
          BoundedRuns /\ StormCoalesce /\ pc[w] \in InBody /\ w \notin cut
            => service'.leader = inc[w]
  <1>1. ASSUME IInv, [Next]_vars PROVE [Keeps]_vars
    <2> SUFFICES ASSUME Next, BoundedRuns, StormCoalesce,
                        NEW w \in Worker, pc[w] \in InBody, w \notin cut
                 PROVE  service'.leader = inc[w]
      BY <1>1
    <2> USE <1>1 DEF IInv
    <2>1. service.leader = inc[w] /\ service.lease >= 1 /\ service \in ServiceDoc
      BY DEF LeadInv, RunInv, Running, InRun, TypeOK, ServiceDoc
    <2>2. SUFFICES service'.leader = service.leader
      BY <2>1
    <2>3. ASSUME NEW v \in Worker, Correlate(v) PROVE service'.leader = service.leader
      <3>1. inc[v] \in Incident
        BY <2>3 DEF Correlate, TypeOK
      <3>2. service' = ClaimService(service, inc[v])
        BY <2>3 DEF Correlate
      <3>3. CASE ServiceRole(service, inc[v]) = "leader"
        BY <2>1, <3>1, <3>2, <3>3, Correlation DEF ServiceDoc
      <3>4. CASE ServiceRole(service, inc[v]) = "follower"
        BY <2>1, <3>1, <3>2, <3>4, Correlation
      <3> QED
        BY <2>1, <3>1, <3>3, <3>4, Correlation
    <2>4. ASSUME NEW v \in Worker, WorkerStep(v) \/ Die(v), ~Correlate(v)
          PROVE  service'.leader = service.leader
      <3>1. CASE GiveUp(v)
        <4>1. inc[v] \in Incident
          BY <3>1 DEF GiveUp, TypeOK
        <4>2. service' = SettleService(service, inc[v], 0)
          BY <3>1 DEF GiveUp
        <4>3. 0 \in Nat
          OBVIOUS
        <4> QED BY <2>1, <4>1, <4>2, <4>3, ServiceMutators
      <3>2. CASE Settle(v)
        <4>1. inc[v] \in Incident /\ hold[v] \in Nat
          BY <3>2 DEF Settle, TypeOK, StoreAssumption
        <4> QED BY <2>1, <3>2, <4>1, ServiceMutators DEF Settle
      <3>3. CASE ClaimDuplicate(v) \/ ClaimExhausted(v) \/ ClaimGranted(v) \/ Attach(v)
        BY <3>3 DEF ClaimDuplicate, ClaimExhausted, ClaimGranted, Attach
      <3>4. CASE (\E kind \in Gates : Gate(v, kind)) \/ Arm(v) \/ BodyReturns(v) \/ BodyRaises(v)
        BY <3>4 DEF Gate, Arm, BodyReturns, BodyRaises
      <3>5. CASE Release(v) \/ ReadHold(v) \/ ReadRevert(v) \/ Finish(v) \/ Die(v)
        BY <3>5 DEF Release, ReadHold, ReadRevert, Finish, Die
      <3> QED
        BY <2>4, <3>1, <3>2, <3>3, <3>4, <3>5, Zenon DEF WorkerStep
    <2>5. CASE Approver
      <3>1. CASE ApproverSettles
        <4>1. ainc \in Incident /\ ahold \in Nat
          BY <3>1 DEF ApproverSettles, TypeOK, StoreAssumption
        <4> QED BY <2>1, <3>1, <4>1, ServiceMutators DEF ApproverSettles
      <3> QED
        BY <2>5, <3>1 DEF Approver, Peek, ClaimNothing, Deny, Approve, ResumeRefused,
           ResumeArms, FixRead, FixWrite, ApproverReadsHold, ApproverReadsRevert, ApproverFails
    <2>6. CASE Completer
      <3>1. ASSUME NEW next \in {"idle", "ending"}, cpc # "idle", CompleterSettles(next)
            PROVE  service'.leader = service.leader
        BY <2>1, <3>1, ServiceMutators DEF CompleterSettles, TypeOK
      <3> QED
        BY <2>6, <3>1 DEF Completer, CompleteBegin, Close, EndComplete, NoCandidate,
           ClearPending, CompleteGivesUp, Compensate
    <2>7. CASE Tick
      BY <2>1, <2>7, ServiceAges DEF Tick
    <2>8. ASSUME NEW i \in Incident,
                 \/ Alert(i) \/ Enqueue(i) \/ DedupLapse(i) \/ ApprovalLapse(i)
                 \/ \E v \in Worker : Deliver(i, v) \/ EnqueueInproc(i, v)
          PROVE  service'.leader = service.leader
      BY <2>8 DEF Alert, Enqueue, DedupLapse, ApprovalLapse, Deliver, EnqueueInproc
    <2> QED
      BY <2>3, <2>4, <2>5, <2>6, <2>7, <2>8 DEF Next
  <1> QED
    BY <1>1, InvariantHolds, PTL DEF Spec, NoTakeoverMidRun

-----------------------------------------------------------------------------
(* A finished heal.                                                        *)

\* A heal that is done stays done and never starts again: no redelivery, retry,
\* stale release_heal or overrun run reopens it.
THEOREM FinishedForGood == Spec => DoneIsTerminal
  <1> DEFINE Stays == \A i \in Incident : heal[i].done => heal'[i].done /\ runs'[i] = runs[i]
  <1>1. ASSUME TypeOK, [Next]_vars PROVE [Stays]_vars
    <2> SUFFICES ASSUME Next PROVE Stays
      BY <1>1
    <2> USE <1>1
    <2>1. ASSUME NEW w \in Worker, WorkerStep(w) \/ Die(w) PROVE Stays
      <3>0. pc[w] # "idle" => inc[w] \in Incident /\ heal[inc[w]] \in HealDoc
        BY DEF TypeOK
      <3>1. CASE ClaimGranted(w)
        <4>1. ~heal[inc[w]].done
          BY <3>0, <3>1, ClaimGrants DEF ClaimGranted
        <4> QED
          BY <3>0, <3>1, <4>1 DEF ClaimGranted, TypeOK
      <3>2. CASE ClaimExhausted(w)
        BY <3>0, <3>2, HealMutators DEF ClaimExhausted, TypeOK
      <3>3. CASE Attach(w) \/ Finish(w)
        BY <3>0, <3>3, HealMutators DEF Attach, Finish, TypeOK
      <3>4. CASE Release(w)
        BY <3>0, <3>4, HealMutators DEF Release, TypeOK
      <3> QED
        BY <2>1, <3>1, <3>2, <3>3, <3>4 DEF WorkerStep, ClaimDuplicate, GiveUp, Correlate,
           Gate, Arm, BodyReturns, BodyRaises, ReadHold, ReadRevert, Settle, Die
    <2>2. CASE Approver
      BY <2>2 DEF Approver, Peek, ClaimNothing, Deny, Approve, ResumeRefused, ResumeArms,
         FixRead, FixWrite, ApproverReadsHold, ApproverReadsRevert, ApproverSettles, ApproverFails
    <2>3. CASE Completer
      BY <2>3 DEF Completer, CompleteBegin, CompleterSettles, Close, EndComplete,
         NoCandidate, ClearPending, CompleteGivesUp, Compensate
    <2>4. CASE Tick
      BY <2>4, HealMutators DEF Tick, TypeOK
    <2>5. ASSUME NEW i \in Incident,
                 \/ Alert(i) \/ Enqueue(i) \/ DedupLapse(i) \/ ApprovalLapse(i)
                 \/ \E w \in Worker : Deliver(i, w) \/ EnqueueInproc(i, w)
          PROVE  Stays
      BY <2>5 DEF Alert, Enqueue, DedupLapse, ApprovalLapse, Deliver, EnqueueInproc
    <2> QED
      BY <2>1, <2>2, <2>3, <2>4, <2>5 DEF Next
  <1> QED
    BY <1>1, TypeCorrect, PTL DEF Spec, DoneIsTerminal

-----------------------------------------------------------------------------
(* No heal is lost silently.                                               *)

RunningOn(i) == {w \in Worker : Running(w) /\ inc[w] = i}

\* Every attempt that Cloud Tasks used up on i started a run that the breaker
\* counted and that is over, or died: the runs under way are not used up yet.
CountInv ==
  \A i \in Incident :
    /\ Cardinality(RunningOn(i)) <= heal[i].attempts
    /\ Queued(i) \/ OutOfTries(i) =>
         tasks[i].left + heal[i].attempts + crashes
           >= QueueAttempts + Cardinality(RunningOn(i))

\* An in-process thread has the heal of i.
InProcess(i) == \E w \in Worker : pc[w] # "idle" /\ inc[w] = i /\ ~durable[w]

\* An accepted heal is settled, in process, or a task, one that ran out included.
TracedInv ==
  \A i \in Incident :
    alert[i] = "accepted" =>
      \/ heal[i].done \/ i \in dropped \cup stranded
      \/ InProcess(i) \/ Queued(i) \/ OutOfTries(i)

LEMMA TaskThere ==
  ASSUME TypeOK, NEW i \in Incident
  PROVE  Queued(i) \/ OutOfTries(i) <=> tasks[i] # NoTask
  BY TaskFacts DEF TypeOK, Queued, OutOfTries

\* How one step of a worker moves the runs of i, the attempts the breaker counted,
\* the deaths and the task of i.
LEMMA WorkerMoves ==
  ASSUME TypeOK, RunInv, NEW w \in Worker, WorkerStep(w) \/ Die(w), NEW i \in Incident
  PROVE  \/ /\ RunningOn(i)' \subseteq RunningOn(i) /\ crashes' = crashes
            /\ heal'[i].attempts = heal[i].attempts
            /\ tasks'[i] \in {tasks[i], NoTask}
         \/ /\ RunningOn(i)' = RunningOn(i) \cup {w} /\ crashes' = crashes
            /\ heal'[i].attempts = heal[i].attempts + 1
            /\ tasks'[i] = tasks[i]
         \/ /\ RunningOn(i)' = RunningOn(i) \ {w} /\ w \in RunningOn(i) /\ crashes' = crashes
            /\ heal'[i].attempts = heal[i].attempts
            /\ tasks'[i] \in {tasks[i], Failed(tasks[i])}
         \/ /\ RunningOn(i)' \subseteq RunningOn(i) /\ crashes' = crashes + 1
            /\ heal'[i].attempts = heal[i].attempts
            /\ tasks'[i] \in {tasks[i], Failed(tasks[i])}
  <1>0. pc[w] # "idle" => inc[w] \in Incident /\ heal[inc[w]] \in HealDoc
    BY DEF TypeOK
  <1>1. ASSUME NEW code \in {"2xx", "5xx"}, Return(w, code), pc[w] # "idle"
        PROVE  /\ RunningOn(i)' = RunningOn(i) \ {w}
               /\ \/ tasks'[i] = tasks[i]
                  \/ tasks'[i] = IF code = "2xx" THEN NoTask ELSE Failed(tasks[i])
    <2>1. /\ pc'[w] = "idle"
          /\ \A v \in Worker : v # w => pc'[v] = pc[v] /\ inc'[v] = inc[v]
      BY <1>1 DEF Return, TypeOK
    <2>2. RunningOn(i)' = RunningOn(i) \ {w}
      BY <2>1 DEF RunningOn, Running, InRun, InBody
    <2> QED BY <1>1, <2>2 DEF Return, TypeOK
  <1>2. ASSUME NEW label \in WorkerPc, pc' = [pc EXCEPT ![w] = label], inc' = inc,
               label \in InRun <=> pc[w] \in InRun
        PROVE  RunningOn(i)' = RunningOn(i)
    BY <1>2 DEF RunningOn, Running, TypeOK
  <1>3. CASE ClaimDuplicate(w) \/ GiveUp(w)
    <2>1. Return(w, "2xx") /\ pc[w] # "idle" /\ crashes' = crashes /\ heal' = heal
      BY <1>3 DEF ClaimDuplicate, GiveUp
    <2> QED BY <1>1, <2>1
  <1>4. CASE Attach(w) \/ Finish(w)
    <2>1. /\ Return(w, "2xx") /\ pc[w] # "idle" /\ crashes' = crashes
          /\ heal' = [heal EXCEPT ![inc[w]] = FinishHeal(@)]
      BY <1>4 DEF Attach, Finish
    <2>2. heal'[i].attempts = heal[i].attempts BY <1>0, <2>1, HealMutators DEF TypeOK
    <2> QED BY <1>1, <2>1, <2>2
  <1>5. CASE Release(w)
    <2>1. /\ Return(w, "5xx") /\ pc[w] \in InRun /\ pc[w] # "idle" /\ crashes' = crashes
          /\ heal' = [heal EXCEPT ![inc[w]] = ReleaseHeal(@)]
      BY <1>5 DEF Release, InRun, InBody
    <2>2. heal'[i].attempts = heal[i].attempts BY <1>0, <2>1, HealMutators DEF TypeOK
    <2>3. CASE i = inc[w]
      <3>1. w \in RunningOn(i) BY <2>1, <2>3 DEF RunningOn, Running
      <3> QED BY <1>1, <2>1, <2>2, <3>1
    <2>4. CASE i # inc[w]
      <3>1. tasks'[i] = tasks[i] BY <2>1, <2>4 DEF Return, TypeOK
      <3> QED BY <1>1, <2>1, <2>2, <3>1
    <2> QED BY <2>3, <2>4
  <1>6. CASE Die(w)
    <2>1. Return(w, "5xx") /\ pc[w] # "idle" /\ crashes' = crashes + 1 /\ heal' = heal
      BY <1>6 DEF Die
    <2> QED BY <1>1, <2>1
  <1>7. CASE ClaimExhausted(w)
    <2>1. /\ heal' = [heal EXCEPT ![inc[w]] = Exhausted(@)] /\ pc' = [pc EXCEPT ![w] = "giveup"]
          /\ pc[w] = "start" /\ inc' = inc /\ tasks' = tasks /\ crashes' = crashes
      BY <1>7 DEF ClaimExhausted, Goto
    <2>2. heal'[i].attempts = heal[i].attempts BY <1>0, <2>1, HealMutators DEF TypeOK
    <2>3. RunningOn(i)' = RunningOn(i) BY <1>2, <2>1 DEF WorkerPc, InRun, InBody
    <2> QED BY <2>1, <2>2, <2>3
  <1>8. CASE ClaimGranted(w)
    <2>1. /\ heal' = [heal EXCEPT ![inc[w]] = Claimed(@)] /\ pc[w] = "start"
          /\ ClaimVerdict(heal[inc[w]]) = "claimed" /\ inc' = inc
          /\ tasks' = tasks /\ crashes' = crashes
      BY <1>8 DEF ClaimGranted
    <2>2. PICK label \in {"claimed", "body"} : pc' = [pc EXCEPT ![w] = label]
      BY <1>8 DEF ClaimGranted, Goto
    <2>3. CASE i = inc[w]
      <3>1. heal'[i].attempts = heal[i].attempts + 1
        BY <1>0, <2>1, <2>3, ClaimGrants DEF TypeOK
      <3>2. RunningOn(i)' = RunningOn(i) \cup {w}
        BY <2>1, <2>2, <2>3 DEF RunningOn, Running, TypeOK, InRun, InBody
      <3> QED BY <2>1, <3>1, <3>2
    <2>4. CASE i # inc[w]
      <3>1. heal'[i] = heal[i] BY <2>1, <2>4 DEF TypeOK
      <3>2. RunningOn(i)' = RunningOn(i)
        BY <2>1, <2>2, <2>4 DEF RunningOn, Running, TypeOK
      <3> QED BY <2>1, <3>1, <3>2
    <2> QED BY <2>3, <2>4
  <1>9. CASE \/ Correlate(w) \/ (\E kind \in Gates : Gate(w, kind)) \/ Arm(w)
             \/ BodyReturns(w) \/ BodyRaises(w) \/ ReadHold(w) \/ ReadRevert(w) \/ Settle(w)
    <2>1. heal' = heal /\ inc' = inc /\ pc[w] \in InRun /\ tasks' = tasks /\ crashes' = crashes
      BY <1>9 DEF Correlate, Gate, Arm, BodyReturns, Outcomes, BodyRaises, ReadHold,
         ReadRevert, Settle, InRun, InBody
    <2>2. PICK label \in InRun : pc' = [pc EXCEPT ![w] = label]
      BY <1>9 DEF Correlate, Gate, Arm, BodyReturns, BodyRaises, ReadHold, ReadRevert,
         Settle, Goto, InRun, InBody
    <2>3. RunningOn(i)' = RunningOn(i) BY <1>2, <2>1, <2>2 DEF WorkerPc
    <2> QED BY <2>1, <2>3
  <1> QED BY <1>3, <1>4, <1>5, <1>6, <1>7, <1>8, <1>9 DEF WorkerStep

\* The accounting of one incident, in numbers.
LEMMA CountMoves ==
  ASSUME TypeOK, TypeOK', CountInv, NEW i \in Incident,
         \/ /\ RunningOn(i)' \subseteq RunningOn(i) /\ crashes' = crashes
            /\ heal'[i].attempts = heal[i].attempts
            /\ \/ tasks'[i] = NoTask
               \/ tasks'[i].left = tasks[i].left /\ tasks[i] # NoTask
               \/ tasks'[i].left = QueueAttempts
               \/ tasks'[i] = tasks[i]
         \/ \E w \in Worker :
              /\ RunningOn(i)' = RunningOn(i) \cup {w} /\ crashes' = crashes
              /\ heal'[i].attempts = heal[i].attempts + 1
              /\ tasks'[i] = tasks[i]
         \/ \E w \in Worker :
              /\ RunningOn(i)' = RunningOn(i) \ {w} /\ w \in RunningOn(i) /\ crashes' = crashes
              /\ heal'[i].attempts = heal[i].attempts
              /\ tasks'[i] \in {tasks[i], Failed(tasks[i])}
         \/ /\ RunningOn(i)' \subseteq RunningOn(i) /\ crashes' = crashes + 1
            /\ heal'[i].attempts = heal[i].attempts
            /\ tasks'[i] \in {tasks[i], Failed(tasks[i])}
  PROVE  /\ Cardinality(RunningOn(i))' <= heal'[i].attempts
         /\ tasks'[i] # NoTask =>
              tasks'[i].left + heal'[i].attempts + crashes'
                >= QueueAttempts + Cardinality(RunningOn(i))'
  <1>0. /\ IsFiniteSet(RunningOn(i)) /\ IsFiniteSet(RunningOn(i)')
        /\ tasks[i] \in Task /\ tasks'[i] \in Task
    BY FS_Subset DEF RunningOn, TypeOK
  <1>1. PICK n \in Nat : n = Cardinality(RunningOn(i)) BY <1>0, FS_CardinalityType
  <1>2. PICK m \in Nat : m = Cardinality(RunningOn(i)') BY <1>0, FS_CardinalityType
  <1>3. PICK a \in Nat, c \in Nat, t \in Nat, u \in Nat, q \in Nat :
          /\ a = heal[i].attempts /\ c = crashes
          /\ t = tasks[i].left /\ u = tasks'[i].left /\ q = QueueAttempts
    <2>1. heal[i].attempts \in Nat /\ crashes \in Nat BY DEF TypeOK, HealDoc
    <2>2. tasks[i].left \in Nat /\ tasks'[i].left \in Nat /\ QueueAttempts \in Nat
      BY <1>0 DEF Task
    <2> QED BY <2>1, <2>2
  <1>4. n <= a /\ (tasks[i] # NoTask => t + a + c >= q + n)
    BY <1>1, <1>3, TaskThere DEF CountInv
  <1>5. /\ RunningOn(i)' \subseteq RunningOn(i) => m <= n
        /\ \A w \in Worker : RunningOn(i)' = RunningOn(i) \cup {w} => m <= n + 1
        /\ \A w \in RunningOn(i) : RunningOn(i)' = RunningOn(i) \ {w} => m = n - 1
    <2>1. RunningOn(i)' \subseteq RunningOn(i) => m <= n
      BY <1>0, <1>1, <1>2, FS_Subset
    <2>2. ASSUME NEW w \in Worker, RunningOn(i)' = RunningOn(i) \cup {w} PROVE m <= n + 1
      BY <1>0, <1>1, <1>2, <2>2, FS_AddElement
    <2>3. ASSUME NEW w \in RunningOn(i), RunningOn(i)' = RunningOn(i) \ {w} PROVE m = n - 1
      BY <1>0, <1>1, <1>2, <2>3, FS_RemoveElement
    <2> QED BY <2>1, <2>2, <2>3
  <1>6. /\ tasks'[i] = Failed(tasks[i]) /\ tasks'[i] # NoTask => tasks[i] # NoTask
        /\ tasks'[i] = Failed(tasks[i]) => u >= t - 1
        /\ tasks'[i] = tasks[i] => u = t
    BY <1>0, <1>3, TaskFacts
  <1> SUFFICES /\ m <= heal'[i].attempts
               /\ tasks'[i] # NoTask => u + heal'[i].attempts + crashes' >= q + m
    BY <1>2, <1>3
  <1>7. CASE /\ RunningOn(i)' \subseteq RunningOn(i) /\ crashes' = crashes
             /\ heal'[i].attempts = heal[i].attempts
             /\ \/ tasks'[i] = NoTask
                \/ tasks'[i].left = tasks[i].left /\ tasks[i] # NoTask
                \/ tasks'[i].left = QueueAttempts
                \/ tasks'[i] = tasks[i]
    BY <1>3, <1>4, <1>5, <1>6, <1>7
  <1>8. ASSUME NEW w \in Worker, RunningOn(i)' = RunningOn(i) \cup {w}, crashes' = crashes,
               heal'[i].attempts = heal[i].attempts + 1, tasks'[i] = tasks[i]
        PROVE  /\ m <= heal'[i].attempts
               /\ tasks'[i] # NoTask => u + heal'[i].attempts + crashes' >= q + m
    BY <1>3, <1>4, <1>5, <1>6, <1>8
  <1>9. ASSUME NEW w \in Worker, RunningOn(i)' = RunningOn(i) \ {w}, w \in RunningOn(i),
               crashes' = crashes, heal'[i].attempts = heal[i].attempts,
               tasks'[i] \in {tasks[i], Failed(tasks[i])}
        PROVE  /\ m <= heal'[i].attempts
               /\ tasks'[i] # NoTask => u + heal'[i].attempts + crashes' >= q + m
    BY <1>3, <1>4, <1>5, <1>6, <1>9
  <1>10. CASE /\ RunningOn(i)' \subseteq RunningOn(i) /\ crashes' = crashes + 1
              /\ heal'[i].attempts = heal[i].attempts
              /\ tasks'[i] \in {tasks[i], Failed(tasks[i])}
    BY <1>3, <1>4, <1>5, <1>6, <1>10
  <1> QED BY <1>7, <1>8, <1>9, <1>10

LEMMA CountStep ==
  ASSUME TypeOK, RunInv, CountInv, [Next]_vars
  PROVE  CountInv'
  <1>0. TypeOK' BY NextTypes
  <1> SUFFICES ASSUME NEW i \in Incident
               PROVE  /\ Cardinality(RunningOn(i))' <= heal'[i].attempts
                      /\ tasks'[i] # NoTask =>
                           tasks'[i].left + heal'[i].attempts + crashes'
                             >= QueueAttempts + Cardinality(RunningOn(i))'
    <2>1. \A i \in Incident : (Queued(i) \/ OutOfTries(i))' => tasks'[i] # NoTask
      BY <1>0, TaskFacts DEF TypeOK, Queued, OutOfTries
    <2> QED BY <2>1 DEF CountInv
  <1> DEFINE Idle == /\ RunningOn(i)' \subseteq RunningOn(i) /\ crashes' = crashes
                     /\ heal'[i].attempts = heal[i].attempts
                     /\ \/ tasks'[i] = NoTask
                        \/ tasks'[i].left = tasks[i].left /\ tasks[i] # NoTask
                        \/ tasks'[i].left = QueueAttempts
                        \/ tasks'[i] = tasks[i]
  <1>1. ASSUME NEW w \in Worker, WorkerStep(w) \/ Die(w)
        PROVE  /\ Cardinality(RunningOn(i))' <= heal'[i].attempts
               /\ tasks'[i] # NoTask =>
                    tasks'[i].left + heal'[i].attempts + crashes'
                      >= QueueAttempts + Cardinality(RunningOn(i))'
    BY <1>0, <1>1, WorkerMoves, CountMoves
  <1>2. CASE Approver \/ Completer \/ UNCHANGED vars
    <2>1. UNCHANGED <<pc, inc, heal, crashes, tasks>>
      BY <1>2 DEF Approver, Peek, ClaimNothing, Deny, Approve, ResumeRefused, ResumeArms,
         FixRead, FixWrite, ApproverReadsHold, ApproverReadsRevert, ApproverSettles,
         ApproverFails, Completer, CompleteBegin, CompleterSettles, Close, EndComplete,
         NoCandidate, ClearPending, CompleteGivesUp, Compensate
    <2>2. Idle BY <2>1 DEF RunningOn, Running
    <2> QED BY <1>0, <2>2, CountMoves
  <1>3. CASE Tick
    <2>1. pc' = pc /\ inc' = inc /\ crashes' = crashes BY <1>3 DEF Tick
    <2>2. heal'[i].attempts = heal[i].attempts BY <1>3, HealMutators DEF Tick, TypeOK
    <2>3. tasks'[i] = WindowRuns(tasks[i]) /\ tasks[i] \in Task BY <1>3 DEF Tick, TypeOK
    <2>4. tasks'[i].left = tasks[i].left /\ (tasks'[i] = NoTask \/ tasks[i] # NoTask)
      BY <2>3, TaskFacts
    <2>5. Idle BY <2>1, <2>2, <2>4 DEF RunningOn, Running
    <2> QED BY <1>0, <2>5, CountMoves
  <1>4. ASSUME NEW j \in Incident, Alert(j) \/ DedupLapse(j) \/ ApprovalLapse(j)
        PROVE  Idle
    BY <1>4 DEF Alert, DedupLapse, ApprovalLapse, RunningOn, Running
  <1>5. ASSUME NEW j \in Incident, Enqueue(j) PROVE Idle
    <2>1. UNCHANGED <<pc, inc, heal, crashes>> /\ tasks' = [tasks EXCEPT ![j] = NewTask]
      BY <1>5 DEF Enqueue
    <2>2. NewTask.left = QueueAttempts BY DEF NewTask
    <2>3. tasks'[i] = tasks[i] \/ tasks'[i] = NewTask BY <2>1 DEF TypeOK
    <2> QED BY <2>1, <2>2, <2>3 DEF RunningOn, Running
  <1>6. ASSUME NEW j \in Incident, NEW w \in Worker, Deliver(j, w) \/ EnqueueInproc(j, w)
        PROVE  Idle
    <2>1. /\ pc[w] = "idle" /\ pc'[w] = "start" /\ heal' = heal /\ crashes' = crashes
          /\ \A v \in Worker : v # w => pc'[v] = pc[v] /\ inc'[v] = inc[v]
      BY <1>6 DEF Deliver, EnqueueInproc, TypeOK
    <2>2. RunningOn(i)' = RunningOn(i)
      BY <2>1 DEF RunningOn, Running, InRun, InBody
    <2>3. CASE EnqueueInproc(j, w) BY <2>1, <2>2, <2>3 DEF EnqueueInproc
    <2>4. CASE Deliver(j, w)
      <3>1. tasks[j] # NoTask /\ tasks' = [tasks EXCEPT ![j] = Attempted(@)]
        BY <2>4, TaskThere DEF Deliver, Deliverable
      <3>2. tasks'[i] = tasks[i] \/ (i = j /\ tasks'[i] = Attempted(tasks[i]))
        BY <3>1 DEF TypeOK
      <3>3. tasks[i] \in Task BY DEF TypeOK
      <3> QED BY <2>1, <2>2, <3>1, <3>2, <3>3, TaskFacts
    <2> QED BY <1>6, <2>3, <2>4
  <1> QED
    BY <1>0, <1>1, <1>2, <1>3, <1>4, <1>5, <1>6, CountMoves DEF Next

\* Every delivery that Cloud Tasks used up on a heal, up to both its limits, is
\* accounted for by a run the breaker counted or by a death, whatever is redelivered,
\* overrun or run in process: no attempt is lost without a trace.
THEOREM AttemptsAccounted == Spec => []CountInv
  <1>1. Init => RunInv /\ CountInv
    <2> SUFFICES ASSUME Init PROVE RunInv /\ CountInv OBVIOUS
    <2>1. RunInv
      BY DEF Init, RunInv, SingleRun, Running, InRun, InBody
    <2>2. ASSUME NEW i \in Incident
          PROVE  /\ RunningOn(i) = {} /\ heal[i].attempts = 0
                 /\ ~Queued(i) /\ ~OutOfTries(i)
      BY DEF Init, RunningOn, Running, InRun, InBody, NoHealDoc, NoTask, Queued, OutOfTries
    <2>3. CountInv BY <2>2, FS_EmptySet DEF CountInv
    <2> QED BY <2>1, <2>3
  <1>2. TypeOK /\ RunInv /\ CountInv /\ [Next]_vars => RunInv' /\ CountInv'
    BY RunStep, CountStep
  <1> QED BY <1>1, <1>2, TypeCorrect, PTL DEF Spec

\* A step that loses no trace of i.
LEMMA TracedFrame ==
  ASSUME NEW i \in Incident,
         heal[i].done \/ i \in dropped \cup stranded \/ InProcess(i) \/ tasks[i] # NoTask,
         heal[i].done => heal'[i].done, dropped \subseteq dropped', stranded \subseteq stranded',
         tasks[i] # NoTask => tasks'[i] # NoTask,
         InProcess(i) => InProcess(i)' \/ i \in stranded'
  PROVE  heal'[i].done \/ i \in dropped' \cup stranded' \/ InProcess(i)' \/ tasks'[i] # NoTask
  OBVIOUS

LEMMA WorkerTraced ==
  ASSUME TypeOK, RunInv, NEW w \in Worker, WorkerStep(w) \/ Die(w), NEW i \in Incident,
         heal[i].done \/ i \in dropped \cup stranded \/ InProcess(i) \/ tasks[i] # NoTask
  PROVE  heal'[i].done \/ i \in dropped' \cup stranded' \/ InProcess(i)' \/ tasks'[i] # NoTask
  <1>0. pc[w] # "idle" => inc[w] \in Incident /\ heal[inc[w]] \in HealDoc
    BY DEF TypeOK
  <1>1. ASSUME Return(w, "2xx"), pc[w] # "idle", dropped \subseteq dropped',
               heal'[inc[w]].done \/ inc[w] \in dropped',
               \A j \in Incident : j # inc[w] => heal'[j] = heal[j]
        PROVE  heal'[i].done \/ i \in dropped' \cup stranded' \/ InProcess(i)' \/ tasks'[i] # NoTask
    <2>1. CASE i = inc[w] BY <1>1, <2>1
    <2>2. CASE i # inc[w]
      <3>1. /\ \A v \in Worker : v # w => pc'[v] = pc[v] /\ inc'[v] = inc[v] /\ durable'[v] = durable[v]
            /\ tasks'[i] = tasks[i] /\ stranded \subseteq stranded'
        BY <1>1, <2>2 DEF Return, TypeOK
      <3>2. InProcess(i) => InProcess(i)' BY <2>2, <3>1 DEF InProcess
      <3> QED BY <1>1, <2>2, <3>1, <3>2, TracedFrame
    <2> QED BY <2>1, <2>2
  <1>2. ASSUME Return(w, "5xx"), pc[w] # "idle", dropped' = dropped,
               heal[i].done => heal'[i].done
        PROVE  heal'[i].done \/ i \in dropped' \cup stranded' \/ InProcess(i)' \/ tasks'[i] # NoTask
    <2>1. /\ \A v \in Worker : v # w => pc'[v] = pc[v] /\ inc'[v] = inc[v] /\ durable'[v] = durable[v]
          /\ tasks'[i] = tasks[i] \/ tasks'[i] = Failed(tasks[i])
          /\ stranded \subseteq stranded'
          /\ ~durable[w] => inc[w] \in stranded'
      BY <1>2 DEF Return, TypeOK
    <2>2. InProcess(i) => InProcess(i)' \/ i \in stranded' BY <2>1 DEF InProcess
    <2>3. tasks[i] # NoTask => tasks'[i] # NoTask
      <3>1. tasks[i] \in Task BY DEF TypeOK
      <3> QED BY <2>1, <3>1, TaskFacts
    <2> QED BY <1>2, <2>1, <2>2, <2>3, TracedFrame
  <1>3. CASE ClaimDuplicate(w)
    <2>1. heal[inc[w]].done \/ inc[w] \in dropped' BY <1>3 DEF ClaimDuplicate
    <2> QED BY <1>1, <1>3, <2>1 DEF ClaimDuplicate
  <1>4. CASE GiveUp(w)
    <2>1. heal[inc[w]].done BY <1>4 DEF GiveUp, RunInv
    <2> QED BY <1>1, <1>4, <2>1 DEF GiveUp
  <1>5. CASE Attach(w) \/ Finish(w)
    <2>1. /\ pc[w] # "idle" /\ Return(w, "2xx") /\ dropped' = dropped
          /\ heal' = [heal EXCEPT ![inc[w]] = FinishHeal(@)]
      BY <1>5 DEF Attach, Finish
    <2>2. heal'[inc[w]].done BY <1>0, <2>1, HealMutators DEF TypeOK
    <2> QED BY <1>1, <2>1, <2>2 DEF TypeOK
  <1>6. CASE Release(w)
    <2>1. heal[i].done => heal'[i].done
      BY <1>0, <1>6, HealMutators DEF Release, TypeOK
    <2> QED BY <1>2, <1>6, <2>1 DEF Release
  <1>7. CASE Die(w)
    BY <1>2, <1>7 DEF Die
  <1>8. CASE ClaimExhausted(w) \/ ClaimGranted(w)
    <2>1. /\ UNCHANGED <<tasks, dropped, stranded, inc, durable>> /\ pc[w] = "start"
          /\ \E label \in {"giveup", "claimed", "body"} : pc' = [pc EXCEPT ![w] = label]
      BY <1>8 DEF ClaimExhausted, ClaimGranted, Goto
    <2>2. heal[i].done => heal'[i].done
      <3>1. CASE ClaimExhausted(w)
        BY <1>0, <3>1, HealMutators DEF ClaimExhausted, TypeOK
      <3>2. CASE ClaimGranted(w)
        <4>1. ~heal[inc[w]].done BY <1>0, <3>2, ClaimGrants DEF ClaimGranted
        <4> QED BY <3>2, <4>1 DEF ClaimGranted, TypeOK
      <3> QED BY <1>8, <3>1, <3>2
    <2>3. InProcess(i) => InProcess(i)' BY <2>1 DEF InProcess, TypeOK
    <2> QED BY <2>1, <2>2, <2>3, TracedFrame
  <1>9. CASE \/ Correlate(w) \/ (\E kind \in Gates : Gate(w, kind)) \/ Arm(w)
             \/ BodyReturns(w) \/ BodyRaises(w) \/ ReadHold(w) \/ ReadRevert(w) \/ Settle(w)
    <2>1. heal' = heal /\ UNCHANGED <<tasks, dropped, stranded, inc, durable>>
      BY <1>9 DEF Correlate, Gate, Arm, BodyReturns, BodyRaises, ReadHold, ReadRevert, Settle
    <2>2. PICK label \in InRun : pc' = [pc EXCEPT ![w] = label]
      BY <1>9 DEF Correlate, Gate, Arm, BodyReturns, BodyRaises, ReadHold, ReadRevert,
         Settle, Goto, InRun, InBody
    <2>3. InProcess(i) => InProcess(i)' BY <2>1, <2>2 DEF InProcess, TypeOK, InRun, InBody
    <2> QED BY <2>1, <2>3, TracedFrame
  <1> QED BY <1>3, <1>4, <1>5, <1>6, <1>7, <1>8, <1>9 DEF WorkerStep

LEMMA TracedStep ==
  ASSUME TypeOK, RunInv, TracedInv, [Next]_vars
  PROVE  TracedInv'
  <1> DEFINE Traced(i) == heal[i].done \/ i \in dropped \cup stranded \/ InProcess(i) \/ tasks[i] # NoTask
  <1>0. TypeOK' BY NextTypes
  <1> SUFFICES ASSUME NEW i \in Incident, alert'[i] = "accepted" PROVE Traced(i)'
    <2>1. \A i \in Incident : tasks'[i] # NoTask => (Queued(i) \/ OutOfTries(i))'
      BY <1>0, TaskFacts DEF TypeOK, Queued, OutOfTries
    <2> QED BY <2>1 DEF TracedInv
  <1>a. alert[i] = "accepted" => Traced(i) BY TaskThere DEF TracedInv
  <1>1. ASSUME NEW w \in Worker, WorkerStep(w) \/ Die(w) PROVE Traced(i)'
    <2>1. alert' = alert
      BY <1>1 DEF WorkerStep, ClaimDuplicate, ClaimExhausted, ClaimGranted, GiveUp, Correlate,
         Attach, Gate, Arm, BodyReturns, BodyRaises, Release, ReadHold, ReadRevert, Settle,
         Finish, Die
    <2> QED BY <1>1, <1>a, <2>1, WorkerTraced
  <1>2. ASSUME UNCHANGED <<tasks, dropped, stranded, inc, durable, pc>>, alert[i] = "accepted",
               heal[i].done => heal'[i].done
        PROVE  Traced(i)'
    <2>1. InProcess(i) => InProcess(i)' BY <1>2 DEF InProcess
    <2> QED BY <1>a, <1>2, <2>1
  <1>3. CASE Approver \/ Completer \/ UNCHANGED vars
    BY <1>2, <1>3 DEF Approver, Peek, ClaimNothing, Deny, Approve, ResumeRefused, ResumeArms,
       FixRead, FixWrite, ApproverReadsHold, ApproverReadsRevert, ApproverSettles,
       ApproverFails, Completer, CompleteBegin, CompleterSettles, Close, EndComplete,
       NoCandidate, ClearPending, CompleteGivesUp, Compensate
  <1>4. CASE Tick
    <2>1. /\ UNCHANGED <<alert, dropped, stranded, inc, durable, pc>>
          /\ tasks[i] \in Task /\ tasks'[i] = WindowRuns(tasks[i])
      BY <1>4 DEF Tick, TypeOK
    <2>2. tasks[i] # NoTask => tasks'[i] # NoTask BY <2>1, TaskFacts
    <2>3. heal'[i].done = heal[i].done BY <1>4, HealMutators DEF Tick, TypeOK
    <2>4. InProcess(i) => InProcess(i)' BY <2>1 DEF InProcess
    <2> QED BY <1>a, <2>1, <2>2, <2>3, <2>4
  <1>5. ASSUME NEW j \in Incident, Alert(j) \/ DedupLapse(j) \/ ApprovalLapse(j)
        PROVE  Traced(i)'
    <2>1. /\ UNCHANGED <<tasks, dropped, stranded, inc, durable, pc, heal>>
          /\ alert[i] = "accepted"
      BY <1>5 DEF Alert, DedupLapse, ApprovalLapse, TypeOK
    <2> QED BY <1>2, <2>1
  <1>6. ASSUME NEW j \in Incident, Enqueue(j) PROVE Traced(i)'
    <2>1. /\ UNCHANGED <<dropped, stranded, inc, durable, pc, heal>>
          /\ i # j => alert[i] = "accepted" /\ tasks'[i] = tasks[i]
          /\ i = j => tasks'[i] = NewTask
      BY <1>6 DEF Enqueue, TypeOK
    <2>2. NewTask # NoTask BY DEF NewTask, NoTask
    <2>3. InProcess(i) => InProcess(i)' BY <2>1 DEF InProcess
    <2> QED BY <1>a, <2>1, <2>2, <2>3
  <1>7. ASSUME NEW j \in Incident, NEW w \in Worker, Deliver(j, w) \/ EnqueueInproc(j, w)
        PROVE  Traced(i)'
    <2>1. /\ pc[w] = "idle" /\ pc'[w] = "start" /\ inc'[w] = j
          /\ \A v \in Worker : v # w => pc'[v] = pc[v] /\ inc'[v] = inc[v] /\ durable'[v] = durable[v]
          /\ UNCHANGED <<heal, dropped, stranded>>
      BY <1>7 DEF Deliver, EnqueueInproc, TypeOK
    <2>2. InProcess(i) => InProcess(i)' BY <2>1 DEF InProcess
    <2>3. CASE EnqueueInproc(j, w)
      <3>1. /\ tasks' = tasks /\ ~durable'[w]
            /\ i # j => alert[i] = "accepted"
        BY <2>3 DEF EnqueueInproc, TypeOK
      <3>2. i = j => InProcess(i)' BY <2>1, <3>1 DEF InProcess
      <3> QED BY <1>a, <2>1, <2>2, <3>1, <3>2
    <2>4. CASE Deliver(j, w)
      <3>1. alert' = alert /\ tasks' = [tasks EXCEPT ![j] = Attempted(@)]
        BY <2>4 DEF Deliver
      <3>2. tasks'[i] = tasks[i] \/ tasks'[i] = Attempted(tasks[i])
        BY <3>1 DEF TypeOK
      <3>3. tasks[i] # NoTask => tasks'[i] # NoTask
        <4>1. tasks[i] \in Task BY DEF TypeOK
        <4> QED BY <3>2, <4>1, TaskFacts
      <3> QED BY <1>a, <2>1, <2>2, <3>1, <3>3
    <2> QED BY <1>7, <2>3, <2>4
  <1> QED BY <1>1, <1>3, <1>4, <1>5, <1>6, <1>7 DEF Next

\* An accepted heal is lost in three ways only, for every value of the constants (the
\* deployed limits of the queue and of the breaker, overruns, early redeliveries and
\* the in-process fallback included).
THEOREM NoUnnamedLoss == Spec => []LossesAreNamed
  <1>1. Init => RunInv /\ TracedInv
    BY DEF Init, RunInv, SingleRun, TracedInv, Running, InRun, InBody
  <1>2. TypeOK /\ RunInv /\ TracedInv /\ [Next]_vars => RunInv' /\ TracedInv'
    BY RunStep, TracedStep
  <1>3. TypeOK /\ CountInv /\ TracedInv => LossesAreNamed
    <2> SUFFICES ASSUME TypeOK, CountInv, TracedInv, NEW i \in Incident, alert[i] = "accepted",
                        ~heal[i].done, ~Queued(i), i \notin dropped \cup stranded,
                        ~\E w \in Worker : pc[w] # "idle" /\ inc[w] = i
                 PROVE  OutOfTries(i) /\ heal[i].attempts + crashes >= QueueAttempts
      BY DEF LossesAreNamed
    <2>1. OutOfTries(i) BY DEF TracedInv, InProcess
    <2>2. /\ tasks[i].left = 0 /\ heal[i].attempts \in Nat /\ crashes \in Nat
          /\ QueueAttempts \in Nat
      BY <2>1 DEF OutOfTries, Queued, TypeOK, Task, HealDoc
    <2>3. RunningOn(i) = {} BY DEF RunningOn, Running, InRun, InBody
    <2>4. Cardinality(RunningOn(i)) = 0 BY <2>3, FS_EmptySet
    <2> QED BY <2>1, <2>2, <2>4 DEF CountInv
  <1> QED BY <1>1, <1>2, <1>3, TypeCorrect, AttemptsAccounted, PTL DEF Spec

=============================================================================
