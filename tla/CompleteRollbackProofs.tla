----------------------- MODULE CompleteRollbackProofs -----------------------
(***************************************************************************)
(* Theorems about CompleteRollback, for every number of incidents,         *)
(* requests and revisions, every lease, cap and canary, and every bound.   *)
(***************************************************************************)
EXTENDS CompleteRollback, TLAPS

-----------------------------------------------------------------------------
(* The documents.                                                          *)

\* What the mutators of the pending revert return.
LEMMA RevertMutators ==
  ASSUME NEW cur \in Revert \cup {NoRevert}, NEW data \in Revert
  PROVE  /\ SetPending(cur, data) \in Revert
         /\ cur # NoRevert => BeginComplete(cur) \in Revert
         /\ BumpAttempts(cur) \in Revert \cup {NoRevert}
         /\ \A closed \in BOOLEAN : EndComplete(cur, closed) \in Revert \cup {NoRevert}
  <1> USE RevertStoreAssumption DEF RevertStoreAssumption
  <1>1. CASE cur = NoRevert
    BY <1>1 DEF SetPending, BumpAttempts, EndComplete, Revert, NoRevert
  <1>2. CASE cur # NoRevert
    <2>1. cur \in Revert
      BY <1>2
    <2>2. SetPending(cur, data) \in Revert
      <3>1. CASE cur.lease > 0
        BY <2>1, <3>1 DEF SetPending, Revert
      <3>2. CASE ~(cur.lease > 0)
        BY <3>2 DEF SetPending, Revert
      <3> QED BY <3>1, <3>2
    <2>3. BeginComplete(cur) \in Revert
      BY <2>1 DEF BeginComplete, Revert
    <2>4. BumpAttempts(cur) \in Revert
      BY <1>2, <2>1 DEF BumpAttempts, Revert
    <2>5. [cur EXCEPT !.lease = 0] \in Revert
      BY <2>1 DEF Revert
    <2> QED BY <1>2, <2>2, <2>3, <2>4, <2>5 DEF EndComplete
  <1> QED BY <1>1, <1>2

\* Neither an outcome nor a grant takes the autonomy document out of its type.
LEMMA AutonomyFields ==
  ASSUME NEW doc \in AutonomyDoc(Incident)
  PROVE  doc.streak + 1 \in Nat /\ doc.level \in Levels /\ doc.by \in Incident \cup {Nobody}
  BY DEF AutonomyDoc

LEMMA TrustMutators ==
  ASSUME NEW doc \in AutonomyDoc(Incident), NEW i \in Incident
  PROVE  /\ \A success \in BOOLEAN : RecordOutcome(doc, success, i) \in AutonomyDoc(Incident)
         /\ \A level \in GrantLevels : SetLevel(doc, level) \in AutonomyDoc(Incident)
  <1>1. RecordOutcome(doc, TRUE, i) \in AutonomyDoc(Incident)
    <2>1. ASSUME NEW n \in Nat, NEW b \in BOOLEAN
          PROVE  [doc EXCEPT !.streak = n, !.advise = b] \in AutonomyDoc(Incident)
      BY DEF AutonomyDoc
    <2>2. (doc.streak + 1 >= PromoteAfter /\ doc.level # "L3") \in BOOLEAN
      OBVIOUS
    <2> QED BY <2>1, <2>2, AutonomyFields, Zenon DEF RecordOutcome
  <1>2. RecordOutcome(doc, FALSE, i) \in AutonomyDoc(Incident)
    <2>1. ASSUME NEW level \in Levels, NEW cause \in Incident \cup {Nobody}
          PROVE  [doc EXCEPT !.streak = 0, !.advise = FALSE, !.level = level, !.by = cause]
                   \in AutonomyDoc(Incident)
      BY DEF AutonomyDoc
    <2>2. (IF doc.level \in Autonomous THEN "L1" ELSE doc.level) \in Levels
      BY AutonomyFields DEF Levels
    <2>3. (IF ApprovalCoalesce /\ doc.level \in Autonomous THEN i ELSE doc.by)
            \in Incident \cup {Nobody}
      BY AutonomyFields, Zenon
    <2> QED BY <2>1, <2>2, <2>3, Zenon DEF RecordOutcome
  <1>3. ASSUME NEW level \in GrantLevels PROVE SetLevel(doc, level) \in AutonomyDoc(Incident)
    <2>1. level \in Levels
      BY CompleteAssumption DEF CompleteAssumption
    <2> QED BY <2>1 DEF AutonomyDoc, SetLevel
  <1> QED BY <1>1, <1>2, <1>3
-----------------------------------------------------------------------------
(* Types.                                                                  *)

\* The locals of a heal or a completion under way are those of a record.
LocalsOK ==
  /\ healer.pc # "idle" =>
       healer.inc \in Incident /\ healer.bad \in Rev /\ healer.safe \in Rev
  /\ \A c \in Completer :
       /\ Active(c) => /\ comp[c].inc \in Incident
                       /\ comp[c].bad \in Rev /\ comp[c].safe \in Rev
       /\ comp[c].pc \in {"split", "gate"} =>
            comp[c].cand \in Rev /\ comp[c].stage \in 1..Len(CanaryStages)

TypeInv == RevertTypeOK /\ LocalsOK

\* A tally counts one more for one incident.
LEMMA Counted ==
  ASSUME NEW f \in [Incident -> Nat], NEW i \in Incident
  PROVE  /\ Count(f, i) \in [Incident -> Nat]
         /\ \A j \in Incident : Count(f, i)[j] = IF j = i THEN f[j] + 1 ELSE f[j]
  BY DEF Count

LEMMA UnfinishedTypes ==
  ASSUME NEW f \in [Incident -> Nat], NEW c \in Completer, comp[c].inc \in Incident, NEW at
  PROVE  Unfinished(f, c, at) \in [Incident -> Nat]
  BY Counted DEF Unfinished

\* What an outcome leaves in the autonomy document and the ghosts, tally.
LEMMA OutcomeTypes ==
  ASSUME RevertTypeOK, NEW success \in BOOLEAN, NEW i \in Incident, Outcome(success, i)
  PROVE  /\ autonomy' \in AutonomyDoc(Incident)
         /\ credits' \in [Incident -> Nat]
         /\ culprit' \in Incident \cup {NoIncident}
  <1>1. autonomy' \in AutonomyDoc(Incident)
    BY TrustMutators DEF RevertTypeOK, Outcome
  <1>2. credits' \in [Incident -> Nat]
    BY Counted DEF RevertTypeOK, Outcome
  <1>3. culprit' \in Incident \cup {NoIncident}
    BY DEF RevertTypeOK, Outcome
  <1> QED BY <1>1, <1>2, <1>3

LEMMA InitType == Init => TypeInv
  <1> SUFFICES ASSUME Init PROVE TypeInv
    OBVIOUS
  <1> USE CompleteAssumption, RevertStoreAssumption
      DEF CompleteAssumption, RevertStoreAssumption
  <1>1. deployed \in Rev /\ good \subseteq 1..deployed /\ traffic \in [Rev -> 0..100]
    BY DEF Init, Rev, AllOn
  <1>2. autonomy \in AutonomyDoc(Incident)
    BY DEF Init, Trusted, AutonomyDoc
  <1>3. Len(CanaryStages) \in Nat
    OBVIOUS
  <1>4. comp \in [Completer -> CompState]
    BY <1>3 DEF Init, CompState, IdleComp, CompPc
  <1>5. healer \in HealState
    BY DEF Init, HealState, IdleHeal
  <1>6. LocalsOK
    BY DEF Init, LocalsOK, IdleHeal, IdleComp, Active
  <1> QED BY <1>1, <1>2, <1>4, <1>5, <1>6 DEF Init, TypeInv, RevertTypeOK

LEMMA HealTypes ==
  ASSUME TypeInv, HealStep PROVE TypeInv'
  <1> USE DEF TypeInv, cloud, ghosts, tally
  <1>1. ASSUME NEW i \in Incident, Rollback(i) PROVE TypeInv'
    <2>1. PICK bad \in Serving, target \in 1..deployed :
            /\ traffic' = AllOn(target)
            /\ healer' = [pc |-> "rolled", inc |-> i, bad |-> bad, safe |-> target, ok |-> FALSE]
      BY <1>1 DEF Rollback
    <2>2. bad \in Rev /\ target \in Rev
      <3>1. deployed \in Rev
        BY DEF RevertTypeOK
      <3> QED BY <3>1, RevertStoreAssumption DEF Serving, Rev, RevertStoreAssumption
    <2>3. traffic' \in [Rev -> 0..100] /\ healer' \in HealState
      BY <2>1, <2>2 DEF AllOn, HealState
    <2>4. LocalsOK'
      BY <1>1, <2>1, <2>2 DEF Rollback, LocalsOK, Active
    <2> QED BY <1>1, <2>3, <2>4 DEF Rollback, RevertTypeOK
  <1>2. ASSUME NEW ok \in BOOLEAN, Verified(ok) PROVE TypeInv'
    <2>1. healer.inc \in Incident
      BY <1>2 DEF Verified, LocalsOK
    <2>2. healer' \in HealState
      BY <1>2 DEF Verified, HealState, RevertTypeOK
    <2>3. LocalsOK'
      BY <1>2 DEF Verified, LocalsOK, Active, RevertTypeOK, HealState
    <2> QED BY <1>2, <2>1, <2>2, <2>3, OutcomeTypes DEF Verified, RevertTypeOK
  <1>3. ASSUME SaveApproval PROVE TypeInv'
    <2>1. healer' \in HealState
      BY <1>3 DEF SaveApproval, HealState, RevertTypeOK
    <2>2. LocalsOK'
      BY <1>3 DEF SaveApproval, LocalsOK, Active, RevertTypeOK, HealState
    <2>3. gated' \subseteq Incident
      BY <1>3 DEF SaveApproval, LocalsOK, RevertTypeOK
    <2> QED BY <1>3, <2>1, <2>2, <2>3 DEF SaveApproval, RevertTypeOK
  <1>4. ASSUME Arm PROVE TypeInv'
    <2> DEFINE data == [inc |-> healer.inc, bad |-> healer.bad, safe |-> healer.safe,
                        counted |-> CloseSettlement /\ healer.ok, attempts |-> 0, lease |-> 0]
    <2>1. healer.inc \in Incident /\ healer.bad \in Rev /\ healer.safe \in Rev
      BY <1>4 DEF Arm, LocalsOK
    <2>2. (CloseSettlement /\ healer.ok) \in BOOLEAN
      OBVIOUS
    <2>3. data \in Revert
      BY <2>1, <2>2, RevertStoreAssumption DEF Revert, RevertStoreAssumption
    <2>4. pending' \in Revert
      BY <1>4, <2>3, RevertMutators DEF Arm, RevertTypeOK
    <2>5. healer' \in HealState
      BY <1>4 DEF Arm, HealState, RevertTypeOK
    <2>6. LocalsOK'
      BY <1>4 DEF Arm, LocalsOK, Active, RevertTypeOK, HealState
    <2> QED BY <1>4, <2>4, <2>5, <2>6 DEF Arm, RevertTypeOK
  <1>5. ASSUME FinishHeal PROVE TypeInv'
    <2>1. healer.inc \in Incident
      BY <1>5 DEF FinishHeal, LocalsOK
    <2>2. healer' \in HealState
      BY <1>5 DEF FinishHeal, HealState, IdleHeal
    <2>3. LocalsOK'
      BY <1>5 DEF FinishHeal, LocalsOK, IdleHeal, Active
    <2> QED BY <1>5, <2>1, <2>2, <2>3 DEF FinishHeal, RevertTypeOK
  <1>6. ASSUME HealFails PROVE TypeInv'
    <2>1. healer.inc \in Incident
      BY <1>6 DEF HealFails, LocalsOK
    <2>2. healer' \in HealState
      BY <1>6 DEF HealFails, HealState, IdleHeal
    <2>3. LocalsOK'
      BY <1>6 DEF HealFails, LocalsOK, IdleHeal, Active
    <2>4. broken' \in [Incident -> Nat]
      BY <1>6, <2>1, Counted DEF HealFails, RevertTypeOK
    <2> QED BY <1>6, <2>2, <2>3, <2>4 DEF HealFails, RevertTypeOK
  <1> QED BY <1>1, <1>2, <1>3, <1>4, <1>5, <1>6 DEF HealStep

\* Deploys, grants and the approvals of the fix.
LEMMA SurroundingTypes ==
  ASSUME TypeInv,
         \/ Deploy \/ Tick \/ (\E level \in GrantLevels : Grant(level))
         \/ (\E i \in Incident : FixRead(i) \/ FixDropped(i)) \/ FixWrite \/ FixFails
  PROVE  TypeInv'
  <1> USE DEF TypeInv, cloud, ghosts, tally
  <1>1. CASE Deploy
    <2>1. deployed' \in Rev /\ good' \subseteq 1..deployed'
      <3>1. deployed \in Rev /\ good \subseteq 1..deployed
        BY DEF RevertTypeOK
      <3> QED BY <1>1, <3>1, RevertStoreAssumption DEF Deploy, Rev, RevertStoreAssumption
    <2>2. LocalsOK'
      BY <1>1 DEF Deploy, LocalsOK, Active
    <2> QED BY <1>1, <2>1, <2>2 DEF Deploy, RevertTypeOK
  <1>2. CASE Tick
    <2>1. pending' \in Revert \cup {NoRevert}
      <3>1. CASE pending = NoRevert
        <4>1. NoRevert.lease = 0 /\ [NoRevert EXCEPT !.lease = 0] = NoRevert
          <5>1. NoRevert \in [inc : {NoIncident}, bad : {0}, safe : {0}, counted : {FALSE},
                             attempts : {0}, lease : {0}]
            BY DEF NoRevert
          <5> QED BY <5>1
        <4>2. pending' = [pending EXCEPT !.lease = Elapse(pending.lease)]
          BY <1>2 DEF Tick
        <4>3. Elapse(0) = 0
          BY DEF Elapse
        <4> QED BY <3>1, <4>1, <4>2, <4>3, Zenon
      <3>2. CASE pending # NoRevert
        <4>1. pending \in Revert
          BY <3>2 DEF RevertTypeOK
        <4> QED BY <1>2, <4>1, RevertStoreAssumption
                DEF Tick, Elapse, Revert, RevertStoreAssumption
      <3> QED BY <3>1, <3>2
    <2>2. comp' \in [Completer -> CompState]
      <3>1. ASSUME NEW c \in Completer
            PROVE  [comp[c] EXCEPT !.fuse = Elapse(@)] \in CompState
        <4>1. comp[c] \in CompState
          BY DEF RevertTypeOK
        <4> QED BY <4>1, RevertStoreAssumption DEF CompState, Elapse, RevertStoreAssumption
      <3> QED BY <1>2, <3>1 DEF Tick
    <2>3. LocalsOK'
      <3>1. \A c \in Completer : comp'[c] = [comp[c] EXCEPT !.fuse = Elapse(@)]
        BY <1>2 DEF Tick
      <3>2. \A c \in Completer : comp[c] \in CompState
        BY DEF RevertTypeOK
      <3> QED BY <1>2, <3>1, <3>2 DEF Tick, LocalsOK, Active, CompState
    <2> QED BY <1>2, <2>1, <2>2, <2>3 DEF Tick, RevertTypeOK
  <1>3. ASSUME NEW level \in GrantLevels, Grant(level) PROVE TypeInv'
    <2>1. autonomy' \in AutonomyDoc(Incident)
      <3>1. autonomy \in AutonomyDoc(Incident)
        BY DEF RevertTypeOK
      <3>2. [autonomy EXCEPT !.level = level, !.advise = FALSE, !.by = Nobody]
              \in AutonomyDoc(Incident)
        BY <3>1, CompleteAssumption DEF CompleteAssumption, AutonomyDoc
      <3> QED BY <1>3, <3>2 DEF Grant, SetLevel
    <2>2. LocalsOK'
      BY <1>3 DEF Grant, LocalsOK, Active
    <2> QED BY <1>3, <2>1, <2>2 DEF Grant, RevertTypeOK
  <1>4. ASSUME NEW i \in Incident, FixRead(i) \/ FixDropped(i) PROVE TypeInv'
    <2>1. LocalsOK'
      BY <1>4 DEF FixRead, FixDropped, LocalsOK, Active
    <2> QED BY <1>4, <2>1 DEF FixRead, FixDropped, RevertTypeOK
  <1>5. CASE FixWrite
    <2>1. rearm \in Revert
      BY <1>5 DEF FixWrite, RevertTypeOK
    <2>2. pending' \in Revert
      BY <1>5, <2>1, RevertMutators DEF FixWrite, RevertTypeOK
    <2>3. LocalsOK'
      BY <1>5 DEF FixWrite, LocalsOK, Active
    <2>4. robbed' \in BOOLEAN
      BY <1>5, Zenon DEF FixWrite
    <2>5. rewrites' \in [Incident -> Nat]
      BY <1>5, <2>1, Counted DEF FixWrite, RevertTypeOK, Revert
    <2> QED BY <1>5, <2>2, <2>3, <2>4, <2>5 DEF FixWrite, RevertTypeOK
  <1>6. CASE FixFails
    <2>1. LocalsOK'
      BY <1>6 DEF FixFails, LocalsOK, Active
    <2> QED BY <1>6, <2>1 DEF FixFails, RevertTypeOK
  <1> QED BY <1>1, <1>2, <1>3, <1>4, <1>5, <1>6

\* What a completion may write into its locals.
LEMMA CompletionTypes ==
  ASSUME TypeInv, NEW c \in Completer
  PROVE  /\ comp[c] \in CompState
         /\ \A label \in CompPc : [comp[c] EXCEPT !.pc = label] \in CompState
         /\ IdleComp \in CompState
         /\ Len(CanaryStages) \in Nat
  <1>1. comp[c] \in CompState
    BY DEF TypeInv, RevertTypeOK
  <1>2. Len(CanaryStages) \in Nat
    BY CompleteAssumption DEF CompleteAssumption
  <1>3. \A label \in CompPc : [comp[c] EXCEPT !.pc = label] \in CompState
    BY <1>1 DEF CompState
  <1>4. IdleComp \in CompState
    BY <1>2, RevertStoreAssumption DEF CompState, IdleComp, CompPc, RevertStoreAssumption
  <1> QED BY <1>1, <1>2, <1>3, <1>4

\* Only the record of one completion changes, and it stays well formed.
LEMMA OneCompletionMoves ==
  ASSUME TypeInv, NEW c \in Completer, NEW rec \in CompState,
         comp' = [comp EXCEPT ![c] = rec],
         rec.pc # "idle" => rec.inc \in Incident /\ rec.bad \in Rev /\ rec.safe \in Rev,
         rec.pc \in {"split", "gate"} => rec.cand \in Rev /\ rec.stage \in 1..Len(CanaryStages),
         UNCHANGED healer
  PROVE  comp' \in [Completer -> CompState] /\ LocalsOK'
  BY DEF TypeInv, RevertTypeOK, LocalsOK, Active
LEMMA EntryOfSeq ==
  ASSUME NEW S, NEW seq \in Seq(S), NEW n \in 1..Len(seq) PROVE seq[n] \in S
  OBVIOUS

LEMMA CompletionStepTypes ==
  ASSUME TypeInv, NEW c \in Completer, CompStep(c) PROVE TypeInv'
  <1> USE DEF cloud, ghosts, tally
  <1> DEFINE Moved(rec) ==
        /\ rec \in CompState
        /\ comp' = [comp EXCEPT ![c] = rec]
        /\ rec.pc # "idle" => rec.inc \in Incident /\ rec.bad \in Rev /\ rec.safe \in Rev
        /\ rec.pc \in {"split", "gate"} =>
             rec.cand \in Rev /\ rec.stage \in 1..Len(CanaryStages)
  <1>1. ASSUME NEW rec, Moved(rec), UNCHANGED healer
        PROVE  comp' \in [Completer -> CompState] /\ LocalsOK'
    BY <1>1, OneCompletionMoves
  <1>2. ASSUME Active(c) PROVE comp[c].inc \in Incident /\ comp[c].bad \in Rev /\ comp[c].safe \in Rev
    BY <1>2 DEF TypeInv, LocalsOK
  <1>3. Moved(IdleComp) <=> comp' = [comp EXCEPT ![c] = IdleComp]
    BY CompletionTypes DEF IdleComp
  <1>4. ASSUME NEW label \in CompPc \ {"idle", "split", "gate"}, Active(c), Goto(c, label)
        PROVE  Moved([comp[c] EXCEPT !.pc = label])
    BY <1>2, <1>4, CompletionTypes DEF Goto, CompState
  <1>5. ASSUME NEW i, robbed' = RobbedBy(i) PROVE robbed' \in BOOLEAN
    BY <1>5 DEF RobbedBy, TypeInv, RevertTypeOK
  <1>6. CASE Begin(c)
    <2>1. pending \in Revert
      BY <1>6 DEF Begin, MayComplete, TypeInv, RevertTypeOK
    <2>2. pending' \in Revert
      BY <1>6, <2>1, RevertMutators DEF Begin, MayComplete
    <2>3. PICK label \in {"giveup", "select"} :
            comp' = [comp EXCEPT ![c] =
              [pc |-> label, inc |-> pending.inc, bad |-> pending.bad, safe |-> pending.safe,
               counted |-> pending.counted, cand |-> 0, stage |-> 0, fuse |-> CompleteLease]]
      BY <1>6 DEF Begin
    <2> DEFINE rec == [pc |-> label, inc |-> pending.inc, bad |-> pending.bad,
                       safe |-> pending.safe, counted |-> pending.counted,
                       cand |-> 0, stage |-> 0, fuse |-> CompleteLease]
    <2>4. rec \in CompState
      BY <2>1, CompletionTypes, RevertStoreAssumption
         DEF Revert, CompState, CompPc, OpenPc, RevertStoreAssumption
    <2>5. Moved(rec)
      BY <2>1, <2>3, <2>4 DEF Revert
    <2> HIDE DEF rec
    <2> QED BY <1>1, <1>6, <2>2, <2>5 DEF Begin, TypeInv, RevertTypeOK
  <1>7. CASE GiveUp(c)
    <2>1. Moved(IdleComp)
      BY <1>3, <1>7 DEF GiveUp
    <2>2. pin' \in Incident \cup {NoIncident}
      BY <1>7 DEF GiveUp, TypeInv, RevertTypeOK
    <2> QED BY <1>1, <1>5, <1>7, <2>1, <2>2 DEF GiveUp, TypeInv, RevertTypeOK
  <1>8. CASE Select(c)
    <2>1. PICK r \in FixCandidates(c) :
            comp' = [comp EXCEPT ![c].pc = "split", ![c].cand = r, ![c].stage = 1]
      BY <1>8 DEF Select
    <2> DEFINE rec == [comp[c] EXCEPT !.pc = "split", !.cand = r, !.stage = 1]
    <2>2. r \in Rev
      <3>1. deployed \in Rev
        BY DEF TypeInv, RevertTypeOK
      <3> QED BY <3>1, RevertStoreAssumption DEF FixCandidates, Rev, RevertStoreAssumption
    <2>3. 1 \in 1..Len(CanaryStages)
      BY CompletionTypes, CompleteAssumption DEF CompleteAssumption
    <2>4. rec \in CompState
      <3>1. comp[c] \in CompState /\ "split" \in CompPc /\ 1 \in 0..Len(CanaryStages)
        BY <2>3, CompletionTypes DEF CompPc, OpenPc
      <3> QED BY <2>2, <3>1 DEF CompState
    <2>5. Active(c)
      BY <1>8 DEF Select, Active
    <2>6. Moved(rec)
      BY <1>2, <2>1, <2>2, <2>3, <2>4, <2>5, CompletionTypes DEF CompState, TypeInv, RevertTypeOK
    <2> HIDE DEF rec
    <2> QED BY <1>1, <1>8, <2>6 DEF Select, TypeInv, RevertTypeOK
  <1>9. CASE NoCandidate(c) \/ GateFails(c)
    <2>1. \E label \in CompPc \ {"idle", "split", "gate"} : Goto(c, label)
      BY <1>9 DEF NoCandidate, GateFails, CompPc, OpenPc
    <2>2. \E rec : Moved(rec)
      BY <1>4, <1>9, <2>1 DEF NoCandidate, GateFails, Active
    <2> QED BY <1>1, <1>9, <2>2 DEF NoCandidate, GateFails, TypeInv, RevertTypeOK
  <1>10. CASE Split(c)
    <2> DEFINE pct == CanaryStages[comp[c].stage]
               rec == [comp[c] EXCEPT !.pc = "gate"]
    <2>1. comp[c].cand \in Rev /\ comp[c].stage \in 1..Len(CanaryStages) /\ Active(c)
      BY <1>10 DEF Split, TypeInv, LocalsOK, Active
    <2>2. pct \in 1..100
      <3>1. CanaryStages \in Seq(1..100)
        BY CompleteAssumption DEF CompleteAssumption
      <3> QED BY <2>1, <3>1, EntryOfSeq
    <2>3. traffic' \in [Rev -> 0..100]
      BY <1>10, <2>2 DEF Split
    <2>4. rec \in CompState
      BY CompletionTypes DEF CompPc, OpenPc
    <2>5. Moved(rec)
      BY <1>2, <1>10, <2>1, <2>4, CompletionTypes DEF Split, Goto, CompState
    <2>6. pin' \in Incident \cup {NoIncident}
      BY <1>10 DEF Split, TypeInv, RevertTypeOK
    <2> HIDE DEF rec, pct
    <2> QED BY <1>1, <1>10, <2>3, <2>5, <2>6 DEF Split, TypeInv, RevertTypeOK
  <1>11. CASE GatePasses(c)
    <2>1. comp[c].cand \in Rev /\ comp[c].stage \in 1..Len(CanaryStages) /\ Active(c)
      BY <1>11 DEF GatePasses, TypeInv, LocalsOK, Active
    <2>2. CASE comp[c].stage = Len(CanaryStages)
      <3>1. \E label \in {"credit", "close"} : Goto(c, label)
        BY <1>11, <2>2 DEF GatePasses, Goto
      <3>2. \E label \in CompPc \ {"idle", "split", "gate"} : Goto(c, label)
        BY <3>1 DEF CompPc, ClosedPc
      <3>3. \E rec : Moved(rec)
        BY <1>4, <2>1, <3>2
      <3> QED BY <1>1, <1>11, <3>3 DEF GatePasses, TypeInv, RevertTypeOK
    <2>3. CASE comp[c].stage # Len(CanaryStages)
      <3> DEFINE rec == [comp[c] EXCEPT !.pc = "split", !.stage = comp[c].stage + 1]
      <3>1. comp' = [comp EXCEPT ![c] = rec]
        BY <1>11, <2>3, CompletionTypes DEF GatePasses, TypeInv, RevertTypeOK
      <3>2. comp[c].stage + 1 \in 1..Len(CanaryStages)
        BY <2>1, <2>3, CompletionTypes
      <3>3. rec \in CompState
        <4>1. comp[c] \in CompState /\ "split" \in CompPc
          BY CompletionTypes DEF CompPc, OpenPc
        <4>2. comp[c].stage + 1 \in 0..Len(CanaryStages)
          BY <3>2, CompletionTypes
        <4> QED BY <4>1, <4>2 DEF CompState
      <3>4. Moved(rec)
        BY <1>2, <2>1, <3>1, <3>2, <3>3, CompletionTypes DEF CompState
      <3> HIDE DEF rec
      <3> QED BY <1>1, <1>11, <3>4 DEF GatePasses, TypeInv, RevertTypeOK
    <2> QED BY <2>2, <2>3
  <1>12. CASE Compensate(c)
    <2>1. Active(c) /\ Goto(c, "bump") /\ "bump" \in CompPc \ {"idle", "split", "gate"}
      BY <1>12 DEF Compensate, Active, CompPc, OpenPc
    <2>2. \E rec : Moved(rec)
      BY <1>4, <2>1
    <2>3. traffic' \in [Rev -> 0..100]
      BY <1>12 DEF Compensate, AllOn
    <2>4. undone' \in [Incident -> Nat] /\ comp[c].inc \in Incident
      BY <1>2, <1>12, <2>1, Counted DEF Compensate, TypeInv, RevertTypeOK
    <2> QED BY <1>1, <1>12, <2>2, <2>3, <2>4 DEF Compensate, TypeInv, RevertTypeOK
  <1>13. CASE Bump(c)
    <2>1. Active(c) /\ Goto(c, "demote") /\ "demote" \in CompPc \ {"idle", "split", "gate"}
      BY <1>13 DEF Bump, Active, CompPc, OpenPc
    <2>2. \E rec : Moved(rec)
      BY <1>4, <2>1
    <2>3. pending' \in Revert \cup {NoRevert}
      <3>1. pending \in Revert \cup {NoRevert}
        BY DEF TypeInv, RevertTypeOK
      <3>2. CASE pending = NoRevert
        BY <1>13, <3>2 DEF Bump, BumpAttempts
      <3>3. CASE pending # NoRevert
        BY <1>13, <3>1, <3>3, RevertMutators DEF Bump
      <3> QED BY <3>2, <3>3
    <2> QED BY <1>1, <1>13, <2>2, <2>3 DEF Bump, TypeInv, RevertTypeOK
  <1>14. ASSUME NEW success \in BOOLEAN, NEW label \in {"unlock", "close"},
                Active(c), Goto(c, label), Outcome(success, comp[c].inc),
                UNCHANGED <<cloud, pending, healer, healed, gated, rearm, pin, robbed,
                            undone, broken, uncounted, unclosed, rewrites,
                            heals, faults, grants>>
         PROVE  TypeInv'
    <2>1. label \in CompPc \ {"idle", "split", "gate"}
      BY DEF CompPc, ClosedPc
    <2>2. \E rec : Moved(rec)
      BY <1>4, <1>14, <2>1
    <2> QED BY <1>1, <1>2, <1>14, <2>2, OutcomeTypes DEF TypeInv, RevertTypeOK
  <1>15. CASE Demote(c) \/ Credit(c)
    BY <1>14, <1>15 DEF Demote, Credit, Active
  <1>16. CASE Close(c) \/ Unlock(c)
    <2>1. Moved(IdleComp)
      BY <1>3, <1>16 DEF Close, Unlock
    <2>2. pending' \in Revert \cup {NoRevert}
      <3>1. pending \in Revert \cup {NoRevert}
        BY DEF TypeInv, RevertTypeOK
      <3>2. PICK closed \in BOOLEAN : pending' = EndComplete(pending, closed)
        BY <1>16 DEF Close, Unlock
      <3> QED
        BY <3>1, <3>2, RevertStoreAssumption
           DEF EndComplete, Revert, RevertStoreAssumption
    <2>3. robbed' \in BOOLEAN
      BY <1>5, <1>16 DEF Close, Unlock, TypeInv, RevertTypeOK
    <2> QED BY <1>1, <1>16, <2>1, <2>2, <2>3 DEF Close, Unlock, TypeInv, RevertTypeOK
  <1>17. CASE Raise(c)
    <2>1. Active(c)
      BY <1>17 DEF Raise, Active, OpenPc
    <2>2. \E label \in CompPc \ {"idle", "split", "gate"} : Goto(c, label)
      BY <1>17 DEF Raise, CompPc, ClosedPc
    <2>3. \E rec : Moved(rec)
      BY <1>4, <2>1, <2>2
    <2>4. comp' \in [Completer -> CompState] /\ LocalsOK'
      BY <1>1, <1>17, <2>3 DEF Raise
    <2>5. uncounted' \in [Incident -> Nat]
      BY <1>2, <1>17, <2>1, UnfinishedTypes DEF Raise, TypeInv, RevertTypeOK
    <2> QED BY <1>17, <2>4, <2>5 DEF Raise, TypeInv, RevertTypeOK
  <1>18. CASE Die(c)
    <2>1. Moved(IdleComp)
      BY <1>3, <1>18 DEF Die
    <2>2. comp[c].inc \in Incident
      BY <1>2, <1>18 DEF Die
    <2>3. comp' \in [Completer -> CompState] /\ LocalsOK'
      BY <1>1, <1>18, <2>1 DEF Die
    <2>4. uncounted' \in [Incident -> Nat] /\ unclosed' \in [Incident -> Nat]
      BY <1>18, <2>2, UnfinishedTypes DEF Die, TypeInv, RevertTypeOK
    <2> QED BY <1>18, <2>3, <2>4 DEF Die, TypeInv, RevertTypeOK
  <1> QED
    BY <1>6, <1>7, <1>8, <1>9, <1>10, <1>11, <1>12, <1>13, <1>15, <1>16, <1>17, <1>18
       DEF CompStep

LEMMA TypeStep == TypeInv /\ [Next]_vars => TypeInv'
  <1> SUFFICES ASSUME TypeInv, [Next]_vars PROVE TypeInv'
    OBVIOUS
  <1>1. CASE UNCHANGED vars
    BY <1>1 DEF vars, cloud, ghosts, tally, TypeInv, RevertTypeOK, LocalsOK, Active
  <1>2. CASE HealStep
    BY <1>2, HealTypes
  <1>3. CASE \E c \in Completer : CompStep(c)
    BY <1>3, CompletionStepTypes
  <1> QED
    BY <1>1, <1>2, <1>3, SurroundingTypes DEF Next

\* The pending revert, the trust ramp, the traffic split and the locals of every
\* request keep their types, the indices into the canary included.
THEOREM RevertTypeCorrect == Spec => []RevertTypeOK
  <1>1. TypeInv => RevertTypeOK
    BY DEF TypeInv
  <1> QED
    BY <1>1, InitType, TypeStep, PTL DEF Spec
-----------------------------------------------------------------------------
(* One completion at a time.                                               *)

\* A completion under way holds the lease of the record, whoever's it is by now,
\* and has no more time than the lease; so there is only one.
LeaseInv ==
  BoundedCompletions =>
    /\ \A c \in Completer : Active(c) => comp[c].fuse >= 1 /\ pending.lease >= comp[c].fuse
    /\ \A b, c \in Completer : Active(b) /\ Active(c) => b = c

\* What set_pending does to the lease of the record.
LEMMA SetPendingKeepsLease ==
  ASSUME NEW cur \in Revert \cup {NoRevert}, NEW data \in Revert
  PROVE  SetPending(cur, data).lease = cur.lease /\ SetPending(cur, data).inc = data.inc
  <1>1. cur.lease \in Nat
    BY RevertStoreAssumption DEF Revert, NoRevert, RevertStoreAssumption
  <1>2. CASE cur.lease > 0
    BY <1>2 DEF SetPending, Revert
  <1>3. CASE cur.lease = 0
    BY <1>3 DEF SetPending, Revert
  <1> QED BY <1>1, <1>2, <1>3

\* A step that starts no completion and keeps the lease while there is one.
LEMMA NobodyStarts ==
  ASSUME LeaseInv,
         \A c \in Completer : Active(c)' => Active(c) /\ comp'[c].fuse = comp[c].fuse,
         (\E c \in Completer : Active(c)') => pending'.lease = pending.lease
  PROVE  LeaseInv'
  BY DEF LeaseInv

LEMMA LeaseStep == TypeInv /\ LeaseInv /\ [Next]_vars => LeaseInv'
  <1> SUFFICES ASSUME TypeInv, LeaseInv, [Next]_vars, BoundedCompletions PROVE LeaseInv'
    BY DEF LeaseInv
  <1>1. ASSUME UNCHANGED comp, pending'.lease = pending.lease PROVE LeaseInv'
    BY <1>1 DEF LeaseInv, Active
  <1>2. CASE UNCHANGED vars
    BY <1>1, <1>2 DEF vars
  <1>3. CASE HealStep
    <2>1. CASE Arm
      <3>1. PICK data \in Revert : pending' = SetPending(pending, data)
        <4>1. (CloseSettlement /\ healer.ok) \in BOOLEAN
          OBVIOUS
        <4>2. healer.inc \in Incident /\ healer.bad \in Rev /\ healer.safe \in Rev
          BY <2>1 DEF Arm, TypeInv, LocalsOK
        <4>3. [inc |-> healer.inc, bad |-> healer.bad, safe |-> healer.safe,
               counted |-> CloseSettlement /\ healer.ok, attempts |-> 0, lease |-> 0] \in Revert
          BY <4>1, <4>2, RevertStoreAssumption DEF Revert, RevertStoreAssumption
        <4> QED BY <2>1, <4>3 DEF Arm
      <3>2. pending \in Revert \cup {NoRevert}
        BY DEF TypeInv, RevertTypeOK
      <3> QED BY <1>1, <2>1, <3>1, <3>2, SetPendingKeepsLease DEF Arm
    <2>2. CASE ~Arm
      BY <1>1, <1>3, <2>2 DEF HealStep, Rollback, Verified, SaveApproval, FinishHeal, HealFails
    <2> QED BY <2>1, <2>2
  <1>4. CASE FixWrite
    <2>1. rearm \in Revert /\ pending \in Revert \cup {NoRevert}
      BY <1>4 DEF FixWrite, TypeInv, RevertTypeOK
    <2> QED BY <1>1, <1>4, <2>1, SetPendingKeepsLease DEF FixWrite
  <1>5. CASE \/ Deploy \/ (\E level \in GrantLevels : Grant(level))
             \/ (\E i \in Incident : FixRead(i) \/ FixDropped(i)) \/ FixFails
    BY <1>1, <1>5 DEF Deploy, Grant, FixRead, FixDropped, FixFails
  <1>6. CASE Tick
    <2>1. ASSUME NEW c \in Completer
          PROVE  /\ Active(c)' <=> Active(c)
                 /\ comp'[c].fuse = Elapse(comp[c].fuse) /\ comp[c].fuse \in Nat
      <3>1. comp[c] \in CompState /\ comp'[c] = [comp[c] EXCEPT !.fuse = Elapse(@)]
        BY <1>6, CompletionTypes DEF Tick
      <3> QED BY <3>1, RevertStoreAssumption DEF CompState, Active, RevertStoreAssumption
    <2>2. pending'.lease = Elapse(pending.lease) /\ pending.lease \in Nat
      <3>1. pending \in Revert \cup {NoRevert}
        BY DEF TypeInv, RevertTypeOK
      <3> QED BY <1>6, <3>1, RevertStoreAssumption
              DEF Tick, Revert, NoRevert, RevertStoreAssumption
    <2>3. \A c \in Completer : Active(c) => comp[c].fuse > 1
      BY <1>6 DEF Tick
    <2> QED BY <2>1, <2>2, <2>3 DEF LeaseInv, Elapse
  <1>7. ASSUME NEW c \in Completer, CompStep(c) PROVE LeaseInv'
    <2> DEFINE Stops == comp' = [comp EXCEPT ![c] = IdleComp] /\ Active(c)
    <2>1. comp \in [Completer -> CompState] /\ comp[c] \in CompState
      BY CompletionTypes DEF TypeInv, RevertTypeOK
    <2>2. ASSUME Stops PROVE LeaseInv'
      <3>1. ASSUME NEW b \in Completer PROVE ~(Active(b)')
        <4>1. b # c => ~Active(b)
          BY <2>2 DEF LeaseInv
        <4> QED BY <2>1, <2>2, <4>1 DEF Active, IdleComp
      <3> QED BY <3>1, NobodyStarts
    <2>3. ASSUME NEW rec, comp' = [comp EXCEPT ![c] = rec], rec.fuse = comp[c].fuse,
                 Active(c), pending'.lease = pending.lease
          PROVE  LeaseInv'
      <3>1. ASSUME NEW b \in Completer, Active(b)'
            PROVE  Active(b) /\ comp'[b].fuse = comp[b].fuse
        BY <2>1, <2>3, <3>1 DEF Active
      <3> QED BY <2>3, <3>1, NobodyStarts
    <2>4. CASE Begin(c)
      <3>1. pending \in Revert /\ pending.lease = 0
        BY <2>4 DEF Begin, MayComplete, TypeInv, RevertTypeOK
      <3>2. pending'.lease = CompleteLease /\ CompleteLease \in Nat /\ CompleteLease >= 1
        BY <2>4, <3>1, RevertStoreAssumption DEF Begin, BeginComplete, Revert, RevertStoreAssumption
      <3>3. \A b \in Completer : ~Active(b)
        <4>1. \A b \in Completer : comp[b].fuse \in Nat
          BY <2>1, RevertStoreAssumption DEF CompState, RevertStoreAssumption
        <4> QED BY <3>1, <4>1 DEF LeaseInv
      <3>4. comp'[c].fuse = CompleteLease /\ \A b \in Completer \ {c} : comp'[b] = comp[b]
        BY <2>1, <2>4 DEF Begin
      <3> QED BY <3>2, <3>3, <3>4 DEF LeaseInv, Active
    <2>5. CASE GiveUp(c) \/ Close(c) \/ Unlock(c) \/ Die(c)
      BY <2>2, <2>5 DEF GiveUp, Close, Unlock, Die, Active
    <2>6. CASE NoCandidate(c) \/ GateFails(c) \/ Compensate(c) \/ Raise(c)
               \/ Demote(c) \/ Credit(c) \/ Split(c)
      <3>1. Active(c) /\ UNCHANGED pending /\ \E label : Goto(c, label)
        BY <2>6 DEF NoCandidate, GateFails, Compensate, Raise, Demote, Credit, Split,
                    Active, OpenPc
      <3>2. PICK label : comp' = [comp EXCEPT ![c] = [comp[c] EXCEPT !.pc = label]]
        BY <2>1, <3>1 DEF Goto
      <3>3. ([comp[c] EXCEPT !.pc = label]).fuse = comp[c].fuse
        BY <2>1 DEF CompState
      <3> QED BY <2>3, <3>1, <3>2, <3>3
    <2>7. CASE Select(c)
      <3>1. PICK r \in FixCandidates(c) :
              comp' = [comp EXCEPT ![c] = [comp[c] EXCEPT !.pc = "split", !.cand = r, !.stage = 1]]
        BY <2>1, <2>7 DEF Select
      <3>2. ([comp[c] EXCEPT !.pc = "split", !.cand = r, !.stage = 1]).fuse = comp[c].fuse
        BY <2>1 DEF CompState
      <3> QED BY <2>3, <2>7, <3>1, <3>2 DEF Select, Active
    <2>8. CASE GatePasses(c)
      <3>1. CASE comp[c].stage = Len(CanaryStages)
        <4>1. PICK label \in {"credit", "close"} :
                comp' = [comp EXCEPT ![c] = [comp[c] EXCEPT !.pc = label]]
          BY <2>1, <2>8, <3>1 DEF GatePasses
        <4>2. ([comp[c] EXCEPT !.pc = label]).fuse = comp[c].fuse
          BY <2>1 DEF CompState
        <4> QED BY <2>3, <2>8, <4>1, <4>2 DEF GatePasses, Active
      <3>2. CASE comp[c].stage # Len(CanaryStages)
        <4> DEFINE rec == [comp[c] EXCEPT !.pc = "split", !.stage = comp[c].stage + 1]
        <4>1. comp' = [comp EXCEPT ![c] = rec]
          BY <2>1, <2>8, <3>2 DEF GatePasses
        <4>2. rec.fuse = comp[c].fuse
          BY <2>1 DEF CompState
        <4> HIDE DEF rec
        <4> QED BY <2>3, <2>8, <4>1, <4>2 DEF GatePasses, Active
      <3> QED BY <3>1, <3>2
    <2>9. CASE Bump(c)
      <3>1. pending \in Revert
        <4>1. Active(c) /\ comp[c].fuse \in Nat /\ pending \in Revert \cup {NoRevert}
          BY <2>1, <2>9, RevertStoreAssumption
             DEF Bump, Active, TypeInv, RevertTypeOK, CompState, RevertStoreAssumption
        <4>2. pending.lease >= comp[c].fuse /\ comp[c].fuse >= 1
          BY <4>1 DEF LeaseInv
        <4> QED BY <4>1, <4>2 DEF NoRevert
      <3>2. pending'.lease = pending.lease
        BY <2>9, <3>1 DEF Bump, BumpAttempts, Revert
      <3>3. comp' = [comp EXCEPT ![c] = [comp[c] EXCEPT !.pc = "demote"]]
        BY <2>1, <2>9 DEF Bump, Goto
      <3>4. ([comp[c] EXCEPT !.pc = "demote"]).fuse = comp[c].fuse
        BY <2>1 DEF CompState
      <3> QED BY <2>3, <2>9, <3>2, <3>3, <3>4 DEF Bump, Active
    <2> QED BY <1>7, <2>4, <2>5, <2>6, <2>7, <2>8, <2>9 DEF CompStep
  <1> QED
    BY <1>2, <1>3, <1>4, <1>5, <1>6, <1>7 DEF Next

\* Two requests never complete the transaction of the service at once.
THEOREM OneCompletion == Spec => []SingleCompletion
  <1>1. Init => LeaseInv
    BY DEF Init, LeaseInv, Active, IdleComp
  <1>2. LeaseInv => SingleCompletion
    BY DEF LeaseInv, SingleCompletion
  <1> QED
    BY <1>1, <1>2, InitType, TypeStep, LeaseStep, PTL DEF Spec
-----------------------------------------------------------------------------
(* A demotion sticks.                                                      *)

LEMMA OutcomeSticks ==
  ASSUME TypeInv, DemotionSticks, NEW success \in BOOLEAN, NEW i \in Incident,
         Outcome(success, i)
  PROVE  DemotionSticks'
  <1>1. autonomy \in AutonomyDoc(Incident) /\ i # NoIncident
    BY RevertStoreAssumption DEF RevertStoreAssumption, TypeInv, RevertTypeOK
  <1>2. CASE success
    <2>1. /\ autonomy' = [autonomy EXCEPT !.streak = @ + 1,
                            !.advise = autonomy.streak + 1 >= PromoteAfter /\ autonomy.level # "L3"]
          /\ culprit' = culprit
      BY <1>2 DEF Outcome, RecordOutcome
    <2>2. autonomy'.level = autonomy.level /\ autonomy'.by = autonomy.by
      BY <1>1, <2>1 DEF AutonomyDoc
    <2> QED BY <2>1, <2>2 DEF DemotionSticks
  <1>3. CASE ~success /\ autonomy.level \in Autonomous
    <2>1. /\ autonomy'.level = "L1" /\ culprit' = i
          /\ ApprovalCoalesce => autonomy'.by = i
      BY <1>1, <1>3 DEF Outcome, RecordOutcome, AutonomyDoc
    <2> QED BY <2>1 DEF DemotionSticks, Autonomous
  <1>4. CASE ~success /\ autonomy.level \notin Autonomous
    <2>1. autonomy'.level = autonomy.level /\ autonomy'.by = autonomy.by /\ culprit' = culprit
      BY <1>1, <1>4 DEF Outcome, RecordOutcome, AutonomyDoc
    <2> QED BY <2>1 DEF DemotionSticks
  <1> QED BY <1>2, <1>3, <1>4

\* A failed heal or completion leaves the service below the autonomous levels, with
\* its incident on record, until a human grants a level.
THEOREM DemotionHolds == Spec => []DemotionSticks
  <1>1. Init => DemotionSticks
    BY DEF Init, DemotionSticks
  <1>2. TypeInv /\ DemotionSticks /\ [Next]_vars => DemotionSticks'
    <2> SUFFICES ASSUME TypeInv, DemotionSticks, [Next]_vars PROVE DemotionSticks'
      OBVIOUS
    <2>1. ASSUME UNCHANGED <<autonomy, culprit>> PROVE DemotionSticks'
      BY <2>1 DEF DemotionSticks
    <2>2. ASSUME NEW ok \in BOOLEAN, Verified(ok) PROVE DemotionSticks'
      <3>1. healer.inc \in Incident
        BY <2>2 DEF Verified, TypeInv, LocalsOK
      <3> QED BY <2>2, <3>1, OutcomeSticks DEF Verified
    <2>3. ASSUME NEW c \in Completer, Demote(c) \/ Credit(c) PROVE DemotionSticks'
      <3>1. comp[c].inc \in Incident
        BY <2>3 DEF Demote, Credit, TypeInv, LocalsOK, Active
      <3> QED BY <2>3, <3>1, OutcomeSticks DEF Demote, Credit
    <2>4. ASSUME NEW level \in GrantLevels, Grant(level) PROVE DemotionSticks'
      BY <2>4 DEF Grant, DemotionSticks
    <2>5. CASE HealStep
      BY <2>1, <2>2, <2>5 DEF HealStep, Rollback, SaveApproval, Arm, FinishHeal, HealFails, ghosts, tally
    <2>6. CASE \/ Deploy \/ Tick \/ FixWrite \/ FixFails
               \/ (\E i \in Incident : FixRead(i) \/ FixDropped(i))
      BY <2>1, <2>6 DEF Deploy, Tick, FixWrite, FixFails, FixRead, FixDropped, ghosts, tally
    <2>7. ASSUME NEW c \in Completer, CompStep(c) PROVE DemotionSticks'
      <3>1. CASE Begin(c) \/ GiveUp(c) \/ Select(c) \/ NoCandidate(c) \/ Split(c)
        BY <2>1, <3>1 DEF Begin, GiveUp, Select, NoCandidate, Split, ghosts, tally
      <3>2. CASE GatePasses(c) \/ GateFails(c) \/ Compensate(c) \/ Bump(c)
        BY <2>1, <3>2 DEF GatePasses, GateFails, Compensate, Bump, ghosts, tally
      <3>3. CASE Close(c) \/ Unlock(c) \/ Raise(c) \/ Die(c)
        BY <2>1, <3>3 DEF Close, Unlock, Raise, Die, ghosts, tally
      <3> QED BY <2>3, <2>7, <3>1, <3>2, <3>3 DEF CompStep
    <2>8. CASE UNCHANGED vars
      BY <2>1, <2>8 DEF vars, ghosts, tally
    <2> QED BY <2>4, <2>5, <2>6, <2>7, <2>8 DEF Next
  <1> QED
    BY <1>1, <1>2, InitType, TypeStep, PTL DEF Spec
-----------------------------------------------------------------------------
(* What a step does to the documents and to the locals.                    *)

\* A document that exists names its incident.
LEMMA NamedDocs ==
  ASSUME TypeInv
  PROVE  /\ pending # NoRevert <=> pending.inc # NoIncident
         /\ rearm # NoRevert <=> rearm.inc # NoIncident
         /\ pending.inc \in Incident \cup {NoIncident} /\ pending.attempts \in Nat
         /\ rearm.inc \in Incident \cup {NoIncident} /\ rearm.attempts \in Nat
         /\ pending.lease \in Nat
         /\ NoRevert.inc = NoIncident /\ NoRevert.attempts = 0
  BY RevertStoreAssumption DEF TypeInv, RevertTypeOK, Revert, NoRevert, RevertStoreAssumption

\* The steps that touch nothing of the record but its lease.
LEMMA RecordKept ==
  ASSUME TypeInv,
         \/ pending' = BeginComplete(pending)
         \/ pending' = EndComplete(pending, FALSE)
         \/ pending' = [pending EXCEPT !.lease = Elapse(@)]
  PROVE  /\ pending'.inc = pending.inc /\ pending'.counted = pending.counted
         /\ pending'.attempts = pending.attempts
  <1>1. pending \in Revert \cup {NoRevert}
    BY DEF TypeInv, RevertTypeOK
  <1>2. CASE pending = NoRevert
    BY <1>2 DEF BeginComplete, EndComplete, NoRevert
  <1>3. CASE pending # NoRevert
    BY <1>1, <1>3 DEF BeginComplete, EndComplete, Revert
  <1> QED BY <1>2, <1>3

LEMMA BumpedRecord ==
  ASSUME TypeInv, pending # NoRevert, pending' = BumpAttempts(pending)
  PROVE  /\ pending'.inc = pending.inc /\ pending'.counted = pending.counted
         /\ pending'.attempts = pending.attempts + 1
  <1>1. pending \in Revert
    BY DEF TypeInv, RevertTypeOK
  <1> QED BY <1>1 DEF BumpAttempts, Revert

\* The record an armed heal leaves, and the one an approved fix writes.
LEMMA ArmedRecord ==
  ASSUME TypeInv, Arm
  PROVE  /\ healer.inc \in Incident
         /\ pending'.inc = healer.inc /\ pending'.counted = (CloseSettlement /\ healer.ok)
         /\ pending'.attempts = IF pending.lease > 0 THEN pending.attempts ELSE 0
  <1>1. healer.inc \in Incident
    BY DEF Arm, TypeInv, LocalsOK
  <1> DEFINE data == [inc |-> healer.inc, bad |-> healer.bad, safe |-> healer.safe,
                      counted |-> CloseSettlement /\ healer.ok, attempts |-> 0, lease |-> 0]
  <1>2. pending' = SetPending(pending, data)
    BY DEF Arm
  <1>3. CASE pending.lease > 0
    BY <1>1, <1>2, <1>3 DEF SetPending
  <1>4. CASE ~(pending.lease > 0)
    BY <1>1, <1>2, <1>4 DEF SetPending
  <1> QED BY <1>3, <1>4

LEMMA WrittenRecord ==
  ASSUME TypeInv, FixWrite
  PROVE  /\ rearm # NoRevert /\ rearm.inc \in Incident
         /\ pending'.inc = rearm.inc
         /\ pending'.attempts = IF pending.lease > 0 THEN pending.attempts ELSE rearm.attempts
  <1>1. rearm \in Revert /\ rearm # NoRevert /\ pending' = SetPending(pending, rearm)
    BY DEF FixWrite, TypeInv, RevertTypeOK
  <1>2. CASE pending.lease > 0
    BY <1>1, <1>2 DEF SetPending, Revert
  <1>3. CASE ~(pending.lease > 0)
    BY <1>1, <1>3 DEF SetPending, Revert
  <1> QED BY <1>1, <1>2, <1>3 DEF Revert

\* The heal under way keeps its incident until it is done or fails.
LEMMA HealerMoves ==
  ASSUME TypeInv
  PROVE  /\ \A ok \in BOOLEAN : Verified(ok) =>
              healer'.pc = "arm" /\ healer'.inc = healer.inc /\ healer'.ok = ok
         /\ SaveApproval =>
              healer'.pc = "filed" /\ healer'.inc = healer.inc /\ healer'.ok = healer.ok
         /\ Arm =>
              healer'.pc = "armed" /\ healer'.inc = healer.inc /\ healer'.ok = healer.ok
         /\ IdleHeal.pc = "idle" /\ ~IdleHeal.ok
  <1>1. healer \in HealState
    BY DEF TypeInv, RevertTypeOK
  <1> QED BY <1>1 DEF Verified, SaveApproval, Arm, HealState, IdleHeal

\* A tick takes time from the completions and nothing else.
LEMMA TickLocals ==
  ASSUME TypeInv, Tick, NEW c \in Completer
  PROVE  /\ comp'[c].pc = comp[c].pc /\ comp'[c].inc = comp[c].inc
         /\ comp'[c].counted = comp[c].counted /\ comp'[c].stage = comp[c].stage
  <1>1. comp[c] \in CompState /\ comp'[c] = [comp[c] EXCEPT !.fuse = Elapse(@)]
    BY CompletionTypes DEF Tick
  <1> QED BY <1>1 DEF CompState

\* A completion that goes on to another step keeps its locals; no other one moves.
LEMMA GotoLocals ==
  ASSUME TypeInv, NEW c \in Completer, NEW label, Goto(c, label)
  PROVE  /\ comp'[c].pc = label /\ comp'[c].inc = comp[c].inc
         /\ comp'[c].counted = comp[c].counted /\ comp'[c].stage = comp[c].stage
         /\ \A b \in Completer \ {c} : comp'[b] = comp[b]
  <1>1. comp \in [Completer -> CompState] /\ comp[c] \in CompState
    BY CompletionTypes DEF TypeInv, RevertTypeOK
  <1> QED BY <1>1 DEF Goto, CompState

\* The last stage restored the traffic to the fix: the completion is about to close.
Restored(c) ==
  comp[c].pc \in ClosedPc \/ (comp[c].pc = "gate" /\ comp[c].stage = Len(CanaryStages))

\* What a completion does to the locals: it stops, or it takes its own next step.
LEMMA CompletionMoves ==
  ASSUME TypeInv, NEW c \in Completer, CompStep(c), ~Begin(c)
  PROVE  /\ Active(c)
         /\ \A b \in Completer \ {c} : comp'[b] = comp[b]
         /\ UNCHANGED <<deployed, good, healer, healed, gated, rearm, broken, rewrites>>
         /\ \/ comp'[c] = IdleComp
            \/ /\ comp'[c].inc = comp[c].inc /\ comp'[c].counted = comp[c].counted
               /\ comp'[c].pc # "idle"
  <1> USE DEF cloud, ghosts, tally
  <1>1. comp \in [Completer -> CompState] /\ comp[c] \in CompState
    BY CompletionTypes DEF TypeInv, RevertTypeOK
  <1>2. CASE GiveUp(c) \/ Close(c) \/ Unlock(c) \/ Die(c)
    BY <1>1, <1>2 DEF GiveUp, Close, Unlock, Die, Active
  <1>3. CASE NoCandidate(c) \/ GateFails(c) \/ Compensate(c) \/ Raise(c)
             \/ Demote(c) \/ Credit(c) \/ Split(c) \/ Bump(c)
    <2>1. /\ Active(c) /\ UNCHANGED <<deployed, good, healer, healed, gated, rearm, broken, rewrites>>
          /\ \E label : label # "idle" /\ Goto(c, label)
      BY <1>3 DEF NoCandidate, GateFails, Compensate, Raise, Demote, Credit, Split, Bump,
                  Active, OpenPc
    <2> QED BY <2>1, GotoLocals
  <1>4. CASE Select(c)
    BY <1>1, <1>4 DEF Select, Active, CompState
  <1>5. CASE GatePasses(c)
    BY <1>1, <1>5 DEF GatePasses, Active, CompState
  <1> QED BY <1>2, <1>3, <1>4, <1>5 DEF CompStep

\* A completion holds the record, and no other completion is under way.
LEMMA Claimed ==
  ASSUME TypeInv, LeaseInv, BoundedCompletions, NEW c \in Completer, Active(c)
  PROVE  /\ pending # NoRevert /\ pending.inc \in Incident /\ pending.lease > 0
         /\ \A b \in Completer : Active(b) => b = c
  <1>1. comp[c].fuse \in Nat /\ comp[c].fuse >= 1 /\ pending.lease >= comp[c].fuse
    BY CompletionTypes, RevertStoreAssumption DEF LeaseInv, CompState, RevertStoreAssumption
  <1>2. pending.lease > 0
    BY <1>1, NamedDocs
  <1>3. pending # NoRevert
    BY <1>2 DEF NoRevert
  <1> QED BY <1>2, <1>3, NamedDocs DEF LeaseInv

-----------------------------------------------------------------------------
(* The records of an incident.                                             *)

\* The heal of i armed its record, and is not delivered again unless it fails now.
Armed(i) == i \in healed \/ (healer.pc = "armed" /\ healer.inc = i)

\* How often a record of i was written, at most: by the heals that failed half way,
\* by the one that did not, by the approved fixes.
Records(i) == broken[i] + rewrites[i] + (IF Armed(i) THEN 1 ELSE 0)

\* The heal under way is of an incident that is not done.
HealerInv == healer.pc # "idle" => healer.inc \notin healed

LEMMA RecordsTypes ==
  ASSUME TypeInv, NEW i \in Incident
  PROVE  /\ Records(i) \in Nat /\ broken[i] \in Nat /\ rewrites[i] \in Nat
         /\ credits[i] \in Nat /\ undone[i] \in Nat
         /\ uncounted[i] \in Nat /\ unclosed[i] \in Nat
         /\ Records(i) <= 1 + broken[i] + rewrites[i]
         /\ Records(i) = broken[i] + rewrites[i] + (IF Armed(i) THEN 1 ELSE 0)
  BY DEF TypeInv, RevertTypeOK, Records

\* Arming a record and writing one back make one more.
LEMMA RecordsArmed ==
  ASSUME TypeInv, HealerInv, Arm, NEW i \in Incident
  PROVE  Records(i)' = IF i = healer.inc THEN Records(i) + 1 ELSE Records(i)
  <1>1. /\ healer'.pc = "armed" /\ healer'.inc = healer.inc /\ healer.inc \notin healed
        /\ healer.pc # "armed" /\ UNCHANGED <<healed, broken, rewrites>>
    BY DEF Arm, HealerInv, TypeInv, RevertTypeOK, HealState, ghosts, tally
  <1> QED BY <1>1, RecordsTypes DEF Records, Armed

LEMMA RecordsWritten ==
  ASSUME TypeInv, FixWrite, NEW i \in Incident
  PROVE  Records(i)' = IF i = rearm.inc THEN Records(i) + 1 ELSE Records(i)
  <1>1. rearm.inc \in Incident
    BY WrittenRecord
  <1>2. rewrites'[i] = IF i = rearm.inc THEN rewrites[i] + 1 ELSE rewrites[i]
    BY <1>1, Counted DEF FixWrite, TypeInv, RevertTypeOK
  <1>3. UNCHANGED <<healer, healed, broken>>
    BY DEF FixWrite
  <1> QED BY <1>2, <1>3, RecordsTypes DEF Records, Armed

\* A heal that fails makes room for the record its next delivery arms, unless it had
\* none yet.
LEMMA RecordsFailed ==
  ASSUME TypeInv, HealerInv, HealFails, NEW i \in Incident
  PROVE  /\ broken'[i] = IF i = healer.inc THEN broken[i] + 1 ELSE broken[i]
         /\ ~(healer'.pc = "armed") /\ UNCHANGED healed
         /\ Records(i)' = IF i = healer.inc /\ healer.pc # "armed"
                          THEN Records(i) + 1 ELSE Records(i)
  <1>1. healer.inc \in Incident /\ healer.inc \notin healed
    BY DEF HealFails, TypeInv, LocalsOK, HealerInv
  <1>2. broken'[i] = IF i = healer.inc THEN broken[i] + 1 ELSE broken[i]
    BY <1>1, Counted DEF HealFails, TypeInv, RevertTypeOK
  <1>3. healer'.pc = "idle" /\ UNCHANGED <<healed, rewrites>>
    BY DEF HealFails, IdleHeal
  <1> QED BY <1>1, <1>2, <1>3, RecordsTypes DEF Records, Armed

\* No step takes a record or a failure off the tallies.
LEMMA RecordsGrow ==
  ASSUME TypeInv, HealerInv, [Next]_vars
  PROVE  /\ HealerInv'
         /\ \A i \in Incident :
              /\ Records(i) <= Records(i)' /\ broken[i] <= broken'[i]
              /\ Armed(i) => Armed(i)' \/ broken'[i] > 0
  <1> USE DEF cloud, ghosts, tally
  <1> DEFINE Grows == \A i \in Incident :
                        /\ Records(i) <= Records(i)' /\ broken[i] <= broken'[i]
                        /\ Armed(i) => Armed(i)' \/ broken'[i] > 0
  <1>1. ASSUME UNCHANGED <<broken, rewrites>>, \A i \in Incident : Armed(i)' <=> Armed(i)
        PROVE  Grows
    <2>1. ASSUME NEW i \in Incident PROVE Records(i)' = Records(i) /\ broken'[i] = broken[i]
      BY <1>1 DEF Records
    <2> QED BY <1>1, <2>1, RecordsTypes
  <1>2. ASSUME UNCHANGED <<healer, healed, broken, rewrites>>
        PROVE  HealerInv' /\ Grows
    BY <1>1, <1>2 DEF HealerInv, Armed
  <1>3. CASE UNCHANGED vars
    BY <1>2, <1>3 DEF vars
  <1>4. CASE HealStep
    <2>1. ASSUME NEW i \in Incident, Rollback(i) PROVE HealerInv' /\ Grows
      <3>1. /\ healer.pc = "idle" /\ healer'.pc = "rolled" /\ healer'.inc = i
            /\ i \notin healed /\ UNCHANGED <<healed, broken, rewrites>>
        BY <2>1 DEF Rollback
      <3> QED BY <1>1, <3>1 DEF HealerInv, Armed
    <2>2. CASE SaveApproval \/ (\E ok \in BOOLEAN : Verified(ok))
      <3>1. /\ healer.pc \in {"rolled", "arm"} /\ healer'.pc \in {"arm", "filed"}
            /\ healer'.inc = healer.inc /\ UNCHANGED <<healed, broken, rewrites>>
        BY <2>2, HealerMoves DEF SaveApproval, Verified
      <3> QED BY <1>1, <3>1 DEF HealerInv, Armed
    <2>3. CASE Arm
      <3>1. /\ healer'.pc = "armed" /\ healer'.inc = healer.inc /\ healer.pc \in {"arm", "filed"}
            /\ UNCHANGED <<healed, broken>>
        BY <2>3, HealerMoves DEF Arm
      <3>2. HealerInv'
        BY <3>1 DEF HealerInv
      <3>3. ASSUME NEW i \in Incident
            PROVE  /\ Records(i) <= Records(i)' /\ broken[i] <= broken'[i]
                   /\ Armed(i) => Armed(i)'
        BY <2>3, <3>1, RecordsArmed, RecordsTypes DEF Armed
      <3> QED BY <3>2, <3>3
    <2>4. CASE FinishHeal
      <3>1. /\ healer.pc = "armed" /\ healer'.pc = "idle"
            /\ healed' = healed \cup {healer.inc} /\ UNCHANGED <<broken, rewrites>>
        BY <2>4, HealerMoves DEF FinishHeal
      <3> QED BY <1>1, <3>1 DEF HealerInv, Armed
    <2>5. CASE HealFails
      <3>1. healer'.pc = "idle"
        BY <2>5, HealerMoves DEF HealFails
      <3>2. HealerInv'
        BY <3>1 DEF HealerInv
      <3>3. ASSUME NEW i \in Incident
            PROVE  /\ Records(i) <= Records(i)' /\ broken[i] <= broken'[i]
                   /\ Armed(i) => Armed(i)' \/ broken'[i] > 0
        BY <2>5, RecordsFailed, RecordsTypes DEF Armed
      <3> QED BY <3>2, <3>3
    <2> QED BY <1>4, <2>1, <2>2, <2>3, <2>4, <2>5 DEF HealStep
  <1>5. CASE FixWrite
    <2>1. UNCHANGED <<healer, healed, broken>>
      BY <1>5 DEF FixWrite
    <2>2. ASSUME NEW i \in Incident
          PROVE  /\ Records(i) <= Records(i)' /\ broken[i] <= broken'[i]
                 /\ Armed(i) => Armed(i)'
      BY <1>5, <2>1, RecordsWritten, RecordsTypes DEF Armed
    <2> QED BY <2>1, <2>2 DEF HealerInv
  <1>6. CASE \/ Deploy \/ Tick \/ (\E level \in GrantLevels : Grant(level))
             \/ (\E i \in Incident : FixRead(i) \/ FixDropped(i)) \/ FixFails
    BY <1>2, <1>6 DEF Deploy, Tick, Grant, FixRead, FixDropped, FixFails
  <1>7. ASSUME NEW c \in Completer, CompStep(c) PROVE HealerInv' /\ Grows
    <2>1. CASE Begin(c)
      BY <1>2, <2>1 DEF Begin
    <2>2. CASE ~Begin(c)
      BY <1>2, <1>7, <2>2, CompletionMoves
    <2> QED BY <2>1, <2>2
  <1> QED BY <1>3, <1>4, <1>5, <1>6, <1>7 DEF Next

LEMMA InitHealer == Init => HealerInv
  BY DEF Init, HealerInv, IdleHeal

\* A completion that fails is missed where it failed.
LEMMA UnfinishedCounted ==
  ASSUME TypeInv, NEW f \in [Incident -> Nat], NEW c \in Completer, Active(c), NEW at,
         NEW i \in Incident
  PROVE  Unfinished(f, c, at)[i] =
           IF comp[c].pc = at /\ comp[c].inc = i THEN f[i] + 1 ELSE f[i]
  <1>1. comp[c].inc \in Incident
    BY DEF TypeInv, LocalsOK
  <1> QED BY <1>1, Counted DEF Unfinished
-----------------------------------------------------------------------------
(* The cap on compensations.                                               *)

\* How often the completions of i may have moved the traffic back.
Cap(i) == MaxUndoAttempts * Records(i) + uncounted[i]

\* The compensation of i that bump_attempts is about to count.
Owed(i) ==
  IF \E c \in Completer : comp[c].pc = "bump" /\ comp[c].inc = i THEN 1 ELSE 0

\* Where a completion still has a compensation ahead of it.
Undoing == {"select", "split", "gate", "compensate"}

\* The record of an incident accounts for its compensations, up to those that earlier
\* records and lost counts account for; and a completion that may still compensate
\* has not used the cap up.
UndoInv ==
  \A i \in Incident :
    /\ undone[i] <= Cap(i)
    /\ pending.inc = i =>
         undone[i] + MaxUndoAttempts <= pending.attempts + Cap(i) + Owed(i)
    /\ \A c \in Completer :
         comp[c].pc \in Undoing /\ comp[c].inc = i => undone[i] < Cap(i)

LEMMA Scaled ==
  ASSUME NEW m \in Nat, NEW r \in Nat, NEW s \in Nat
  PROVE  m * r \in Nat /\ m * (r + 1) = m * r + m /\ (r <= s => m * r <= m * s)
  <1>1. m * r \in Nat /\ m * (r + 1) = m * r + m
    OBVIOUS
  <1>2. ASSUME r <= s PROVE m * r <= m * s
    <2>1. s - r \in Nat /\ m * s = m * r + m * (s - r)
      BY <1>2
    <2>2. m * (s - r) \in Nat /\ m * s \in Nat
      BY <2>1
    <2> QED BY <1>1, <2>1, <2>2
  <1> QED BY <1>1, <1>2

LEMMA CapTypes ==
  ASSUME TypeInv, NEW i \in Incident
  PROVE  /\ Cap(i) \in Nat /\ Owed(i) \in {0, 1} /\ MaxUndoAttempts \in Nat
         /\ undone[i] \in Nat /\ pending.attempts \in Nat
         /\ Cap(i) <= MaxUndoAttempts * (1 + broken[i] + rewrites[i]) + uncounted[i]
  <1>1. MaxUndoAttempts \in Nat
    BY RevertStoreAssumption DEF RevertStoreAssumption
  <1>2. /\ Records(i) \in Nat /\ 1 + broken[i] + rewrites[i] \in Nat /\ uncounted[i] \in Nat
        /\ Records(i) <= 1 + broken[i] + rewrites[i]
    BY RecordsTypes
  <1>3. /\ MaxUndoAttempts * Records(i) \in Nat
        /\ MaxUndoAttempts * (1 + broken[i] + rewrites[i]) \in Nat
        /\ MaxUndoAttempts * Records(i) <= MaxUndoAttempts * (1 + broken[i] + rewrites[i])
    BY <1>1, <1>2, Scaled
  <1>4. Cap(i) <= MaxUndoAttempts * (1 + broken[i] + rewrites[i]) + uncounted[i] /\ Cap(i) \in Nat
    BY <1>2, <1>3 DEF Cap
  <1> QED BY <1>1, <1>4, NamedDocs, RecordsTypes DEF Owed

\* The cap grows with the records and with the counts that were lost.
LEMMA CapGrows ==
  ASSUME TypeInv, TypeInv', NEW i \in Incident, Records(i) <= Records(i)',
         uncounted[i] <= uncounted'[i]
  PROVE  /\ Cap(i) + (uncounted'[i] - uncounted[i]) <= Cap(i)'
         /\ Cap(i)' \in Nat
         /\ Records(i)' = Records(i) + 1 => Cap(i) + MaxUndoAttempts <= Cap(i)'
  <1>1. MaxUndoAttempts \in Nat /\ Records(i) \in Nat /\ uncounted[i] \in Nat
    BY RecordsTypes, RevertStoreAssumption DEF RevertStoreAssumption
  <1>2. Records(i)' \in Nat /\ uncounted'[i] \in Nat
    BY DEF TypeInv, RevertTypeOK, Records
  <1>3. /\ MaxUndoAttempts * Records(i) \in Nat /\ MaxUndoAttempts * (Records(i)') \in Nat
        /\ MaxUndoAttempts * Records(i) <= MaxUndoAttempts * (Records(i)')
        /\ MaxUndoAttempts * (Records(i) + 1) = MaxUndoAttempts * Records(i) + MaxUndoAttempts
    BY <1>1, <1>2, Scaled
  <1>4. /\ Cap(i) = MaxUndoAttempts * Records(i) + uncounted[i]
        /\ Cap(i)' = MaxUndoAttempts * (Records(i)') + uncounted'[i]
    BY DEF Cap
  <1> HIDE DEF Cap, Records
  <1>5. ASSUME Records(i)' = Records(i) + 1 PROVE Cap(i) + MaxUndoAttempts <= Cap(i)'
    <2>1. MaxUndoAttempts * (Records(i)') = MaxUndoAttempts * Records(i) + MaxUndoAttempts
      BY <1>3, <1>5
    <2> QED BY <1>1, <1>2, <1>3, <1>4, <2>1
  <1> QED BY <1>1, <1>2, <1>3, <1>4, <1>5

\* Only the completion under way can owe a count.
LEMMA OwedBy ==
  ASSUME TypeInv, LeaseInv, BoundedCompletions, NEW c \in Completer, Active(c), NEW i
  PROVE  Owed(i) = IF comp[c].pc = "bump" /\ comp[c].inc = i THEN 1 ELSE 0
  <1>1. \A b \in Completer : comp[b].pc = "bump" => b = c
    BY DEF LeaseInv, Active
  <1> QED BY <1>1 DEF Owed

\* A step that neither moves traffic back nor counts that, and starts no completion.
Inert ==
  /\ UNCHANGED undone
  /\ \/ pending'.inc = NoIncident
     \/ pending'.inc = pending.inc /\ pending'.attempts = pending.attempts
  /\ \A i \in Incident :
       Cap(i) <= Cap(i)' /\ Cap(i)' \in Nat /\ Cap(i) + Owed(i) <= Cap(i)' + Owed(i)'
  /\ \A c \in Completer :
       comp'[c].pc \in Undoing => comp[c].pc \in Undoing /\ comp'[c].inc = comp[c].inc

LEMMA InertStep ==
  ASSUME TypeInv, TypeInv', UndoInv, Inert PROVE UndoInv'
  <1> SUFFICES ASSUME NEW i \in Incident
               PROVE  /\ undone'[i] <= Cap(i)'
                      /\ pending'.inc = i =>
                           undone'[i] + MaxUndoAttempts <= pending'.attempts + Cap(i)' + Owed(i)'
                      /\ \A c \in Completer :
                           comp'[c].pc \in Undoing /\ comp'[c].inc = i => undone'[i] < Cap(i)'
    BY DEF UndoInv
  <1>1. /\ Cap(i) \in Nat /\ Owed(i) \in {0, 1} /\ MaxUndoAttempts \in Nat
        /\ undone[i] \in Nat /\ pending.attempts \in Nat
    BY CapTypes
  <1>2. /\ Cap(i) <= Cap(i)' /\ Cap(i) + Owed(i) <= Cap(i)' + Owed(i)' /\ Cap(i)' \in Nat
        /\ Owed(i)' \in {0, 1} /\ undone'[i] = undone[i]
    BY DEF Inert, Owed
  <1> HIDE DEF Cap, Owed
  <1>3. undone'[i] <= Cap(i)'
    BY <1>1, <1>2 DEF UndoInv
  <1>4. ASSUME pending'.inc = i
        PROVE  undone'[i] + MaxUndoAttempts <= pending'.attempts + Cap(i)' + Owed(i)'
    <2>1. pending.inc = i /\ pending'.attempts = pending.attempts
      BY <1>4, RevertStoreAssumption DEF Inert, RevertStoreAssumption
    <2>2. undone[i] + MaxUndoAttempts <= pending.attempts + Cap(i) + Owed(i)
      BY <2>1 DEF UndoInv
    <2> QED BY <1>1, <1>2, <2>1, <2>2
  <1>5. ASSUME NEW c \in Completer, comp'[c].pc \in Undoing, comp'[c].inc = i
        PROVE  undone'[i] < Cap(i)'
    <2>1. undone[i] < Cap(i)
      BY <1>5 DEF Inert, UndoInv
    <2> QED BY <1>1, <1>2, <2>1
  <1> QED BY <1>3, <1>4, <1>5

\* A record of i is written: the count starts again, and the cap has grown by as much.
LEMMA WriteStep ==
  ASSUME TypeInv, UndoInv, NEW i \in Incident, UNCHANGED <<comp, undone, uncounted>>,
         pending'.inc = i, pending'.attempts \in Nat,
         \A j \in Incident : Cap(j) <= Cap(j)' /\ Cap(j)' \in Nat,
         Cap(i) + MaxUndoAttempts <= Cap(i)'
  PROVE  UndoInv'
  <1>1. ASSUME NEW j \in Incident PROVE undone'[j] <= Cap(j)'
    BY <1>1, CapTypes DEF UndoInv
  <1>2. undone'[i] + MaxUndoAttempts <= pending'.attempts + Cap(i)' + Owed(i)'
    <2>1. Owed(i)' \in {0, 1} /\ undone'[i] = undone[i]
      BY DEF Owed
    <2>2. /\ undone[i] <= Cap(i) /\ Cap(i) \in Nat /\ MaxUndoAttempts \in Nat
          /\ undone[i] \in Nat /\ Cap(i)' \in Nat
      BY CapTypes DEF UndoInv
    <2> HIDE DEF Cap, Owed
    <2> QED BY <2>1, <2>2
  <1>3. ASSUME NEW j \in Incident, NEW c \in Completer, comp'[c].pc \in Undoing, comp'[c].inc = j
        PROVE  undone'[j] < Cap(j)'
    BY <1>3, CapTypes DEF UndoInv
  <1> QED BY <1>1, <1>2, <1>3 DEF UndoInv


\* The tally of lost counts never shrinks.
LEMMA UncountedGrows ==
  ASSUME TypeInv, [Next]_vars, NEW i \in Incident PROVE uncounted[i] <= uncounted'[i]
  <1> USE DEF cloud, ghosts, tally
  <1>1. uncounted[i] \in Nat
    BY RecordsTypes
  <1>2. CASE UNCHANGED uncounted
    BY <1>1, <1>2
  <1>3. ASSUME NEW c \in Completer, Raise(c) \/ Die(c) PROVE uncounted[i] <= uncounted'[i]
    <2>1. uncounted' = Unfinished(uncounted, c, "bump") /\ Active(c)
      BY <1>3 DEF Raise, Die, Active, OpenPc
    <2>2. uncounted \in [Incident -> Nat]
      BY DEF TypeInv, RevertTypeOK
    <2> QED BY <1>1, <2>1, <2>2, UnfinishedCounted
  <1>4. CASE HealStep
    BY <1>2, <1>4 DEF HealStep, Rollback, Verified, SaveApproval, Arm, FinishHeal, HealFails
  <1>5. ASSUME NEW c \in Completer, CompStep(c), ~Raise(c), ~Die(c) PROVE UNCHANGED uncounted
    BY <1>5 DEF CompStep, Begin, GiveUp, Select, NoCandidate, Split, GatePasses, GateFails,
                Compensate, Bump, Demote, Credit, Close, Unlock
  <1>6. CASE \/ Deploy \/ Tick \/ (\E level \in GrantLevels : Grant(level)) \/ FixWrite
             \/ (\E i_1 \in Incident : FixRead(i_1) \/ FixDropped(i_1)) \/ FixFails
    BY <1>2, <1>6 DEF Deploy, Tick, Grant, FixWrite, FixRead, FixDropped, FixFails
  <1> QED BY <1>2, <1>3, <1>4, <1>5, <1>6 DEF Next, vars

LEMMA BeginStep ==
  ASSUME TypeInv, TypeInv', LeaseInv, UndoInv, BoundedCompletions,
         \A i \in Incident : Cap(i)' = Cap(i),
         NEW c \in Completer, Begin(c)
  PROVE  UndoInv'
  <1>1. pending \in Revert /\ comp \in [Completer -> CompState] /\ pending.lease = 0
    BY DEF Begin, MayComplete, TypeInv, RevertTypeOK
  <1>2. pending'.inc = pending.inc /\ pending'.attempts = pending.attempts
    BY <1>1 DEF Begin, BeginComplete, Revert
  <1>3. /\ comp'[c].inc = pending.inc /\ comp'[c].pc \in {"giveup", "select"}
        /\ comp'[c].pc \in Undoing => pending.attempts < MaxUndoAttempts
    BY <1>1, RevertStoreAssumption DEF Begin, Undoing, Revert, RevertStoreAssumption
  <1>4. \A b \in Completer : ~Active(b)
    BY <1>1, Claimed
  <1>5. \A b \in Completer \ {c} : comp'[b] = comp[b]
    BY <1>1 DEF Begin
  <1>6. \A i \in Incident : Owed(i) = 0 /\ Owed(i)' = 0 /\ undone'[i] = undone[i]
    BY <1>3, <1>4, <1>5 DEF Owed, Active, Begin, ghosts, tally
  <1> HIDE DEF Cap, Owed
  <1>7. ASSUME NEW i \in Incident
        PROVE  /\ undone'[i] <= Cap(i)'
               /\ pending'.inc = i =>
                    undone'[i] + MaxUndoAttempts <= pending'.attempts + Cap(i)' + Owed(i)'
    BY <1>2, <1>6 DEF UndoInv
  <1>8. ASSUME NEW i \in Incident, NEW b \in Completer, comp'[b].pc \in Undoing, comp'[b].inc = i
        PROVE  undone'[i] < Cap(i)'
    <2>1. b = c
      BY <1>4, <1>5, <1>8 DEF Active, Undoing
    <2>2. undone[i] + MaxUndoAttempts <= pending.attempts + Cap(i) + Owed(i)
      BY <1>3, <1>8, <2>1 DEF UndoInv
    <2>3. pending.attempts < MaxUndoAttempts
      BY <1>3, <1>8, <2>1
    <2>4. /\ Cap(i) \in Nat /\ MaxUndoAttempts \in Nat /\ undone[i] \in Nat
          /\ pending.attempts \in Nat
      BY CapTypes
    <2> QED BY <1>6, <2>2, <2>3, <2>4
  <1> QED BY <1>7, <1>8 DEF UndoInv

\* The traffic is moved back: that uses the cap up by one, and owes a count.
LEMMA CompensateStep ==
  ASSUME TypeInv, LeaseInv, UndoInv, BoundedCompletions,
         \A i \in Incident : Cap(i)' = Cap(i),
         NEW c \in Completer, Compensate(c)
  PROVE  UndoInv'
  <1>1. /\ Active(c) /\ comp[c].pc = "compensate" /\ comp[c].inc \in Incident
        /\ Goto(c, "bump") /\ UNCHANGED pending
    BY DEF Compensate, Active, TypeInv, LocalsOK
  <1>2. /\ comp'[c].pc = "bump" /\ comp'[c].inc = comp[c].inc
        /\ \A b \in Completer \ {c} : comp'[b].pc = "idle"
    BY <1>1, GotoLocals, Claimed DEF Active
  <1>3. ASSUME NEW i \in Incident
        PROVE  /\ undone'[i] = IF i = comp[c].inc THEN undone[i] + 1 ELSE undone[i]
               /\ Owed(i) = 0 /\ Owed(i)' = IF i = comp[c].inc THEN 1 ELSE 0
    <2>1. undone'[i] = IF i = comp[c].inc THEN undone[i] + 1 ELSE undone[i]
      BY <1>1, Counted DEF Compensate, TypeInv, RevertTypeOK
    <2>2. Owed(i) = 0
      BY <1>1, OwedBy
    <2>3. Owed(i)' = IF i = comp[c].inc THEN 1 ELSE 0
      BY <1>2 DEF Owed
    <2> QED BY <2>1, <2>2, <2>3
  <1> HIDE DEF Cap, Owed
  <1>4. ASSUME NEW i \in Incident
        PROVE  /\ undone'[i] <= Cap(i)'
               /\ pending'.inc = i =>
                    undone'[i] + MaxUndoAttempts <= pending'.attempts + Cap(i)' + Owed(i)'
    <2>1. /\ undone[i] <= Cap(i) /\ (i = comp[c].inc => undone[i] < Cap(i))
          /\ pending.inc = i =>
               undone[i] + MaxUndoAttempts <= pending.attempts + Cap(i) + Owed(i)
      BY <1>1 DEF UndoInv, Undoing
    <2>2. /\ Cap(i) \in Nat /\ MaxUndoAttempts \in Nat /\ undone[i] \in Nat
          /\ pending.attempts \in Nat
      BY CapTypes
    <2> QED BY <1>1, <1>3, <2>1, <2>2
  <1>5. \A b \in Completer : comp'[b].pc \notin Undoing
    BY <1>2 DEF Undoing
  <1> QED BY <1>4, <1>5 DEF UndoInv

\* The count that was owed is on the record.
LEMMA BumpStep ==
  ASSUME TypeInv, LeaseInv, UndoInv, BoundedCompletions,
         \A i \in Incident : Cap(i)' = Cap(i),
         NEW c \in Completer, Bump(c)
  PROVE  UndoInv'
  <1>1. /\ Active(c) /\ Goto(c, "demote") /\ UNCHANGED undone
        /\ pending' = BumpAttempts(pending)
    BY DEF Bump, Active, ghosts, tally
  <1>2. /\ comp'[c].pc = "demote"
        /\ \A b \in Completer \ {c} : comp'[b].pc = "idle"
        /\ pending # NoRevert
    BY <1>1, GotoLocals, Claimed DEF Active
  <1>3. pending'.inc = pending.inc /\ pending'.attempts = pending.attempts + 1
    BY <1>1, <1>2, BumpedRecord
  <1>4. \A i \in Incident : Owed(i)' = 0
    BY <1>2 DEF Owed
  <1> HIDE DEF Cap, Owed
  <1>5. ASSUME NEW i \in Incident
        PROVE  /\ undone'[i] <= Cap(i)'
               /\ pending'.inc = i =>
                    undone'[i] + MaxUndoAttempts <= pending'.attempts + Cap(i)' + Owed(i)'
    <2>1. /\ undone[i] <= Cap(i)
          /\ pending.inc = i =>
               undone[i] + MaxUndoAttempts <= pending.attempts + Cap(i) + Owed(i)
      BY DEF UndoInv
    <2>2. /\ Cap(i) \in Nat /\ MaxUndoAttempts \in Nat /\ undone[i] \in Nat
          /\ pending.attempts \in Nat /\ Owed(i) \in {0, 1}
      BY CapTypes
    <2> QED BY <1>1, <1>3, <1>4, <2>1, <2>2
  <1>6. \A b \in Completer : comp'[b].pc \notin Undoing
    BY <1>2 DEF Undoing
  <1> QED BY <1>5, <1>6 DEF UndoInv

LEMMA UndoStep ==
  ASSUME TypeInv, TypeInv', LeaseInv, HealerInv, UndoInv, BoundedCompletions, [Next]_vars
  PROVE  UndoInv'
  <1> USE DEF cloud, ghosts, tally
  <1>1. ASSUME NEW i \in Incident
        PROVE  /\ Cap(i) + (uncounted'[i] - uncounted[i]) <= Cap(i)' /\ Cap(i)' \in Nat
               /\ uncounted[i] <= uncounted'[i]
               /\ Records(i)' = Records(i) + 1 => Cap(i) + MaxUndoAttempts <= Cap(i)'
               /\ Cap(i) \in Nat /\ Cap(i) <= Cap(i)'
    <2>1. Records(i) <= Records(i)' /\ uncounted[i] <= uncounted'[i]
      BY RecordsGrow, UncountedGrows
    <2>2. uncounted[i] \in Nat /\ uncounted'[i] \in Nat /\ Cap(i) \in Nat
      BY RecordsTypes, CapTypes DEF TypeInv, RevertTypeOK
    <2>3. /\ Cap(i) + (uncounted'[i] - uncounted[i]) <= Cap(i)' /\ Cap(i)' \in Nat
          /\ Records(i)' = Records(i) + 1 => Cap(i) + MaxUndoAttempts <= Cap(i)'
      BY <2>1, CapGrows
    <2> HIDE DEF Cap, Records
    <2> QED BY <2>1, <2>2, <2>3
  <1>2. ASSUME UNCHANGED <<healer, healed, broken, rewrites, uncounted>>
        PROVE  \A i \in Incident : Cap(i)' = Cap(i)
    BY <1>2 DEF Cap, Records, Armed
  <1>3. ASSUME UNCHANGED undone,
               \/ pending'.inc = NoIncident
               \/ pending'.inc = pending.inc /\ pending'.attempts = pending.attempts,
               \A c \in Completer : comp'[c].pc = comp[c].pc /\ comp'[c].inc = comp[c].inc
        PROVE  UndoInv'
    <2>1. \A i \in Incident : Owed(i)' = Owed(i) /\ Owed(i) \in {0, 1}
      BY <1>3 DEF Owed
    <2> HIDE DEF Cap, Owed
    <2>2. ASSUME NEW i \in Incident PROVE Cap(i) + Owed(i) <= Cap(i)' + Owed(i)'
      BY <1>1, <2>1
    <2>3. Inert
      BY <1>1, <1>3, <2>2 DEF Inert
    <2> QED BY <2>3, InertStep
  <1>4. ASSUME UNCHANGED <<undone, pending, comp>> PROVE UndoInv'
    BY <1>3, <1>4
  <1>5. CASE UNCHANGED vars
    BY <1>4, <1>5 DEF vars
  <1>6. CASE HealStep
    <2>1. CASE Arm
      <3>1. PICK i \in Incident : i = healer.inc /\ pending'.inc = i
        BY <2>1, ArmedRecord
      <3>2. pending'.attempts \in Nat /\ UNCHANGED <<comp, undone, uncounted>>
        BY <2>1, ArmedRecord, NamedDocs DEF Arm
      <3>3. Records(i)' = Records(i) + 1
        BY <2>1, <3>1, RecordsArmed
      <3>4. Cap(i) + MaxUndoAttempts <= Cap(i)'
        BY <1>1, <3>3
      <3> HIDE DEF Cap
      <3> QED BY <1>1, <3>1, <3>2, <3>4, WriteStep
    <2>2. CASE ~Arm
      BY <1>4, <1>6, <2>2
         DEF HealStep, Rollback, Verified, SaveApproval, FinishHeal, HealFails, Outcome
    <2> QED BY <2>1, <2>2
  <1>7. CASE \/ Deploy \/ (\E level \in GrantLevels : Grant(level))
             \/ (\E i \in Incident : FixRead(i) \/ FixDropped(i)) \/ FixFails
    BY <1>4, <1>7 DEF Deploy, Grant, FixRead, FixDropped, FixFails
  <1>8. CASE FixWrite
    <2>1. PICK i \in Incident : i = rearm.inc /\ pending'.inc = i
      BY <1>8, WrittenRecord
    <2>2. pending'.attempts \in Nat /\ UNCHANGED <<comp, undone, uncounted>>
      BY <1>8, WrittenRecord, NamedDocs DEF FixWrite
    <2>3. Records(i)' = Records(i) + 1
      BY <1>8, <2>1, RecordsWritten
    <2>4. Cap(i) + MaxUndoAttempts <= Cap(i)'
      BY <1>1, <2>3
    <2> HIDE DEF Cap
    <2> QED BY <1>1, <2>1, <2>2, <2>4, WriteStep
  <1>9. CASE Tick
    BY <1>3, <1>9, RecordKept, TickLocals DEF Tick
  <1>10. ASSUME NEW c \in Completer, CompStep(c), ~Begin(c), ~Compensate(c), ~Bump(c)
         PROVE  UndoInv'
    <2>1. /\ Active(c) /\ \A b \in Completer \ {c} : comp'[b].pc = "idle"
          /\ comp'[c] = IdleComp \/ comp'[c].inc = comp[c].inc
      BY <1>10, CompletionMoves, Claimed DEF Active
    <2>2. UNCHANGED undone
      BY <1>10 DEF CompStep, GiveUp, Select, NoCandidate, Split, GatePasses, GateFails,
                   Demote, Credit, Close, Unlock, Raise, Die, Outcome
    <2>3. \/ pending'.inc = NoIncident
          \/ pending'.inc = pending.inc /\ pending'.attempts = pending.attempts
      <3>1. CASE GiveUp(c) \/ Close(c)
        BY <3>1, NamedDocs DEF GiveUp, Close, EndComplete
      <3>2. CASE Unlock(c)
        BY <3>2, RecordKept DEF Unlock
      <3>3. CASE UNCHANGED pending
        BY <3>3
      <3> QED
        BY <1>10, <3>1, <3>2, <3>3
           DEF CompStep, Select, NoCandidate, Split, GatePasses, GateFails, Demote, Credit,
               Raise, Die
    <2>4. ASSUME NEW b \in Completer, comp'[b].pc \in Undoing
          PROVE  comp[b].pc \in Undoing /\ comp'[b].inc = comp[b].inc
      <3>1. b = c /\ comp'[c].inc = comp[c].inc
        BY <2>1, <2>4 DEF Undoing, IdleComp
      <3>2. CASE GiveUp(c) \/ Close(c) \/ Unlock(c) \/ Die(c)
        <4>1. comp' = [comp EXCEPT ![c] = IdleComp]
          BY <3>2 DEF GiveUp, Close, Unlock, Die
        <4>2. comp'[c].pc = "idle"
          BY <4>1 DEF TypeInv, RevertTypeOK, IdleComp
        <4> QED BY <2>4, <3>1, <4>2 DEF Undoing
      <3>3. CASE NoCandidate(c) \/ Demote(c) \/ Credit(c) \/ Raise(c)
        <4>1. \E label \in {"unlock", "close"} : Goto(c, label)
          BY <3>3 DEF NoCandidate, Demote, Credit, Raise
        <4> QED BY <2>4, <3>1, <4>1, GotoLocals DEF Undoing
      <3>4. CASE Select(c) \/ Split(c) \/ GatePasses(c) \/ GateFails(c)
        BY <3>1, <3>4 DEF Select, Split, GatePasses, GateFails, Undoing
      <3> QED BY <1>10, <3>2, <3>3, <3>4 DEF CompStep
    <2>5. ASSUME NEW i \in Incident PROVE Cap(i) + Owed(i) <= Cap(i)' + Owed(i)'
      <3>1. Owed(i)' \in {0, 1}
        BY DEF Owed
      <3>2. Owed(i) = IF comp[c].pc = "bump" /\ comp[c].inc = i THEN 1 ELSE 0
        BY <2>1, OwedBy
      <3>3. comp[c].pc = "bump" /\ comp[c].inc = i => uncounted'[i] = uncounted[i] + 1
        <4>1. SUFFICES ASSUME comp[c].pc = "bump", comp[c].inc = i
                       PROVE  uncounted'[i] = uncounted[i] + 1
          OBVIOUS
        <4>2. uncounted' = Unfinished(uncounted, c, "bump")
          BY <1>10, <4>1
             DEF CompStep, GiveUp, Select, NoCandidate, Split, GatePasses, GateFails,
                 Demote, Credit, Close, Unlock, Raise, Die
        <4> QED BY <2>1, <4>1, <4>2, UnfinishedCounted DEF TypeInv, RevertTypeOK
      <3>4. uncounted[i] \in Nat /\ uncounted'[i] \in Nat
        BY DEF TypeInv, RevertTypeOK
      <3> HIDE DEF Cap, Owed
      <3> QED BY <1>1, <3>1, <3>2, <3>3, <3>4
    <2>6. Inert
      BY <1>1, <2>2, <2>3, <2>4, <2>5 DEF Inert
    <2> QED BY <2>6, InertStep
  <1>11. ASSUME NEW c \in Completer, Begin(c) \/ Compensate(c) \/ Bump(c) PROVE UndoInv'
    <2>1. \A i \in Incident : Cap(i)' = Cap(i)
      BY <1>2, <1>11 DEF Begin, Compensate, Bump
    <2> QED BY <1>11, <2>1, BeginStep, CompensateStep, BumpStep
  <1> QED
    BY <1>5, <1>6, <1>7, <1>8, <1>9, <1>10, <1>11 DEF Next

\* However heals, requests and approved fixes interleave, and whatever fails, the
\* completions of an incident move the traffic back at most MAX_UNDO_ATTEMPTS times
\* for each record of it: the one of its heal, one for every heal of it that failed half
\* way and was delivered again, one for every time an approved fix wrote it back; and
\* once more for every compensation that failed before bump_attempts counted it.
THEOREM UndoCapHolds == Spec => []CapHolds
  <1> DEFINE Inv == BoundedCompletions => UndoInv
  <1>1. Init => LeaseInv
    BY DEF Init, LeaseInv, Active, IdleComp
  <1>2. Init => Inv
    <2> SUFFICES ASSUME Init PROVE UndoInv
      OBVIOUS
    <2>1. /\ TypeInv /\ \A c \in Completer : comp[c].pc = "idle"
          /\ pending.inc \notin Incident /\ \A i \in Incident : undone[i] = 0
      BY InitType, RevertStoreAssumption
         DEF Init, IdleComp, NoRevert, RevertStoreAssumption
    <2>2. ASSUME NEW i \in Incident PROVE 0 <= Cap(i)
      <3>1. PICK n \in Nat : n = Cap(i)
        BY <2>1, CapTypes
      <3>2. 0 <= n
        OBVIOUS
      <3> QED BY <3>1, <3>2, Zenon
    <2> QED BY <2>1, <2>2 DEF UndoInv, Undoing
  <1>3. TypeInv /\ TypeInv' /\ LeaseInv /\ HealerInv /\ Inv /\ [Next]_vars => Inv'
    BY UndoStep
  <1>4. TypeInv /\ Inv => CapHolds
    <2> SUFFICES ASSUME TypeInv, UndoInv, NEW i \in Incident
                 PROVE  undone[i] <= MaxUndoAttempts * (1 + broken[i] + rewrites[i]) + uncounted[i]
      BY DEF CapHolds
    <2> DEFINE bound == MaxUndoAttempts * (1 + broken[i] + rewrites[i]) + uncounted[i]
    <2>1. undone[i] <= Cap(i) /\ Cap(i) \in Nat /\ undone[i] \in Nat /\ Cap(i) <= bound
      BY CapTypes DEF UndoInv
    <2>2. bound \in Nat
      <3>1. MaxUndoAttempts \in Nat /\ 1 + broken[i] + rewrites[i] \in Nat /\ uncounted[i] \in Nat
        BY RecordsTypes, RevertStoreAssumption DEF RevertStoreAssumption
      <3> QED BY <3>1, Scaled
    <2> HIDE DEF bound, Cap
    <2>3. undone[i] <= bound
      BY <2>1, <2>2
    <2> QED BY <2>3 DEF bound
  <1>5. TypeInv /\ HealerInv /\ [Next]_vars => HealerInv'
    BY RecordsGrow
  <1> HIDE DEF Inv
  <1> QED
    BY <1>1, <1>2, <1>3, <1>4, <1>5, InitType, InitHealer, TypeStep, LeaseStep, PTL DEF Spec

-----------------------------------------------------------------------------
(* The records are those of heals that armed one.                          *)

\* A record or a completion of i is there.
Named(i) ==
  \/ pending.inc = i \/ rearm.inc = i
  \/ \E c \in Completer : Active(c) /\ comp[c].inc = i

\* Every record, and every completion, is of an incident whose heal armed one; it is
\* armed still unless it failed after that.
KnownInv == \A i \in Incident : Named(i) => Armed(i) \/ broken[i] > 0

\* A step that names no incident but those that are named.
LEMMA KnownKept ==
  ASSUME TypeInv, HealerInv, KnownInv, [Next]_vars,
         pending'.inc \in {pending.inc, rearm.inc, NoIncident},
         rearm'.inc \in {pending.inc, rearm.inc, NoIncident},
         \A c \in Completer : comp'[c].pc # "idle" =>
           (Active(c) /\ comp'[c].inc = comp[c].inc) \/ comp'[c].inc = pending.inc
  PROVE  KnownInv'
  <1> SUFFICES ASSUME NEW i \in Incident, Named(i)' PROVE Armed(i)' \/ broken'[i] > 0
    BY DEF KnownInv
  <1>1. Named(i)
    BY RevertStoreAssumption DEF Named, Active, RevertStoreAssumption
  <1>2. Armed(i) \/ broken[i] > 0
    BY <1>1 DEF KnownInv
  <1>3. /\ Armed(i) => Armed(i)' \/ broken'[i] > 0
        /\ broken[i] <= broken'[i] /\ broken[i] \in Nat /\ broken'[i] \in Nat
    BY RecordsGrow, RecordsTypes, TypeStep DEF TypeInv, RevertTypeOK
  <1> HIDE DEF Armed
  <1> QED BY <1>2, <1>3

LEMMA KnownStep ==
  ASSUME TypeInv, HealerInv, KnownInv, [Next]_vars PROVE KnownInv'
  <1> USE DEF cloud, ghosts, tally
  <1>1. ASSUME UNCHANGED <<pending, rearm, comp>> PROVE KnownInv'
    BY <1>1, KnownKept DEF Active
  <1>2. CASE UNCHANGED vars
    BY <1>1, <1>2 DEF vars
  <1>3. CASE HealStep
    <2>1. CASE Arm
      <3>1. /\ pending'.inc = healer.inc /\ healer'.inc = healer.inc /\ healer'.pc = "armed"
            /\ UNCHANGED <<comp, rearm>>
        BY <2>1, ArmedRecord, HealerMoves DEF Arm
      <3>2. ASSUME NEW i \in Incident, Named(i)' PROVE Armed(i)' \/ broken'[i] > 0
        <4>1. CASE i = healer.inc
          BY <3>1, <4>1 DEF Armed
        <4>2. CASE i # healer.inc
          <5>1. Armed(i) \/ broken[i] > 0
            BY <3>1, <3>2, <4>2 DEF KnownInv, Named, Active
          <5>2. UNCHANGED <<healed, broken>>
            BY <2>1 DEF Arm
          <5> QED BY <2>1, <3>1, <4>2, <5>1, <5>2 DEF Armed, Arm
        <4> QED BY <4>1, <4>2
      <3> QED BY <3>2 DEF KnownInv
    <2>2. CASE ~Arm
      BY <1>1, <1>3, <2>2 DEF HealStep, Rollback, Verified, SaveApproval, FinishHeal, HealFails
    <2> QED BY <2>1, <2>2
  <1>4. CASE Deploy \/ (\E level \in GrantLevels : Grant(level))
    BY <1>1, <1>4 DEF Deploy, Grant
  <1>5. CASE (\E i \in Incident : FixRead(i) \/ FixDropped(i)) \/ FixFails
    BY <1>5, KnownKept, NamedDocs DEF FixRead, FixDropped, FixFails, Active
  <1>6. CASE FixWrite
    BY <1>6, KnownKept, WrittenRecord, NamedDocs DEF FixWrite, Active
  <1>7. CASE Tick
    <2>1. pending'.inc = pending.inc /\ UNCHANGED rearm
      BY <1>7, RecordKept DEF Tick
    <2> QED BY <1>7, <2>1, TickLocals, KnownKept DEF Active
  <1>8. ASSUME NEW c \in Completer, CompStep(c) PROVE KnownInv'
    <2>1. CASE Begin(c)
      <3>1. comp \in [Completer -> CompState]
        BY DEF TypeInv, RevertTypeOK
      <3>2. pending'.inc = pending.inc /\ UNCHANGED rearm
        BY <2>1, RecordKept DEF Begin
      <3>3. comp'[c].inc = pending.inc /\ \A b \in Completer \ {c} : comp'[b] = comp[b]
        BY <2>1, <3>1 DEF Begin
      <3> QED BY <3>2, <3>3, KnownKept DEF Active
    <2>2. CASE ~Begin(c)
      <3>1. pending'.inc \in {pending.inc, NoIncident}
        <4>1. CASE GiveUp(c) \/ Close(c)
          BY <4>1, NamedDocs DEF GiveUp, Close, EndComplete
        <4>2. CASE Unlock(c)
          BY <4>2, RecordKept DEF Unlock
        <4>3. CASE Bump(c)
          BY <4>3, BumpedRecord DEF Bump, BumpAttempts
        <4>4. CASE UNCHANGED pending
          BY <4>4
        <4> QED
          BY <1>8, <2>2, <4>1, <4>2, <4>3, <4>4
             DEF CompStep, NoCandidate, GateFails, Compensate, Raise, Demote, Credit, Split,
                 Select, GatePasses, Die
      <3>2. ASSUME NEW b \in Completer, comp'[b].pc # "idle"
            PROVE  Active(b) /\ comp'[b].inc = comp[b].inc
        BY <1>8, <2>2, <3>2, CompletionMoves DEF Active, IdleComp
      <3>3. UNCHANGED rearm
        BY <1>8, <2>2, CompletionMoves
      <3> QED BY <3>1, <3>2, <3>3, KnownKept
    <2> QED BY <2>1, <2>2
  <1> QED
    BY <1>2, <1>3, <1>4, <1>5, <1>6, <1>7, <1>8 DEF Next

LEMMA InitKnown == Init => KnownInv
  BY RevertStoreAssumption
     DEF Init, KnownInv, Named, IdleComp, NoRevert, Active, RevertStoreAssumption

\* The incident of a heal that is about to arm its record is known only if one of its
\* heals failed.
LEMMA KnownBeforeArmed ==
  ASSUME TypeInv, HealerInv, KnownInv, Arm
  PROVE  ~Armed(healer.inc) /\ (Named(healer.inc) => broken[healer.inc] > 0)
  <1>1. ~Armed(healer.inc) /\ healer.inc \in Incident
    BY ArmedRecord DEF Arm, HealerInv, Armed
  <1> QED BY <1>1 DEF KnownInv
-----------------------------------------------------------------------------
(* The pin is tracked.                                                     *)

\* The heal that placed the traffic has not armed the revert yet.
Placing == healer.pc \notin {"idle", "armed"} /\ healer.inc = pin

\* The pin may be forgotten.
Lost == robbed \/ pin = NoIncident \/ broken[pin] > 0

\* A pin nobody has forgotten yet is on record, or its heal is about to put it on
\* record; and a completion that restored the traffic does not take the record of
\* a later pin along without leaving a trace in `robbed'.  The traffic that a
\* completion restored while a heal is at work is pinned by that heal or by nobody.
PinInv ==
  /\ ~Lost /\ ~Placing =>
       /\ pending # NoRevert
       /\ \A c \in Completer : Restored(c) => pending.inc # comp[c].inc
  /\ \A c \in Completer :
       Restored(c) /\ healer.pc # "idle" => pin \in {healer.inc, NoIncident}

\* A step that places no traffic and forgets no record.
LEMMA PinKept ==
  ASSUME PinInv, TypeInv, Lost => Lost', Placing => Placing' \/ Lost', pin' = pin,
         healer'.pc # "idle" => healer.pc # "idle" /\ healer'.inc = healer.inc,
         pending # NoRevert => pending' # NoRevert /\ pending'.inc = pending.inc,
         \A c \in Completer :
           Restored(c)' => Restored(c) /\ comp'[c].inc = comp[c].inc
  PROVE  PinInv'
  BY DEF PinInv

LEMMA PinHealStep ==
  ASSUME TypeInv, HealerInv, KnownInv, PinInv, HealStep PROVE PinInv'
  <1> USE DEF cloud, ghosts, tally
  <1>1. ASSUME UNCHANGED <<pending, comp>>, pin' = pin, Lost => Lost',
               Placing => Placing' \/ Lost',
               healer'.pc # "idle" => healer.pc # "idle" /\ healer'.inc = healer.inc
        PROVE  PinInv'
    BY <1>1, PinKept DEF Restored
  <1>2. ASSUME NEW i \in Incident, Rollback(i) PROVE PinInv'
    BY <1>2 DEF Rollback, PinInv, Placing
  <1>3. ASSUME NEW ok \in BOOLEAN, Verified(ok) PROVE PinInv'
    BY <1>1, <1>3, HealerMoves DEF Verified, Placing, Lost
  <1>4. CASE SaveApproval
    BY <1>1, <1>4, HealerMoves DEF SaveApproval, Placing, Lost
  <1>5. CASE FinishHeal
    BY <1>1, <1>5, HealerMoves DEF FinishHeal, Placing, Lost
  <1>6. CASE HealFails
    <2>1. /\ healer'.pc = "idle" /\ healer.inc \in Incident
          /\ UNCHANGED <<pending, comp, pin, robbed>>
      BY <1>6, HealerMoves DEF HealFails, TypeInv, LocalsOK
    <2>2. \A i \in Incident : /\ broken[i] \in Nat
                             /\ broken'[i] = IF i = healer.inc THEN broken[i] + 1 ELSE broken[i]
      BY <1>6, RecordsFailed, RecordsTypes
    <2>3. pin \in Incident \cup {NoIncident}
      BY DEF TypeInv, RevertTypeOK
    <2>4. (Lost => Lost') /\ (Placing => Lost')
      BY <2>1, <2>2, <2>3 DEF Lost, Placing
    <2> QED BY <1>1, <2>1, <2>4
  <1>7. CASE Arm
    <2>1. /\ pending'.inc = healer.inc /\ healer.inc \in Incident /\ healer.pc # "idle"
          /\ healer'.inc = healer.inc /\ UNCHANGED <<comp, robbed, broken, pin>>
      BY <1>7, ArmedRecord, HealerMoves DEF Arm
    <2>2. pending' # NoRevert
      BY <2>1, RevertStoreAssumption DEF NoRevert, RevertStoreAssumption
    <2>3. ASSUME ~Lost', NEW c \in Completer, Restored(c)' PROVE pending'.inc # comp'[c].inc
      <3>1. Restored(c) /\ Active(c) /\ ~Lost
        BY <2>1, <2>3 DEF Restored, ClosedPc, Active, Lost
      <3>2. pin = healer.inc
        BY <2>1, <3>1 DEF PinInv, Lost
      <3>3. ~Named(healer.inc)
        BY <1>7, <3>1, <3>2, KnownBeforeArmed DEF Lost
      <3> QED BY <2>1, <3>1, <3>3 DEF Named
    <2>4. \A c \in Completer : Restored(c)' => Restored(c)
      BY <2>1 DEF Restored
    <2> QED BY <2>1, <2>2, <2>3, <2>4 DEF PinInv
  <1> QED BY <1>2, <1>3, <1>4, <1>5, <1>6, <1>7 DEF HealStep

LEMMA PinCompletionStep ==
  ASSUME TypeInv, LeaseInv, PinInv, BoundedCompletions,
         NEW c \in Completer, CompStep(c)
  PROVE  PinInv'
  <1> USE DEF cloud, ghosts, tally
  <1>1. comp \in [Completer -> CompState]
    BY DEF TypeInv, RevertTypeOK
  <1>2. CASE Begin(c)
    <2>1. /\ pending'.inc = pending.inc /\ pending'.inc # NoIncident
          /\ UNCHANGED <<healer, robbed, broken, pin>>
      BY <1>2, RecordKept, NamedDocs DEF Begin, MayComplete
    <2>2. pending' # NoRevert
      BY <2>1, NamedDocs
    <2>3. comp'[c].pc \in {"giveup", "select"} /\ \A b \in Completer \ {c} : comp'[b] = comp[b]
      BY <1>1, <1>2 DEF Begin
    <2>4. \A b \in Completer : Restored(b)' => Restored(b) /\ comp'[b].inc = comp[b].inc
      BY <2>3 DEF Restored, ClosedPc
    <2> QED BY <2>1, <2>2, <2>4, PinKept DEF Placing, Lost
  <1>3. ASSUME ~Begin(c) PROVE PinInv'
    <2>1. /\ Active(c) /\ \A b \in Completer \ {c} : comp'[b] = comp[b]
          /\ UNCHANGED healer
      BY <1>3, CompletionMoves
    <2>2. /\ pending # NoRevert /\ pending.inc \in Incident
          /\ \A b \in Completer \ {c} : comp'[b].pc = "idle"
      BY <2>1, Claimed DEF Active
    <2>3. \A b \in Completer \ {c} : ~Restored(b)'
      BY <2>2 DEF Restored, ClosedPc
    <2>4. ASSUME pending' # NoRevert /\ pending'.inc = pending.inc, robbed' = robbed,
                 broken' = broken, pin' = pin,
                 Restored(c)' => Restored(c) /\ comp'[c].inc = comp[c].inc
          PROVE  PinInv'
      BY <2>1, <2>3, <2>4, PinKept DEF Placing, Lost
    <2>5. CASE GiveUp(c)
      <3>1. pin' = (IF robbed' = robbed THEN NoIncident ELSE pin) /\ (robbed => robbed')
        BY <2>5 DEF GiveUp, RobbedBy
      <3>2. robbed \in BOOLEAN /\ robbed' \in BOOLEAN
        BY <2>5 DEF GiveUp, RobbedBy, TypeInv, RevertTypeOK
      <3>3. Lost'
        BY <3>1, <3>2 DEF Lost
      <3>4. ~Restored(c)'
        BY <1>1, <2>5 DEF GiveUp, Restored, ClosedPc, IdleComp
      <3> QED BY <2>3, <3>3, <3>4 DEF PinInv
    <2>6. CASE Close(c)
      <3>1. Restored(c)
        BY <2>6 DEF Close, Restored, ClosedPc
      <3>2. robbed' = (robbed \/ pending.inc # comp[c].inc)
        BY <2>2, <2>6, RevertStoreAssumption DEF Close, RobbedBy, RevertStoreAssumption
      <3>3. UNCHANGED <<pin, broken, healer>>
        BY <2>6 DEF Close
      <3>4. ~Restored(c)'
        BY <1>1, <2>6 DEF Close, Restored, ClosedPc, IdleComp
      <3> QED BY <2>3, <3>1, <3>2, <3>3, <3>4 DEF PinInv, Placing, Lost
    <2>7. CASE Unlock(c) \/ Bump(c)
      <3>1. pending'.inc = pending.inc /\ pending' # NoRevert
        BY <2>2, <2>7, RecordKept, BumpedRecord, NamedDocs, RevertStoreAssumption
           DEF Unlock, Bump, RevertStoreAssumption
      <3>2. ~Restored(c)'
        <4>1. comp'[c] = IdleComp \/ comp'[c].pc = "demote"
          BY <1>1, <2>7, GotoLocals DEF Unlock, Bump
        <4> QED BY <4>1 DEF Restored, ClosedPc, IdleComp
      <3> QED BY <2>4, <2>7, <3>1, <3>2 DEF Unlock, Bump
    <2>8. CASE Die(c)
      <3>1. ~Restored(c)'
        BY <1>1, <2>8 DEF Die, Restored, ClosedPc, IdleComp
      <3> QED BY <2>2, <2>4, <2>8, <3>1 DEF Die
    <2>9. CASE NoCandidate(c) \/ GateFails(c) \/ Demote(c) \/ Raise(c) \/ Credit(c)
      <3>1. /\ UNCHANGED <<pending, robbed, broken, pin>>
            /\ \E label \in {"unlock", "compensate", "close"} :
                 Goto(c, label) /\ (label = "close" => comp[c].pc = "credit")
        BY <2>9 DEF NoCandidate, GateFails, Demote, Raise, Credit
      <3>2. Restored(c)' => Restored(c) /\ comp'[c].inc = comp[c].inc
        BY <3>1, GotoLocals DEF Restored, ClosedPc
      <3> QED BY <2>2, <2>4, <3>1, <3>2
    <2>10. CASE Select(c)
      <3>1. comp'[c].pc = "split"
        BY <1>1, <2>10 DEF Select, CompState
      <3>2. ~Restored(c)'
        BY <3>1 DEF Restored, ClosedPc
      <3> QED BY <2>2, <2>4, <2>10, <3>2 DEF Select
    <2>11. CASE Split(c)
      <3>1. comp'[c].pc = "gate" /\ comp'[c].stage = comp[c].stage
            /\ UNCHANGED <<pending, robbed, broken>>
        BY <2>11, GotoLocals DEF Split
      <3>2. pin' = IF CanaryStages[comp[c].stage] = 100 THEN NoIncident ELSE pin
        BY <2>11 DEF Split
      <3>3. CASE CanaryStages[comp[c].stage] = 100
        BY <3>2, <3>3 DEF PinInv, Lost
      <3>4. CASE CanaryStages[comp[c].stage] # 100
        <4>1. comp[c].stage # Len(CanaryStages)
          BY <3>4, CompleteAssumption DEF CompleteAssumption
        <4>2. ~Restored(c)'
          BY <3>1, <4>1 DEF Restored, ClosedPc
        <4> QED BY <2>2, <2>4, <3>1, <3>2, <3>4, <4>2
      <3> QED BY <3>3, <3>4
    <2>12. CASE GatePasses(c)
      <3>1. UNCHANGED <<pending, robbed, broken, pin>>
        BY <2>12 DEF GatePasses
      <3>2. CASE comp[c].stage = Len(CanaryStages)
        <4>1. Restored(c)
          BY <2>12, <3>2 DEF GatePasses, Restored
        <4>2. comp'[c].inc = comp[c].inc
          BY <1>1, <2>12, <3>2 DEF GatePasses, CompState
        <4> QED BY <2>2, <2>4, <3>1, <4>1, <4>2
      <3>3. CASE comp[c].stage # Len(CanaryStages)
        <4>1. comp'[c].pc = "split"
          BY <1>1, <2>12, <3>3 DEF GatePasses, CompState
        <4>2. ~Restored(c)'
          BY <4>1 DEF Restored, ClosedPc
        <4> QED BY <2>2, <2>4, <3>1, <4>2
      <3> QED BY <3>2, <3>3
    <2>13. CASE Compensate(c)
      <3>1. comp'[c].pc = "bump" /\ UNCHANGED <<pending, robbed, broken>>
        BY <2>13, GotoLocals DEF Compensate
      <3>2. \A b \in Completer : ~Restored(b)'
        BY <2>3, <3>1 DEF Restored, ClosedPc
      <3> QED BY <2>2, <3>1, <3>2 DEF PinInv
    <2> QED
      BY <1>3, <2>5, <2>6, <2>7, <2>8, <2>9, <2>10, <2>11, <2>12, <2>13 DEF CompStep
  <1> QED BY <1>2, <1>3

LEMMA PinStep ==
  ASSUME TypeInv, LeaseInv, HealerInv, KnownInv, PinInv, BoundedCompletions, [Next]_vars
  PROVE  PinInv'
  <1> USE DEF cloud, ghosts, tally
  <1>1. ASSUME UNCHANGED <<pending, comp, healer, robbed, broken, pin>> PROVE PinInv'
    BY <1>1 DEF PinInv, Placing, Restored, Lost
  <1>2. CASE UNCHANGED vars
    BY <1>1, <1>2 DEF vars
  <1>3. CASE \/ Deploy \/ (\E level \in GrantLevels : Grant(level))
             \/ (\E i \in Incident : FixRead(i) \/ FixDropped(i)) \/ FixFails
    BY <1>1, <1>3 DEF Deploy, Grant, FixRead, FixDropped, FixFails
  <1>4. CASE FixWrite
    <2>1. /\ pending'.inc = rearm.inc /\ rearm.inc \in Incident
          /\ (RobbedBy(rearm.inc) => robbed')
          /\ UNCHANGED <<comp, healer, broken, pin>>
      BY <1>4, WrittenRecord DEF FixWrite
    <2>2. pending' # NoRevert
      BY <2>1, RevertStoreAssumption DEF NoRevert, RevertStoreAssumption
    <2>3. (~robbed' => ~robbed /\ (pending # NoRevert => pending'.inc = pending.inc))
      BY <2>1, NamedDocs, Zenon DEF RobbedBy
    <2> QED BY <2>1, <2>2, <2>3 DEF PinInv, Placing, Restored, Lost
  <1>5. CASE Tick
    <2>1. pending'.inc = pending.inc /\ UNCHANGED <<healer, robbed, broken, pin>>
      BY <1>5, RecordKept DEF Tick
    <2>2. pending # NoRevert => pending' # NoRevert
      BY <2>1, NamedDocs
    <2>3. \A c \in Completer : Restored(c)' => Restored(c) /\ comp'[c].inc = comp[c].inc
      BY <1>5, TickLocals DEF Restored
    <2> QED BY <2>1, <2>2, <2>3, PinKept DEF Placing, Lost
  <1> QED
    BY <1>2, <1>3, <1>4, <1>5, PinHealStep, PinCompletionStep DEF Next

\* A pinned service whose pending revert is gone lost it in one of these ways: a heal of
\* the incident that pinned it failed before it was done, or a record of the service
\* was deleted or overwritten by the completion or the approved fix of an earlier one.
THEOREM PinRemembered == Spec => []PinForgottenOnlyBy
  <1> DEFINE Inv == BoundedCompletions => PinInv
  <1>1. Init => LeaseInv
    BY DEF Init, LeaseInv, Active, IdleComp
  <1>2. Init => Inv
    BY DEF Init, PinInv, Lost, IdleComp, Restored, ClosedPc
  <1>3. TypeInv /\ LeaseInv /\ HealerInv /\ KnownInv /\ Inv /\ [Next]_vars => Inv'
    BY PinStep
  <1>4. Inv => PinForgottenOnlyBy
    BY DEF PinInv, PinForgottenOnlyBy, PinTracked, Placing, Quiet, Lost
  <1>5. TypeInv /\ HealerInv /\ [Next]_vars => HealerInv'
    BY RecordsGrow
  <1>6. TypeInv /\ HealerInv /\ KnownInv /\ [Next]_vars => KnownInv'
    BY KnownStep
  <1> HIDE DEF Inv
  <1> QED
    BY <1>1, <1>2, <1>3, <1>4, <1>5, <1>6, InitType, InitHealer, InitKnown, TypeStep,
       LeaseStep, PTL DEF Spec
-----------------------------------------------------------------------------
(* A torn canary split is tracked.                                         *)

\* No revision serves all the traffic: a canary is under way, or was torn off.
Torn == \A r \in Rev : traffic[r] < 100

LEMMA AllOnIsWhole == ASSUME NEW r \in Rev, traffic' = AllOn(r) PROVE ~Torn'
  <1>1. traffic'[r] = 100
    BY DEF AllOn
  <1> QED BY <1>1 DEF Torn

\* A torn split is on record, and the record has attempts left, so that the next
\* request does not give it up: who compensates makes the traffic whole before
\* counting the attempt, and a fix that is written back brings no larger count, unless
\* a heal failed and armed the record anew.
TornInv ==
  /\ \A i \in Incident :
       pending.inc = i /\ rearm.inc = i /\ broken[i] = 0 => rearm.attempts <= pending.attempts
  /\ \A c \in Completer : comp[c].pc \in Undoing => pending.attempts < MaxUndoAttempts
  /\ ~robbed /\ Torn =>
       /\ pending # NoRevert /\ pending.attempts < MaxUndoAttempts
       /\ \A c \in Completer : ~Restored(c) /\ comp[c].pc \notin {"bump", "giveup"}

\* A step that keeps the record and takes no completion where a torn split must not be.
LEMMA TornKept ==
  ASSUME TypeInv, TornInv, robbed => robbed', Torn' => Torn,
         pending # NoRevert => pending' # NoRevert,
         pending'.inc = pending.inc, pending'.attempts = pending.attempts,
         rearm'.inc = NoIncident \/ rearm' = rearm \/ rearm' = pending,
         broken' = broken,
         \A c \in Completer :
           /\ comp'[c].pc \in Undoing => comp[c].pc \in Undoing
           /\ Torn' /\ ~robbed' => ~Restored(c)' /\ comp'[c].pc \notin {"bump", "giveup"}
  PROVE  TornInv'
  <1>1. \A i \in Incident :
          pending'.inc = i /\ rearm'.inc = i /\ broken'[i] = 0 =>
            rearm'.attempts <= pending'.attempts
    BY NamedDocs, RevertStoreAssumption DEF TornInv, RevertStoreAssumption
  <1>2. \A c \in Completer : comp'[c].pc \in Undoing => pending'.attempts < MaxUndoAttempts
    BY DEF TornInv
  <1>3. ~robbed' /\ Torn' => pending' # NoRevert /\ pending'.attempts < MaxUndoAttempts
    BY DEF TornInv
  <1> QED BY <1>1, <1>2, <1>3 DEF TornInv

LEMMA TornHealStep ==
  ASSUME TypeInv, HealerInv, KnownInv, TornInv, HealStep PROVE TornInv'
  <1> USE DEF cloud, ghosts, tally
  <1>1. ASSUME NEW i \in Incident, Rollback(i) PROVE TornInv'
    <2>1. PICK target \in 1..deployed : traffic' = AllOn(target)
      BY <1>1 DEF Rollback
    <2>2. target \in Rev
      BY RevertStoreAssumption DEF TypeInv, RevertTypeOK, Rev, RevertStoreAssumption
    <2>3. ~Torn'
      BY <2>1, <2>2, AllOnIsWhole
    <2> QED BY <1>1, <2>3 DEF Rollback, TornInv
  <1>2. CASE Arm
    <2>1. /\ pending'.inc = healer.inc /\ healer.inc \in Incident
          /\ pending'.attempts = IF pending.lease > 0 THEN pending.attempts ELSE 0
          /\ UNCHANGED <<comp, robbed, broken, traffic, rearm>>
      BY <1>2, ArmedRecord DEF Arm
    <2>2. pending' # NoRevert
      BY <2>1, RevertStoreAssumption DEF NoRevert, RevertStoreAssumption
    <2>3. pending.attempts < MaxUndoAttempts => pending'.attempts < MaxUndoAttempts
      BY <2>1, NamedDocs, RevertStoreAssumption DEF RevertStoreAssumption
    <2>4. ASSUME NEW i \in Incident, pending'.inc = i, rearm'.inc = i PROVE broken'[i] > 0
      BY <1>2, <2>1, <2>4, KnownBeforeArmed DEF Named
    <2>5. \A i \in Incident : ~(broken'[i] > 0 /\ broken'[i] = 0)
      OBVIOUS
    <2> QED BY <2>1, <2>2, <2>3, <2>4, <2>5 DEF TornInv, Torn, Restored
  <1>3. CASE FinishHeal \/ SaveApproval \/ (\E ok \in BOOLEAN : Verified(ok))
    BY <1>3 DEF FinishHeal, SaveApproval, Verified, TornInv, Torn, Restored
  <1>4. CASE HealFails
    <2>1. UNCHANGED <<pending, rearm, comp, robbed, traffic>>
      BY <1>4 DEF HealFails
    <2>2. \A i \in Incident : broken'[i] = 0 => broken[i] = 0
      BY <1>4, RecordsFailed, RecordsTypes
    <2> QED BY <2>1, <2>2 DEF TornInv, Torn, Restored
  <1> QED BY <1>1, <1>2, <1>3, <1>4 DEF HealStep

LEMMA TornCompletionStep ==
  ASSUME TypeInv, LeaseInv, TornInv, BoundedCompletions, NEW c \in Completer, CompStep(c)
  PROVE  TornInv'
  <1> USE DEF cloud, ghosts, tally
  <1>1. comp \in [Completer -> CompState]
    BY DEF TypeInv, RevertTypeOK
  <1>2. CASE Begin(c)
    <2>1. /\ pending'.inc = pending.inc /\ pending'.inc # NoIncident
          /\ pending'.attempts = pending.attempts
          /\ UNCHANGED <<traffic, rearm, robbed, broken>>
      BY <1>2, RecordKept, NamedDocs DEF Begin, MayComplete
    <2>2. /\ pending' # NoRevert
          /\ pending.attempts < MaxUndoAttempts \/ pending.attempts >= MaxUndoAttempts
      BY <2>1, NamedDocs, RevertStoreAssumption DEF RevertStoreAssumption
    <2>3. /\ \A b \in Completer \ {c} : comp'[b] = comp[b]
          /\ comp'[c].pc = IF pending.attempts >= MaxUndoAttempts THEN "giveup" ELSE "select"
      BY <1>1, <1>2 DEF Begin
    <2>4. ~(pending.attempts < MaxUndoAttempts /\ pending.attempts >= MaxUndoAttempts)
      BY NamedDocs, RevertStoreAssumption DEF RevertStoreAssumption
    <2>5. ASSUME ~robbed', Torn', NEW b \in Completer
          PROVE  ~Restored(b)' /\ comp'[b].pc \notin {"bump", "giveup"}
      <3>1. ~robbed /\ Torn
        BY <2>1, <2>5 DEF Torn
      <3> QED BY <2>3, <2>4, <3>1 DEF TornInv, Restored, ClosedPc
    <2>6. \A b \in Completer : comp'[b].pc \in Undoing => pending'.attempts < MaxUndoAttempts
      BY <2>1, <2>2, <2>3 DEF TornInv, Undoing
    <2> QED BY <2>1, <2>2, <2>5, <2>6 DEF TornInv, Torn
  <1>3. ASSUME ~Begin(c) PROVE TornInv'
    <2>1. /\ Active(c) /\ \A b \in Completer \ {c} : comp'[b] = comp[b]
          /\ UNCHANGED <<rearm, broken>>
      BY <1>3, CompletionMoves
    <2>2. /\ pending # NoRevert /\ pending.inc \in Incident
          /\ \A b \in Completer \ {c} : comp'[b].pc = "idle"
      BY <2>1, Claimed DEF Active
    <2>3. \A b \in Completer \ {c} :
            ~Restored(b)' /\ comp'[b].pc \notin {"bump", "giveup"} /\ comp'[b].pc \notin Undoing
      BY <2>2 DEF Restored, ClosedPc, Undoing
    <2>4. ASSUME pending' # NoRevert, pending'.inc = pending.inc,
                 pending'.attempts = pending.attempts, robbed' = robbed, Torn' => Torn,
                 comp'[c].pc \in Undoing => comp[c].pc \in Undoing,
                 Torn' /\ ~robbed' => ~Restored(c)' /\ comp'[c].pc \notin {"bump", "giveup"}
          PROVE  TornInv'
      <3>1. ASSUME NEW b \in Completer
            PROVE  /\ comp'[b].pc \in Undoing => comp[b].pc \in Undoing
                   /\ Torn' /\ ~robbed' => ~Restored(b)' /\ comp'[b].pc \notin {"bump", "giveup"}
        <4>1. CASE b = c
          BY <2>4, <4>1
        <4>2. CASE b # c
          BY <2>3, <4>2
        <4> QED BY <4>1, <4>2
      <3> QED BY <2>1, <2>4, <3>1, TornKept
    <2>5. CASE GiveUp(c) \/ Close(c)
      <3>1. pending' = NoRevert /\ (robbed => robbed') /\ UNCHANGED <<traffic>>
        BY <2>5 DEF GiveUp, Close, EndComplete, RobbedBy
      <3>2. ~robbed => ~Torn
        BY <2>5 DEF GiveUp, Close, TornInv, Restored, ClosedPc
      <3>3. comp'[c] = IdleComp
        BY <1>1, <2>5 DEF GiveUp, Close
      <3>4. \A b \in Completer : comp'[b].pc \notin Undoing
        BY <2>3, <3>3 DEF Undoing, IdleComp
      <3>5. pending'.inc \notin Incident
        BY <3>1, RevertStoreAssumption DEF NoRevert, RevertStoreAssumption
      <3>6. ~robbed' => ~Torn'
        BY <3>1, <3>2 DEF Torn
      <3> QED BY <3>4, <3>5, <3>6 DEF TornInv
    <2>6. CASE Unlock(c)
      <3>1. pending'.inc = pending.inc /\ pending'.attempts = pending.attempts
        BY <2>6, RecordKept DEF Unlock
      <3>2. pending' # NoRevert
        BY <2>2, <3>1, NamedDocs, RevertStoreAssumption DEF RevertStoreAssumption
      <3>3. comp'[c] = IdleComp /\ UNCHANGED <<traffic, robbed>>
        BY <1>1, <2>6 DEF Unlock
      <3> QED BY <2>4, <3>1, <3>2, <3>3 DEF IdleComp, Undoing, Restored, ClosedPc, Torn
    <2>7. CASE Die(c)
      <3>1. comp'[c] = IdleComp /\ UNCHANGED <<traffic, robbed, pending>>
        BY <1>1, <2>7 DEF Die
      <3> QED BY <2>2, <2>4, <3>1 DEF IdleComp, Undoing, Restored, ClosedPc, Torn
    <2>8. CASE Bump(c)
      <3>1. pending'.inc = pending.inc /\ pending'.attempts = pending.attempts + 1
        BY <2>2, <2>8, BumpedRecord DEF Bump
      <3>2. comp'[c].pc = "demote" /\ comp[c].pc = "bump" /\ UNCHANGED <<traffic, robbed>>
        BY <2>8, GotoLocals DEF Bump
      <3>3. \A b \in Completer : comp'[b].pc \notin Undoing
        BY <2>3, <3>2 DEF Undoing
      <3>4. \A i \in Incident :
              pending'.inc = i /\ rearm'.inc = i /\ broken'[i] = 0 =>
                rearm'.attempts <= pending'.attempts
        BY <2>1, <3>1, NamedDocs DEF TornInv
      <3>5. ~robbed' => ~Torn'
        BY <3>2 DEF TornInv, Torn
      <3> QED BY <2>1, <3>1, <3>3, <3>4, <3>5 DEF TornInv
    <2>9. CASE NoCandidate(c) \/ GateFails(c) \/ Demote(c) \/ Raise(c) \/ Credit(c)
      <3>1. /\ UNCHANGED <<pending, robbed, traffic>>
            /\ \E label \in {"unlock", "compensate", "close"} :
                 /\ Goto(c, label) /\ (label = "close" => comp[c].pc = "credit")
                 /\ (label = "compensate" => comp[c].pc = "gate")
        BY <2>9 DEF NoCandidate, GateFails, Demote, Raise, Credit
      <3>2. PICK label \in {"unlock", "compensate", "close"} :
              /\ comp'[c].pc = label /\ (label = "close" => comp[c].pc = "credit")
              /\ (label = "compensate" => comp[c].pc = "gate")
        BY <3>1, GotoLocals
      <3>3. comp'[c].pc \in Undoing => comp[c].pc \in Undoing
        BY <3>2 DEF Undoing
      <3>4. Torn' /\ ~robbed' => ~Restored(c)' /\ comp'[c].pc \notin {"bump", "giveup"}
        BY <3>1, <3>2 DEF TornInv, Torn, Restored, ClosedPc
      <3>5. Torn' => Torn
        BY <3>1 DEF Torn
      <3> QED BY <2>2, <2>4, <3>1, <3>3, <3>4, <3>5
    <2>10. CASE Select(c)
      <3>1. comp'[c].pc = "split" /\ UNCHANGED <<pending, robbed, traffic>>
        BY <1>1, <2>10 DEF Select, CompState
      <3> QED BY <2>2, <2>4, <2>10, <3>1 DEF Select, Undoing, Restored, ClosedPc, Torn
    <2>11. CASE Split(c)
      <3>1. /\ comp'[c].pc = "gate" /\ comp'[c].stage = comp[c].stage
            /\ comp[c].pc = "split" /\ comp[c].cand \in Rev
            /\ UNCHANGED <<pending, robbed, rearm, broken>>
        BY <2>11, GotoLocals DEF Split, TypeInv, LocalsOK
      <3>2. traffic'[comp[c].cand] = CanaryStages[comp[c].stage]
        BY <2>11, <3>1 DEF Split
      <3>3. comp[c].stage = Len(CanaryStages) => ~Torn'
        BY <3>1, <3>2, CompleteAssumption DEF CompleteAssumption, Torn
      <3>4. pending.attempts < MaxUndoAttempts
        BY <3>1 DEF TornInv, Undoing
      <3>5. ASSUME Torn', NEW b \in Completer
            PROVE  ~Restored(b)' /\ comp'[b].pc \notin {"bump", "giveup"}
        <4>1. CASE b = c
          BY <3>1, <3>3, <3>5, <4>1 DEF Restored, ClosedPc
        <4>2. CASE b # c
          BY <2>3, <4>2
        <4> QED BY <4>1, <4>2
      <3>6. \A b \in Completer : comp'[b].pc \in Undoing => pending'.attempts < MaxUndoAttempts
        BY <3>1, <3>4
      <3> QED BY <2>2, <3>1, <3>4, <3>5, <3>6 DEF TornInv
    <2>12. CASE GatePasses(c)
      <3>1. comp[c].pc = "gate" /\ UNCHANGED <<pending, robbed, traffic>>
        BY <2>12 DEF GatePasses
      <3>2. comp'[c].pc \in ClosedPc \cup {"split"}
            /\ (comp'[c].pc \in ClosedPc => comp[c].stage = Len(CanaryStages))
        BY <1>1, <2>12 DEF GatePasses, CompState, ClosedPc
      <3>3. Torn' /\ ~robbed' => ~Restored(c)' /\ comp'[c].pc \notin {"bump", "giveup"}
        BY <3>1, <3>2 DEF TornInv, Torn, Restored, ClosedPc
      <3>4. comp[c].pc \in Undoing /\ (Torn' => Torn)
        BY <3>1 DEF Undoing, Torn
      <3> QED BY <2>2, <2>4, <3>1, <3>3, <3>4
    <2>13. CASE Compensate(c)
      <3>1. /\ comp'[c].pc = "bump" /\ comp[c].pc = "compensate" /\ comp[c].safe \in Rev
            /\ traffic' = AllOn(comp[c].safe) /\ UNCHANGED <<pending, robbed>>
        BY <2>1, <2>13, GotoLocals DEF Compensate, TypeInv, LocalsOK
      <3>2. ~Torn'
        BY <3>1, AllOnIsWhole
      <3> QED BY <2>2, <2>4, <3>1, <3>2 DEF Undoing
    <2> QED
      BY <1>3, <2>5, <2>6, <2>7, <2>8, <2>9, <2>10, <2>11, <2>12, <2>13 DEF CompStep
  <1> QED BY <1>2, <1>3

LEMMA TornStep ==
  ASSUME TypeInv, LeaseInv, HealerInv, KnownInv, TornInv, BoundedCompletions, [Next]_vars
  PROVE  TornInv'
  <1> USE DEF cloud, ghosts, tally
  <1>1. ASSUME UNCHANGED <<pending, comp, rearm, robbed, broken, traffic>> PROVE TornInv'
    BY <1>1 DEF TornInv, Torn, Restored
  <1>2. CASE UNCHANGED vars
    BY <1>1, <1>2 DEF vars
  <1>3. CASE Deploy \/ (\E level \in GrantLevels : Grant(level))
             \/ (\E i \in Incident : FixDropped(i))
    BY <1>1, <1>3 DEF Deploy, Grant, FixDropped
  <1>4. CASE (\E i \in Incident : FixRead(i)) \/ FixFails
    <2>1. /\ rearm' = pending \/ rearm' = NoRevert
          /\ UNCHANGED <<pending, comp, robbed, broken, traffic>>
      BY <1>4 DEF FixRead, FixFails
    <2>2. \A i \in Incident :
            pending'.inc = i /\ rearm'.inc = i /\ broken'[i] = 0 =>
              rearm'.attempts <= pending'.attempts
      BY <2>1, NamedDocs, RevertStoreAssumption DEF RevertStoreAssumption
    <2> QED BY <2>1, <2>2 DEF TornInv, Torn, Restored
  <1>5. CASE FixWrite
    <2>1. /\ pending'.inc = rearm.inc /\ rearm.inc \in Incident
          /\ pending'.attempts = IF pending.lease > 0 THEN pending.attempts ELSE rearm.attempts
          /\ (RobbedBy(rearm.inc) \/ ReadBeforeRearm => robbed')
          /\ rearm' = NoRevert /\ UNCHANGED <<comp, traffic>>
      BY <1>5, WrittenRecord DEF FixWrite
    <2>2. pending' # NoRevert /\ rearm'.inc # pending'.inc
      BY <2>1, NamedDocs, RevertStoreAssumption DEF NoRevert, RevertStoreAssumption
    <2>3. ASSUME ~robbed', Torn'
          PROVE  /\ pending'.attempts < MaxUndoAttempts
                 /\ \A c \in Completer : ~Restored(c)' /\ comp'[c].pc \notin {"bump", "giveup"}
      <3>1. ~robbed /\ Torn /\ (pending # NoRevert => rearm.inc = pending.inc)
        <4>1. ~RobbedBy(rearm.inc)
          BY <2>1, <2>3
        <4> QED BY <2>1, <2>3, <4>1, NamedDocs DEF RobbedBy, Torn
      <3>2. /\ pending.inc = rearm.inc /\ pending.attempts < MaxUndoAttempts
            /\ rearm.attempts <= pending.attempts
        <4>1. pending.inc = rearm.inc /\ pending.attempts < MaxUndoAttempts
          BY <2>1, <3>1 DEF TornInv
        <4>2. PICK i \in Incident : i = rearm.inc
          BY <2>1
        <4>3. broken[i] \in Nat /\ pending.attempts \in Nat /\ rearm.attempts \in Nat
          BY RecordsTypes, NamedDocs
        <4>4. CASE broken[i] = 0
          BY <4>1, <4>2, <4>4 DEF TornInv
        <4>5. CASE broken[i] > 0
          <5>1. ~ReadBeforeRearm
            BY <2>1, <2>3
          <5> QED BY <4>1, <4>2, <4>3, <4>5, <5>1 DEF ReadBeforeRearm
        <4> QED BY <4>1, <4>3, <4>4, <4>5
      <3>3. pending'.attempts < MaxUndoAttempts
        BY <2>1, <3>2, NamedDocs, RevertStoreAssumption DEF RevertStoreAssumption
      <3>4. \A c \in Completer : ~Restored(c)' /\ comp'[c].pc \notin {"bump", "giveup"}
        BY <2>1, <3>1 DEF TornInv, Restored
      <3> QED BY <3>3, <3>4
    <2>4. ASSUME NEW c \in Completer, comp'[c].pc \in Undoing
          PROVE  pending'.attempts < MaxUndoAttempts
      <3>1. comp[c].pc \in Undoing /\ Active(c)
        BY <2>1, <2>4 DEF Undoing, Active
      <3> QED BY <2>1, <3>1, Claimed DEF TornInv
    <2> QED BY <2>2, <2>3, <2>4 DEF TornInv
  <1>6. CASE Tick
    <2>1. /\ pending'.inc = pending.inc /\ pending'.attempts = pending.attempts
          /\ UNCHANGED <<rearm, robbed, broken, traffic>>
      BY <1>6, RecordKept DEF Tick
    <2>2. pending # NoRevert => pending' # NoRevert
      BY <2>1, NamedDocs
    <2>3. \A c \in Completer : comp'[c].pc = comp[c].pc /\ (Restored(c)' <=> Restored(c))
      BY <1>6, TickLocals DEF Restored
    <2>4. Torn' => Torn
      BY <2>1 DEF Torn
    <2>5. Torn' /\ ~robbed' =>
            \A c \in Completer : ~Restored(c)' /\ comp'[c].pc \notin {"bump", "giveup"}
      BY <2>1, <2>3, <2>4 DEF TornInv
    <2> QED BY <2>1, <2>2, <2>3, <2>4, <2>5, TornKept
  <1> QED
    BY <1>2, <1>3, <1>4, <1>5, <1>6, TornHealStep, TornCompletionStep DEF Next

\* A canary split that nobody works on is never forgotten: the pending revert is
\* there for the next request to finish or to compensate, as long as the service was
\* robbed of no record (another incident's taken along, or an older count of the same
\* incident's brought back).
THEOREM TornSplitsTracked == Spec => []TornSplitTracked
  <1> DEFINE Inv == BoundedCompletions => TornInv
  <1>1. Init => LeaseInv
    BY DEF Init, LeaseInv, Active, IdleComp
  <1>2. Init => Inv
    <2> SUFFICES ASSUME Init PROVE TornInv
      OBVIOUS
    <2>1. traffic[2] = 100 /\ 2 \in Rev
      BY CompleteAssumption, RevertStoreAssumption
         DEF Init, AllOn, Rev, CompleteAssumption, RevertStoreAssumption
    <2> QED
      BY <2>1, RevertStoreAssumption
         DEF Init, TornInv, Torn, NoRevert, IdleComp, Undoing, RevertStoreAssumption
  <1>3. TypeInv /\ LeaseInv /\ HealerInv /\ KnownInv /\ Inv /\ [Next]_vars => Inv'
    BY TornStep
  <1>4. Inv => TornSplitTracked
    BY DEF TornInv, TornSplitTracked, Torn
  <1>5. TypeInv /\ HealerInv /\ [Next]_vars => HealerInv'
    BY RecordsGrow
  <1>6. TypeInv /\ HealerInv /\ KnownInv /\ [Next]_vars => KnownInv'
    BY KnownStep
  <1> HIDE DEF Inv
  <1> QED
    BY <1>1, <1>2, <1>3, <1>4, <1>5, <1>6, InitType, InitHealer, InitKnown, TypeStep,
       LeaseStep, PTL DEF Spec
-----------------------------------------------------------------------------
(* An incident is credited once.                                           *)

\* The heal under way verified the rollback of i, and has not armed the record yet.
Earned(i) ==
  IF healer.pc \in {"arm", "filed"} /\ healer.inc = i /\ healer.ok THEN 1 ELSE 0

\* How often i may have been credited: once for each record of it, for each completion
\* that died before it closed one, and by the heal whose record is not there yet.
Due(i) == Records(i) + unclosed[i] + Earned(i)

\* The completion credited the incident, or found that it need not.
Settled(c, i) == comp[c].pc = "close" /\ comp[c].inc = i

\* A verified heal is credited by _verify and counted on its record; of a heal that
\* was not, the close still owes the credit: as long as it does, the credits stay one
\* behind what is due.
CreditInv ==
  /\ \A c \in Completer : comp[c].pc = "credit" => CloseSettlement /\ ~comp[c].counted
  /\ \A i \in Incident :
       /\ credits[i] <= Due(i)
       /\ CloseSettlement /\ pending.inc = i /\ ~pending.counted
            /\ (\A c \in Completer : ~Settled(c, i)) => credits[i] < Due(i)
       /\ \A c \in Completer :
            CloseSettlement /\ Active(c) /\ comp[c].inc = i /\ ~comp[c].counted
              /\ comp[c].pc # "close" => credits[i] < Due(i)

LEMMA DueTypes ==
  ASSUME TypeInv, NEW i \in Incident
  PROVE  /\ Due(i) \in Nat /\ credits[i] \in Nat
         /\ Due(i) <= 1 + broken[i] + unclosed[i] + rewrites[i] + Earned(i)
         /\ Earned(i) \in {0, 1} /\ Due(i) = Records(i) + unclosed[i] + Earned(i)
  <1>1. Earned(i) \in {0, 1}
    BY DEF Earned
  <1> HIDE DEF Records, Earned
  <1> QED BY <1>1, RecordsTypes DEF Due

\* The tally of records left open never shrinks.
LEMMA UnclosedGrows ==
  ASSUME TypeInv, [Next]_vars, NEW i \in Incident PROVE unclosed[i] <= unclosed'[i]
  <1> USE DEF cloud, ghosts, tally
  <1>1. unclosed[i] \in Nat
    BY RecordsTypes
  <1>2. CASE UNCHANGED unclosed
    BY <1>1, <1>2
  <1>3. ASSUME NEW c \in Completer, Die(c) PROVE unclosed[i] <= unclosed'[i]
    <2>1. unclosed' = Unfinished(unclosed, c, "close") /\ Active(c)
      BY <1>3 DEF Die
    <2>2. unclosed \in [Incident -> Nat]
      BY DEF TypeInv, RevertTypeOK
    <2> QED BY <1>1, <2>1, <2>2, UnfinishedCounted
  <1>4. CASE HealStep
    BY <1>2, <1>4 DEF HealStep, Rollback, Verified, SaveApproval, Arm, FinishHeal, HealFails
  <1>5. ASSUME NEW c \in Completer, CompStep(c), ~Die(c) PROVE UNCHANGED unclosed
    BY <1>5 DEF CompStep, Begin, GiveUp, Select, NoCandidate, Split, GatePasses, GateFails,
                Compensate, Bump, Demote, Credit, Close, Unlock, Raise
  <1>6. CASE \/ Deploy \/ Tick \/ (\E level \in GrantLevels : Grant(level)) \/ FixWrite
             \/ (\E i_1 \in Incident : FixRead(i_1) \/ FixDropped(i_1)) \/ FixFails
    BY <1>2, <1>6 DEF Deploy, Tick, Grant, FixWrite, FixRead, FixDropped, FixFails
  <1> QED BY <1>2, <1>3, <1>4, <1>5, <1>6 DEF Next, vars

\* What is due never shrinks, and what brings a credit back makes one more due.
LEMMA DueGrows ==
  ASSUME TypeInv, TypeInv', HealerInv, [Next]_vars, NEW i \in Incident
  PROVE  /\ Due(i) <= Due(i)' /\ Due(i)' \in Nat
         /\ Verified(TRUE) /\ healer.inc = i => Due(i) < Due(i)'
         /\ Arm /\ ~healer.ok /\ healer.inc = i => Due(i) < Due(i)'
         /\ FixWrite /\ rearm.inc = i => Due(i) < Due(i)'
         /\ \A c \in Completer :
              Die(c) /\ comp[c].pc = "close" /\ comp[c].inc = i => Due(i) < Due(i)'
  <1> USE DEF cloud, ghosts, tally
  <1>1. /\ Records(i) \in Nat /\ unclosed[i] \in Nat
        /\ Records(i) <= Records(i)' /\ unclosed[i] <= unclosed'[i]
    BY RecordsTypes, RecordsGrow, UnclosedGrows
  <1>2. Records(i)' \in Nat /\ unclosed'[i] \in Nat
    BY DEF TypeInv, RevertTypeOK, Records
  <1>3. /\ Earned(i) \in {0, 1} /\ Earned(i)' \in {0, 1}
        /\ Due(i) = Records(i) + unclosed[i] + Earned(i)
        /\ Due(i)' = Records(i)' + unclosed'[i] + Earned(i)'
    BY DEF Due, Earned
  <1>4. UNCHANGED healer => Earned(i)' = Earned(i)
    BY DEF Earned
  <1>5. SaveApproval => Earned(i)' = Earned(i)
    BY HealerMoves DEF Earned, SaveApproval
  <1>6. /\ Verified(TRUE) => Earned(i) = 0 /\ (healer.inc = i => Earned(i)' = 1)
        /\ (\E ok \in BOOLEAN : Verified(ok)) \/ FinishHeal
             \/ (\E j \in Incident : Rollback(j)) => Earned(i) = 0
    BY HealerMoves DEF Earned, Verified, FinishHeal, Rollback
  <1>7. HealFails /\ Earned(i) = 1 => Records(i)' = Records(i) + 1
    BY RecordsFailed DEF Earned
  <1>8. Arm => /\ Earned(i) = 1 => Records(i)' = Records(i) + 1
               /\ ~healer.ok /\ healer.inc = i =>
                    Earned(i) = 0 /\ Records(i)' = Records(i) + 1
    BY RecordsArmed DEF Earned
  <1>9. FixWrite => UNCHANGED healer /\ (rearm.inc = i => Records(i)' = Records(i) + 1)
    BY RecordsWritten DEF FixWrite
  <1>10. ASSUME NEW c \in Completer, Die(c), comp[c].pc = "close", comp[c].inc = i
         PROVE  UNCHANGED healer /\ unclosed'[i] = unclosed[i] + 1
    <2>1. unclosed \in [Incident -> Nat]
      BY DEF TypeInv, RevertTypeOK
    <2>2. unclosed' = Unfinished(unclosed, c, "close") /\ Active(c) /\ UNCHANGED healer
      BY <1>10 DEF Die
    <2> QED BY <1>10, <2>1, <2>2, UnfinishedCounted
  <1>11. HealStep \/ UNCHANGED healer
    <2>1. ASSUME NEW c \in Completer, CompStep(c) PROVE UNCHANGED healer
      BY <2>1, CompletionMoves DEF Begin
    <2> QED BY <2>1 DEF Next, vars, Deploy, Tick, Grant, FixRead, FixDropped, FixWrite, FixFails
  <1> HIDE DEF Records, Earned, Due
  <1>12. Due(i) <= Due(i)' /\ Due(i)' \in Nat
    <2>1. CASE UNCHANGED healer \/ SaveApproval
      BY <1>1, <1>2, <1>3, <1>4, <1>5, <2>1
    <2>2. CASE Arm \/ HealFails
      BY <1>1, <1>2, <1>3, <1>7, <1>8, <2>2
    <2>3. CASE (\E ok \in BOOLEAN : Verified(ok)) \/ FinishHeal \/ (\E j \in Incident : Rollback(j))
      BY <1>1, <1>2, <1>3, <1>6, <2>3
    <2> QED BY <1>11, <2>1, <2>2, <2>3 DEF HealStep
  <1>13. Verified(TRUE) /\ healer.inc = i => Due(i) < Due(i)'
    BY <1>1, <1>2, <1>3, <1>6
  <1>14. Arm /\ ~healer.ok /\ healer.inc = i => Due(i) < Due(i)'
    BY <1>1, <1>2, <1>3, <1>8
  <1>15. FixWrite /\ rearm.inc = i => Due(i) < Due(i)'
    BY <1>1, <1>2, <1>3, <1>4, <1>9
  <1>16. ASSUME NEW c \in Completer, Die(c), comp[c].pc = "close", comp[c].inc = i
         PROVE  Due(i) < Due(i)'
    BY <1>1, <1>2, <1>3, <1>4, <1>10, <1>16
  <1> QED BY <1>12, <1>13, <1>14, <1>15, <1>16

\* A step that credits nobody, starts no completion and brings no record back.
LEMMA CreditKept ==
  ASSUME TypeInv, CreditInv, UNCHANGED credits,
         \A i \in Incident : Due(i) <= Due(i)' /\ Due(i)' \in Nat,
         \/ pending'.inc = NoIncident
         \/ pending'.inc = pending.inc /\ pending'.counted = pending.counted
         \/ \A i \in Incident : pending'.inc = i /\ ~pending'.counted => Due(i) < Due(i)',
         \A c \in Completer :
           /\ comp'[c].pc # "idle" =>
                /\ Active(c) /\ comp'[c].inc = comp[c].inc /\ comp'[c].counted = comp[c].counted
                /\ comp[c].pc = "close" => comp'[c].pc = "close"
           /\ comp'[c].pc = "credit" => CloseSettlement /\ ~comp[c].counted
           /\ comp[c].pc = "close" /\ comp'[c].pc = "idle" =>
                \/ pending'.inc = NoIncident
                \/ \A i \in Incident : comp[c].inc = i => Due(i) < Due(i)'
  PROVE  CreditInv'
  <1>1. \A c \in Completer : comp'[c].pc = "credit" => CloseSettlement /\ ~comp'[c].counted
    OBVIOUS
  <1>2. ASSUME NEW i \in Incident
        PROVE  /\ Due(i) \in Nat /\ Due(i)' \in Nat /\ credits[i] \in Nat
               /\ credits'[i] = credits[i] /\ Due(i) <= Due(i)' /\ credits[i] <= Due(i)
    BY DueTypes DEF CreditInv
  <1> HIDE DEF Due
  <1>3. ASSUME NEW i \in Incident, credits[i] < Due(i) \/ Due(i) < Due(i)'
        PROVE  credits'[i] < Due(i)'
    BY <1>2, <1>3
  <1>4. ASSUME NEW i \in Incident, CloseSettlement, pending'.inc = i, ~pending'.counted,
               \A c \in Completer : ~Settled(c, i)'
        PROVE  credits'[i] < Due(i)'
    <2>1. i # NoIncident
      BY RevertStoreAssumption DEF RevertStoreAssumption
    <2>2. CASE Due(i) < Due(i)'
      BY <1>3, <2>2
    <2>3. CASE ~(Due(i) < Due(i)')
      <3>1. pending.inc = i /\ ~pending.counted
        BY <1>4, <2>1, <2>3
      <3>2. ASSUME NEW c \in Completer PROVE ~Settled(c, i)
        <4>1. CASE comp'[c].pc = "idle"
          BY <1>4, <2>1, <2>3, <4>1 DEF Settled
        <4>2. CASE comp'[c].pc # "idle"
          BY <1>4, <4>2 DEF Settled
        <4> QED BY <4>1, <4>2
      <3>3. credits[i] < Due(i)
        BY <1>4, <3>1, <3>2 DEF CreditInv
      <3> QED BY <1>3, <3>3
    <2> QED BY <2>2, <2>3
  <1>5. ASSUME NEW i \in Incident, NEW c \in Completer, CloseSettlement,
               comp'[c].pc # "idle", comp'[c].inc = i, ~comp'[c].counted, comp'[c].pc # "close"
        PROVE  credits'[i] < Due(i)'
    <2>1. Active(c) /\ comp[c].inc = i /\ ~comp[c].counted /\ comp[c].pc # "close"
      BY <1>5
    <2>2. credits[i] < Due(i)
      BY <1>5, <2>1 DEF CreditInv
    <2> QED BY <1>3, <2>2
  <1>6. \A i \in Incident : credits'[i] <= Due(i)'
    BY <1>2
  <1> QED BY <1>1, <1>4, <1>5, <1>6 DEF CreditInv, Active

\* The heal credits its incident, and as much more is due.
LEMMA CreditVerifiedStep ==
  ASSUME TypeInv, CreditInv, NEW ok \in BOOLEAN, Verified(ok),
         \A i \in Incident : Due(i) <= Due(i)' /\ Due(i)' \in Nat,
         \A i \in Incident : ok /\ healer.inc = i => Due(i) < Due(i)'
  PROVE  CreditInv'
  <1>1. UNCHANGED <<pending, comp>> /\ healer.inc \in Incident
    BY DEF Verified, TypeInv, LocalsOK, cloud, ghosts
  <1>2. credits' = IF ok THEN Count(credits, healer.inc) ELSE credits
    BY DEF Verified, Outcome
  <1>3. \A i \in Incident :
          /\ ok /\ i = healer.inc => credits'[i] = credits[i] + 1
          /\ ~(ok /\ i = healer.inc) => credits'[i] = credits[i]
    <2>1. CASE ok
      <3>1. credits' = Count(credits, healer.inc)
        BY <1>2, <2>1, Zenon
      <3>2. credits \in [Incident -> Nat] BY DEF TypeInv, RevertTypeOK
      <3>3. \A i \in Incident :
              credits'[i] = IF i = healer.inc THEN credits[i] + 1 ELSE credits[i]
        BY <1>1, <3>1, <3>2, Counted
      <3> HIDE DEF TypeInv
      <3> QED BY <2>1, <3>3
    <2>2. CASE ~ok
      <3>1. credits' = credits
        BY <1>2, <2>2, Zenon
      <3> QED BY <2>2, <3>1
    <2> QED BY <2>1, <2>2
  <1> HIDE <1>2
  <1>4. ASSUME NEW i \in Incident
        PROVE  /\ credits'[i] <= Due(i)'
               /\ credits[i] < Due(i) => credits'[i] < Due(i)'
    <2>1. credits[i] <= Due(i) /\ Due(i) \in Nat /\ credits[i] \in Nat
      BY DueTypes DEF CreditInv
    <2> HIDE DEF Due
    <2> QED BY <1>3, <2>1
  <1> HIDE DEF Due
  <1> QED BY <1>1, <1>4 DEF CreditInv, Settled, Active

LEMMA CreditCompletionStep ==
  ASSUME TypeInv, LeaseInv, CreditInv, BoundedCompletions,
         \A i \in Incident : Due(i) <= Due(i)' /\ Due(i)' \in Nat,
         NEW c \in Completer, CompStep(c),
         \A i \in Incident :
           Die(c) /\ comp[c].pc = "close" /\ comp[c].inc = i => Due(i) < Due(i)'
  PROVE  CreditInv'
  <1> USE DEF cloud, ghosts, tally
  <1>1. comp \in [Completer -> CompState]
    BY DEF TypeInv, RevertTypeOK
  <1>2. CASE Begin(c)
    <2>1. /\ pending'.inc = pending.inc /\ pending.inc # NoIncident
          /\ pending'.counted = pending.counted /\ pending.lease = 0 /\ UNCHANGED credits
      BY <1>2, RecordKept, NamedDocs DEF Begin, MayComplete
    <2>2. \A b \in Completer : ~Active(b)
      BY <2>1, Claimed
    <2>3. /\ comp'[c].pc \in {"giveup", "select"}
          /\ comp'[c].inc = pending.inc /\ comp'[c].counted = pending.counted
          /\ \A b \in Completer \ {c} : comp'[b] = comp[b]
      BY <1>1, <1>2 DEF Begin
    <2>4. \A b \in Completer : comp[b].pc = "idle"
      BY <2>2 DEF Active
    <2>5. \A b \in Completer : comp'[b].pc # "credit"
      BY <2>3, <2>4
    <2>6. \A b \in Completer : comp'[b].pc # "idle" =>
            comp'[b].inc = pending.inc /\ comp'[b].counted = pending.counted
      BY <2>3, <2>4
    <2>7. ASSUME NEW i \in Incident
          PROVE  /\ credits'[i] <= Due(i)'
                 /\ CloseSettlement /\ pending.inc = i /\ ~pending.counted
                      => credits'[i] < Due(i)'
      <3>1. credits[i] <= Due(i) /\ Due(i) \in Nat /\ credits[i] \in Nat
        BY DueTypes DEF CreditInv
      <3>2. CloseSettlement /\ pending.inc = i /\ ~pending.counted => credits[i] < Due(i)
        BY <2>4 DEF CreditInv, Settled
      <3> HIDE DEF Due
      <3> QED BY <2>1, <3>1, <3>2
    <2> HIDE DEF Due
    <2> QED BY <2>1, <2>5, <2>6, <2>7 DEF CreditInv, Active
  <1>3. ASSUME ~Begin(c) PROVE CreditInv'
    <2>1. /\ Active(c) /\ \A b \in Completer \ {c} : comp'[b] = comp[b]
          /\ comp'[c] = IdleComp \/ /\ comp'[c].inc = comp[c].inc
                                    /\ comp'[c].counted = comp[c].counted
                                    /\ comp'[c].pc # "idle"
      BY <1>3, CompletionMoves
    <2>2. \A b \in Completer \ {c} : comp'[b].pc = "idle" /\ comp[b].pc = "idle"
      BY <2>1, Claimed DEF Active
    <2>3. comp[c].inc \in Incident
      BY <2>1 DEF TypeInv, LocalsOK
    <2>4. ASSUME UNCHANGED credits,
                 \/ pending'.inc = NoIncident
                 \/ pending'.inc = pending.inc /\ pending'.counted = pending.counted,
                 comp'[c].pc = "credit" => CloseSettlement /\ ~comp[c].counted,
                 comp[c].pc = "close" =>
                   /\ comp'[c].pc \in {"close", "idle"}
                   /\ comp'[c].pc = "idle" =>
                        \/ pending'.inc = NoIncident
                        \/ \A i \in Incident : comp[c].inc = i => Due(i) < Due(i)'
          PROVE  CreditInv'
      <3>1. ASSUME NEW b \in Completer
            PROVE  /\ comp'[b].pc # "idle" =>
                        /\ Active(b) /\ comp'[b].inc = comp[b].inc
                        /\ comp'[b].counted = comp[b].counted
                        /\ comp[b].pc = "close" => comp'[b].pc = "close"
                   /\ comp'[b].pc = "credit" => CloseSettlement /\ ~comp[b].counted
                   /\ comp[b].pc = "close" /\ comp'[b].pc = "idle" =>
                        \/ pending'.inc = NoIncident
                        \/ \A i \in Incident : comp[b].inc = i => Due(i) < Due(i)'
        <4>1. CASE b = c
          BY <2>1, <2>4, <4>1 DEF IdleComp
        <4>2. CASE b # c
          BY <2>2, <4>2
        <4> QED BY <4>1, <4>2
      <3> QED BY <2>4, <3>1, CreditKept
    <2>5. CASE GiveUp(c) \/ Close(c)
      <3>1. pending'.inc = NoIncident /\ comp'[c] = IdleComp /\ UNCHANGED credits
        BY <1>1, <2>5 DEF GiveUp, Close, EndComplete, NoRevert
      <3> QED BY <2>4, <3>1 DEF IdleComp
    <2>6. CASE Unlock(c)
      <3>1. /\ pending'.inc = pending.inc /\ pending'.counted = pending.counted
            /\ comp'[c] = IdleComp /\ comp[c].pc = "unlock" /\ UNCHANGED credits
        BY <1>1, <2>6, RecordKept DEF Unlock
      <3> QED BY <2>4, <3>1 DEF IdleComp
    <2>7. CASE Die(c)
      <3>1. UNCHANGED <<pending, credits>> /\ comp'[c] = IdleComp
        BY <1>1, <2>7 DEF Die
      <3> QED BY <2>4, <2>7, <3>1 DEF IdleComp
    <2>8. CASE Bump(c)
      <3>1. /\ pending'.inc = pending.inc /\ pending'.counted = pending.counted
            /\ comp'[c].pc = "demote" /\ comp[c].pc = "bump" /\ UNCHANGED credits
        BY <2>1, <2>8, Claimed, BumpedRecord, GotoLocals DEF Bump
      <3> QED BY <2>4, <3>1
    <2>9. CASE NoCandidate(c) \/ GateFails(c) \/ Demote(c) \/ Raise(c) \/ Compensate(c) \/ Split(c)
      <3>1. /\ UNCHANGED <<pending, credits>> /\ comp[c].pc # "close"
            /\ \E label \in CompPc \ {"credit"} : Goto(c, label)
        BY <2>9 DEF NoCandidate, GateFails, Demote, Raise, Compensate, Split, Outcome,
                    CompPc, OpenPc, ClosedPc
      <3>2. comp'[c].pc # "credit"
        BY <3>1, GotoLocals
      <3> QED BY <2>4, <3>1, <3>2
    <2>10. CASE Select(c)
      <3>1. comp'[c].pc = "split" /\ comp[c].pc = "select" /\ UNCHANGED <<pending, credits>>
        BY <1>1, <2>10 DEF Select, CompState
      <3> QED BY <2>4, <3>1
    <2>11. CASE GatePasses(c)
      <3>1. comp[c].pc = "gate" /\ UNCHANGED <<pending, credits>>
        BY <2>11 DEF GatePasses
      <3>2. comp'[c].pc = "credit" => CloseSettlement /\ ~comp[c].counted
        BY <1>1, <2>11 DEF GatePasses, CompState
      <3> QED BY <2>4, <3>1, <3>2
    <2>12. CASE Credit(c)
      <3>1. /\ comp[c].pc = "credit" /\ comp'[c].pc = "close" /\ comp'[c].inc = comp[c].inc
            /\ credits' = Count(credits, comp[c].inc) /\ UNCHANGED pending
        BY <2>12, GotoLocals DEF Credit, Outcome
      <3>2. \A i \in Incident :
              credits'[i] = IF i = comp[c].inc THEN credits[i] + 1 ELSE credits[i]
        BY <2>3, <3>1, Counted DEF TypeInv, RevertTypeOK
      <3>3. CloseSettlement /\ ~comp[c].counted
        BY <3>1 DEF CreditInv
      <3>4. ASSUME NEW i \in Incident
            PROVE  /\ credits'[i] <= Due(i)'
                   /\ i # comp[c].inc /\ credits[i] < Due(i) => credits'[i] < Due(i)'
        <4>1. /\ credits[i] <= Due(i) /\ Due(i) \in Nat /\ credits[i] \in Nat
              /\ i = comp[c].inc => credits[i] < Due(i)
          BY <2>1, <3>1, <3>3, DueTypes DEF CreditInv
        <4> HIDE DEF Due
        <4> QED BY <3>2, <4>1
      <3>5. ASSUME NEW i \in Incident, CloseSettlement, pending'.inc = i,
                   ~pending'.counted, \A b \in Completer : ~Settled(b, i)'
            PROVE  credits'[i] < Due(i)'
        <4>1. i # comp[c].inc
          BY <3>1, <3>5 DEF Settled
        <4>2. \A b \in Completer : ~Settled(b, i)
          BY <2>2, <3>1 DEF Settled
        <4>3. credits[i] < Due(i)
          BY <3>1, <3>5, <4>2 DEF CreditInv
        <4> QED BY <3>4, <4>1, <4>3
      <3>6. \A b \in Completer : comp'[b].pc \in {"idle", "close"}
        BY <2>2, <3>1
      <3> HIDE DEF Due
      <3> QED BY <3>4, <3>5, <3>6 DEF CreditInv, Active
    <2> QED
      BY <1>3, <2>5, <2>6, <2>7, <2>8, <2>9, <2>10, <2>11, <2>12 DEF CompStep
  <1> QED BY <1>2, <1>3

LEMMA CreditStep ==
  ASSUME TypeInv, TypeInv', LeaseInv, HealerInv, CreditInv, BoundedCompletions, [Next]_vars
  PROVE  CreditInv'
  <1> USE DEF cloud, ghosts, tally
  <1>1. \A i \in Incident : Due(i) <= Due(i)' /\ Due(i)' \in Nat
    BY DueGrows
  <1>2. ASSUME UNCHANGED <<comp, credits>>,
               \/ pending'.inc = pending.inc /\ pending'.counted = pending.counted
               \/ \A i \in Incident : pending'.inc = i /\ ~pending'.counted => Due(i) < Due(i)'
        PROVE  CreditInv'
    <2>1. \A c \in Completer : comp[c].pc = "credit" => CloseSettlement /\ ~comp[c].counted
      BY DEF CreditInv
    <2> QED BY <1>1, <1>2, <2>1, CreditKept DEF Active
  <1>3. CASE UNCHANGED vars
    BY <1>2, <1>3 DEF vars
  <1>4. CASE \/ Deploy \/ (\E level \in GrantLevels : Grant(level))
             \/ (\E i \in Incident : FixRead(i) \/ FixDropped(i)) \/ FixFails
    BY <1>2, <1>4 DEF Deploy, Grant, FixRead, FixDropped, FixFails
  <1>5. CASE FixWrite
    <2>1. UNCHANGED <<comp, credits>> /\ pending'.inc = rearm.inc
      BY <1>5, WrittenRecord DEF FixWrite
    <2>2. \A i \in Incident : rearm.inc = i => Due(i) < Due(i)'
      BY <1>5, DueGrows
    <2> QED BY <1>2, <2>1, <2>2
  <1>6. CASE Tick
    <2>1. /\ pending'.inc = pending.inc /\ pending'.counted = pending.counted
          /\ UNCHANGED credits
      BY <1>6, RecordKept DEF Tick
    <2>2. \A c \in Completer : /\ comp'[c].pc = comp[c].pc /\ comp'[c].inc = comp[c].inc
                               /\ comp'[c].counted = comp[c].counted
      BY <1>6, TickLocals
    <2>3. \A c \in Completer : comp[c].pc = "credit" => CloseSettlement /\ ~comp[c].counted
      BY DEF CreditInv
    <2> QED BY <1>1, <2>1, <2>2, <2>3, CreditKept DEF Active
  <1>7. CASE Arm
    <2>1. /\ pending'.inc = healer.inc /\ pending'.counted = (CloseSettlement /\ healer.ok)
          /\ UNCHANGED <<comp, credits>>
      BY <1>7, ArmedRecord DEF Arm
    <2>2. \A i \in Incident : healer.inc = i /\ ~healer.ok => Due(i) < Due(i)'
      BY <1>7, DueGrows
    <2>3. CASE CloseSettlement
      <3>1. ~pending'.counted => ~healer.ok
        BY <2>1, <2>3, Zenon
      <3> QED BY <1>2, <2>1, <2>2, <3>1
    <2>4. CASE ~CloseSettlement
      <3>1. \A c \in Completer : comp[c].pc # "credit"
        BY <2>4 DEF CreditInv
      <3>2. \A i \in Incident : credits'[i] <= Due(i)'
        <4> SUFFICES ASSUME NEW i \in Incident PROVE credits'[i] <= Due(i)'
          OBVIOUS
        <4>1. /\ credits[i] <= Due(i) /\ Due(i) \in Nat /\ credits[i] \in Nat
              /\ Due(i) <= Due(i)' /\ Due(i)' \in Nat
          BY <1>1, DueTypes DEF CreditInv
        <4> HIDE DEF Due
        <4> QED BY <2>1, <4>1
      <3> HIDE DEF Due
      <3> QED BY <2>1, <2>4, <3>1, <3>2 DEF CreditInv
    <2> QED BY <2>3, <2>4
  <1>8. ASSUME NEW ok \in BOOLEAN, Verified(ok) PROVE CreditInv'
    <2>1. \A i \in Incident : ok /\ healer.inc = i => Due(i) < Due(i)'
      BY <1>8, DueGrows
    <2> QED BY <1>1, <1>8, <2>1, CreditVerifiedStep
  <1>9. CASE SaveApproval \/ FinishHeal \/ HealFails \/ (\E i \in Incident : Rollback(i))
    BY <1>2, <1>9 DEF SaveApproval, FinishHeal, HealFails, Rollback
  <1>10. ASSUME NEW c \in Completer, CompStep(c) PROVE CreditInv'
    <2>1. \A i \in Incident :
            Die(c) /\ comp[c].pc = "close" /\ comp[c].inc = i => Due(i) < Due(i)'
      BY DueGrows
    <2> QED BY <1>1, <1>10, <2>1, CreditCompletionStep
  <1> QED
    BY <1>3, <1>4, <1>5, <1>6, <1>7, <1>8, <1>9, <1>10 DEF Next, HealStep

\* An incident is credited to the trust ramp once, by the heal that verified or by the
\* close that did.  It is credited again at most once for every heal of it that failed
\* half way and was delivered again, for every completion that died before
\* end_complete closed the record, and for every time an approved fix wrote the
\* record back.
THEOREM CreditsNotDoubled == Spec => []CreditedOnce
  <1> DEFINE Inv == BoundedCompletions => CreditInv
  <1>1. Init => LeaseInv
    BY DEF Init, LeaseInv, Active, IdleComp
  <1>2. Init => Inv
    <2> SUFFICES ASSUME Init PROVE CreditInv
      OBVIOUS
    <2>1. /\ TypeInv /\ \A c \in Completer : comp[c].pc = "idle"
          /\ pending.inc \notin Incident /\ \A i \in Incident : credits[i] = 0
      BY InitType, RevertStoreAssumption
         DEF Init, IdleComp, NoRevert, RevertStoreAssumption
    <2>2. ASSUME NEW i \in Incident PROVE 0 <= Due(i)
      <3>1. PICK n \in Nat : n = Due(i)
        BY <2>1, DueTypes
      <3>2. 0 <= n
        OBVIOUS
      <3> QED BY <3>1, <3>2, Zenon
    <2> QED BY <2>1, <2>2 DEF CreditInv, Active
  <1>3. TypeInv /\ TypeInv' /\ LeaseInv /\ HealerInv /\ Inv /\ [Next]_vars => Inv'
    BY CreditStep
  <1>4. TypeInv /\ HealerInv /\ Inv => CreditedOnce
    <2> SUFFICES ASSUME TypeInv, HealerInv, CreditInv, NEW i \in Incident
                 PROVE  credits[i] <= 1 + broken[i] + unclosed[i] + rewrites[i]
      BY DEF CreditedOnce
    <2>1. /\ credits[i] <= Due(i) /\ credits[i] \in Nat
          /\ Due(i) = Records(i) + unclosed[i] + Earned(i)
      BY DueTypes DEF CreditInv
    <2>2. /\ Records(i) = broken[i] + rewrites[i] + (IF Armed(i) THEN 1 ELSE 0)
          /\ broken[i] \in Nat /\ rewrites[i] \in Nat /\ unclosed[i] \in Nat
      BY RecordsTypes
    <2>3. (IF Armed(i) THEN 1 ELSE 0) + Earned(i) <= 1
      BY DEF Armed, Earned, HealerInv
    <2>4. PICK m \in {0, 1} : m = (IF Armed(i) THEN 1 ELSE 0)
      OBVIOUS
    <2>5. Earned(i) \in {0, 1}
      BY DEF Earned
    <2> HIDE DEF Due, Earned, Records, Armed
    <2> QED BY <2>1, <2>2, <2>3, <2>4, <2>5
  <1>5. TypeInv /\ HealerInv /\ [Next]_vars => HealerInv'
    BY RecordsGrow
  <1> HIDE DEF Inv
  <1> QED
    BY <1>1, <1>2, <1>3, <1>4, <1>5, InitType, InitHealer, TypeStep, LeaseStep, PTL DEF Spec
=============================================================================
