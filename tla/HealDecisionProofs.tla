-------------------------- MODULE HealDecisionProofs --------------------------
(***************************************************************************)
(* Proofs about HealDecision, for every set of heals and revisions, every  *)
(* condition they may be in and every sample they may yield.               *)
(***************************************************************************)
EXTENDS HealDecision, TLAPS

-------------------------------------------------------------------------------
(* The invariant. *)

Label == {"detect", "decide", "fold", "witness", "level", "waiting", "guard", "probe", "shift",
          "verify", "certify"}
Verdict == {"none", "PASS", "FAIL", "INCONCLUSIVE"}
Sig == {"unknown", "5xx", "latency"}
Why == {"again", "thin", "blind", "vouched"}
Kind == {"traffic", "deploy", "health", "level", "age"}

\* A heal under way has all its locals; of those that name revisions, and of
\* what only a ghost holds, nothing else is said.
Local(R, K, V, F) ==
  [pc : Label, approved : BOOLEAN, saw : R, known : K, verdict : Verdict, rate : Nat,
   sig : Sig, vouched : V, target : R, why : SUBSET Why, since : SUBSET Kind,
   hurt : BOOLEAN, fit : F]

Whole(l) == \E R, K, V, F : l \in Local(R, K, V, F)

\* The heal was allowed to act when it read the level, or a human asked it to.
Levelled(l) ==
  l.pc \in {"guard", "probe", "shift"} => l.approved \/ level = "L3" \/ "level" \in l.since

\* The guard has found no declared change in between.
Guarded(l) ==
  l.pc \in {"probe", "shift"} /\ l.target \in existing /\ Crosses(l.target, serving)
    => l.since \cap {"traffic", "deploy"} # {}

\* The probe has found the target well, or has said why it does not know.
Probed(l) ==
  l.pc = "shift" /\ ConditionOf(l.target) \in Degraded(l.sig)
    => "health" \in l.since \/ l.why \cap {"thin", "vouched", "blind"} # {}

\* What may be folded was below a baseline that was not above the seed.
Calm(l) == l.pc = "fold" \/ (l.pc = "decide" /\ l.verdict = "PASS") => l.rate <= Seed

HealOK(l) == l = NoRun \/ (Whole(l) /\ Levelled(l) /\ Guarded(l) /\ Probed(l) /\ Calm(l))

DecisionInv ==
  /\ run = [h \in Heals |-> run[h]]
  /\ \A h \in Heals : HealOK(run[h])
  /\ level \in {"L0", "L1", "L3"}
  /\ baseline \in Nat /\ baseline <= Seed

-------------------------------------------------------------------------------
(* Steps in general. *)

\* A step that changes the locals of one heal and nothing a heal's locals are
\* about keeps the others.
LEMMA OneHealMoves ==
  ASSUME DecisionInv, NEW h \in Heals, NEW l, To(h, l), HealOK(l),
         UNCHANGED <<cloud, level>>, baseline' \in Nat, baseline' <= Seed
  PROVE  DecisionInv'
  BY DEF DecisionInv, HealOK, To, cloud, Levelled, Guarded, Probed, Calm, Crosses, ConditionOf

LEMMA EndedIsOK == HealOK(NoRun)
  BY DEF HealOK

LEMMA RunIsWhole ==
  ASSUME DecisionInv, NEW h \in Heals, run[h].pc # "idle" \/ Active(h)
  PROVE  /\ Whole(run[h]) /\ Levelled(run[h]) /\ Guarded(run[h]) /\ Probed(run[h]) /\ Calm(run[h])
         /\ run[h] # NoRun
  BY DEF DecisionInv, HealOK, NoRun, Active

LEMMA MakesLocal ==
  ASSUME NEW pc \in Label, NEW app \in BOOLEAN, NEW R, NEW saw \in R, NEW K, NEW known \in K,
         NEW verdict \in Verdict, NEW rate \in Nat, NEW sig \in Sig, NEW V, NEW vouched \in V,
         NEW target \in R, NEW why \in SUBSET Why, NEW since \in SUBSET Kind,
         NEW hurt \in BOOLEAN, NEW F, NEW fit \in F
  PROVE  [pc |-> pc, approved |-> app, saw |-> saw, known |-> known, verdict |-> verdict,
          rate |-> rate, sig |-> sig, vouched |-> vouched, target |-> target, why |-> why,
          since |-> since, hurt |-> hurt, fit |-> fit] \in Local(R, K, V, F)
  BY DEF Local

LEMMA Wider ==
  ASSUME NEW R, NEW K, NEW V, NEW F, NEW l \in Local(R, K, V, F), NEW Q, NEW I, NEW U, NEW E
  PROVE  l \in Local(R \cup Q, K \cup I, V \cup U, F \cup E)
  BY DEF Local

\* The values that the steps assign.
LEMMA Plain ==
  /\ 0 \in Nat
  /\ {} \in SUBSET Why /\ {} \in SUBSET Kind
  /\ "none" \in Verdict /\ "unknown" \in Sig
  /\ {"detect", "decide", "fold", "witness", "level", "waiting", "guard", "probe", "shift",
      "verify", "certify"} \subseteq Label
  BY DEF Label, Verdict, Sig

LEMMA Bounded ==
  ASSUME DecisionInv, NEW h \in Heals, Active(h), NEW label \in Label, NEW t
  PROVE  LET m == Bound(h, label, t)
         IN /\ Whole(m) /\ m.pc = label /\ m.approved = run[h].approved /\ m.target = t
            /\ m.sig = run[h].sig /\ m.since = {}
  <1> DEFINE m == [run[h] EXCEPT !.pc = label, !.target = t, !.saw = Nobody, !.known = {},
                     !.vouched = {}, !.verdict = "none", !.rate = 0, !.fit = NoStamp, !.since = {}]
  <1>1. PICK R, K, V, F : run[h] \in Local(R, K, V, F) BY RunIsWhole DEF Whole
  <1> DEFINE R2 == R \cup {t, Nobody}
             K2 == K \cup {{}}
             V2 == V \cup {{}}
             F2 == F \cup {NoStamp}
  <1>2. run[h] \in Local(R2, K2, V2, F2) BY <1>1, Wider
  <1>3. t \in R2 /\ Nobody \in R2 /\ {} \in K2 /\ {} \in V2 /\ NoStamp \in F2 OBVIOUS
  <1> HIDE DEF R2, K2, V2, F2
  <1>5. m \in Local(R2, K2, V2, F2) BY <1>2, <1>3, Plain, ZenonT(30) DEF Local
  <1>6. /\ m.pc = label /\ m.approved = run[h].approved /\ m.target = t
        /\ m.sig = run[h].sig /\ m.since = {}
    BY <1>2 DEF Local
  <1>7. Bound(h, label, t) = m BY DEF Bound
  <1> HIDE DEF m
  <1> QED BY <1>5, <1>6, <1>7 DEF Whole

\* What a heal that learns keeps of its locals.
Learned(l, kind, m) ==
  /\ Whole(m) /\ m.pc = l.pc /\ m.approved = l.approved /\ m.target = l.target
  /\ m.sig = l.sig /\ m.why = l.why /\ m.rate = l.rate /\ m.verdict = l.verdict
  /\ m.since = l.since \cup {kind}

LEMMA OthersLearn ==
  ASSUME DecisionInv, NEW h \in Heals, Active(h), NEW kind \in Kind, NEW s, NEW down
  PROVE  Learned(run[h], kind, Learn(kind, s, down)[h])
  <1> DEFINE c == IF down THEN "bad" ELSE quality[s]
             S == run[h].since \cup {kind}
             b == run[h].hurt \/ Sick(c)
             m == [run[h] EXCEPT !.since = S, !.hurt = b]
  <1>1. Whole(run[h]) BY RunIsWhole
  <1>2. PICK R, K, V, F : run[h] \in Local(R, K, V, F) BY <1>1 DEF Whole
  <1>3. S \in SUBSET Kind BY <1>2 DEF Local
  <1>4. b \in BOOLEAN OBVIOUS
  <1>5. Learn(kind, s, down)[h] = m BY DEF Learn, Active
  <1> HIDE DEF S, b
  <1>6. /\ m \in Local(R, K, V, F) /\ m.pc = run[h].pc /\ m.approved = run[h].approved
        /\ m.target = run[h].target /\ m.sig = run[h].sig /\ m.why = run[h].why
        /\ m.rate = run[h].rate /\ m.verdict = run[h].verdict /\ m.since = S
    BY <1>2, <1>3, <1>4 DEF Local
  <1> HIDE DEF m
  <1>7. Whole(m) BY <1>6 DEF Whole
  <1> QED BY <1>5, <1>6, <1>7 DEF S, Learned

-------------------------------------------------------------------------------
(* The baseline. *)

LEMMA BaselineRead ==
  ASSUME DecisionInv
  PROVE  BaselineFor \in Nat /\ BaselineFor <= Seed
  BY DecisionAssumption DEF DecisionInv, BaselineFor

LEMMA SampleRates ==
  ASSUME NEW c \in Condition, NEW s \in Samples[c]
  PROVE  s.rate \in Nat /\ s.hi \in Nat /\ s.rate <= s.hi
  <1>1. s \in {t \in Sample : t.lo <= t.rate /\ t.rate <= t.hi} BY DecisionAssumption
  <1>2. s \in Sample /\ s.rate <= s.hi BY <1>1
  <1>3. s.rate \in 0..1000 /\ s.hi \in 0..1000 BY <1>2 DEF Sample
  <1>4. \A x \in 0..1000 : x \in Nat OBVIOUS
  <1> QED BY <1>2, <1>3, <1>4

\* A sample judged healthy has a rate below the baseline it was judged by.
LEMMA PassIsBelow ==
  ASSUME DecisionInv, NEW s, s = NoSample \/ \E c \in Condition : s \in Samples[c], NEW lat
  PROVE  /\ s.rate \in Nat
         /\ Fuse({Analyze(s, BaselineFor), lat}) = "PASS" => s.rate <= Seed
  <1>1. s.rate \in Nat /\ s.hi \in Nat /\ s.rate <= s.hi
    <2>1. CASE s = NoSample BY <2>1 DEF NoSample
    <2>2. CASE \E c \in Condition : s \in Samples[c] BY <2>2, SampleRates
    <2> QED BY <2>1, <2>2
  <1>2. ASSUME Fuse({Analyze(s, BaselineFor), lat}) = "PASS" PROVE s.hi < BaselineFor
    <2>1. Analyze(s, BaselineFor) \notin {"FAIL", "INCONCLUSIVE"} BY <1>2 DEF Fuse
    <2> QED BY <2>1 DEF Analyze
  <1> QED BY <1>1, <1>2, BaselineRead, DecisionAssumption

LEMMA FoldStaysBelow ==
  ASSUME DecisionInv, NEW rate \in Nat, rate <= Seed
  PROVE  Folded(rate) \in Nat /\ Folded(rate) <= Seed
  <1> DEFINE ema == (rate + 4 * baseline) \div 5
  <1>1. ema \in Nat /\ ema <= Seed BY DecisionAssumption DEF DecisionInv
  <1>2. baseline \in Nat /\ baseline <= Seed /\ Seed \in Nat /\ MaxDrift \in Nat
    BY DecisionAssumption DEF DecisionInv
  <1>3. Folded(rate) = IF ema > baseline + MaxDrift THEN baseline + MaxDrift
                       ELSE IF ema < baseline - MaxDrift THEN baseline - MaxDrift ELSE ema
    BY DEF Folded
  <1> HIDE DEF ema
  <1> QED BY <1>1, <1>2, <1>3

-------------------------------------------------------------------------------
(* The steps of a heal. *)

LEMMA EndKeeps ==
  ASSUME DecisionInv, NEW h \in Heals, End(h), UNCHANGED <<cloud, level>>,
         baseline' \in Nat, baseline' <= Seed
  PROVE  DecisionInv'
  BY EndedIsOK, OneHealMoves DEF End

LEMMA TriageKeeps ==
  ASSUME DecisionInv, NEW h \in Heals, Triage(h)
  PROVE  DecisionInv'
  <1> DEFINE sick == Sick(ConditionOf(serving))
             l == [pc |-> "detect", approved |-> FALSE, saw |-> serving, known |-> existing,
                   verdict |-> "none", rate |-> 0, sig |-> "unknown", vouched |-> {},
                   target |-> Nobody, why |-> {}, since |-> {}, hurt |-> sick, fit |-> NoStamp]
  <1>1. To(h, l) /\ UNCHANGED <<cloud, store>> BY DEF Triage
  <1>2. sick \in BOOLEAN BY DEF Sick
  <1> HIDE DEF sick
  <1>3. l \in Local({serving, Nobody}, {existing}, {{}}, {NoStamp})
    BY <1>2, Plain, MakesLocal
  <1>4. Whole(l) BY <1>3 DEF Whole
  <1>5. HealOK(l) BY <1>4 DEF HealOK, Levelled, Guarded, Probed, Calm
  <1> HIDE DEF l
  <1>6. baseline' \in Nat /\ baseline' <= Seed /\ UNCHANGED <<cloud, level>>
    BY <1>1 DEF DecisionInv, store
  <1> QED BY <1>1, <1>5, <1>6, OneHealMoves

LEMMA DetectKeeps ==
  ASSUME DecisionInv, NEW h \in Heals,
         NEW s, s = NoSample \/ \E c \in Condition : s \in Samples[c], NEW lat, Detect(h, s, lat)
  PROVE  DecisionInv'
  <1> DEFINE five == Analyze(s, BaselineFor)
             v == Fuse({five, lat})
             unsampled == s = NoSample \/ lat = "INCONCLUSIVE"
             stamp == [fit |-> serving = run[h].saw /\ ~Sick(ConditionOf(serving)),
                       why |-> (run[h].since \cap {"traffic"})
                                 \cup (IF unsampled THEN {"unsampled"} ELSE {})]
             witnesses == IF run[h].approved THEN {} ELSE Witnessed
             label == IF run[h].approved THEN "fold" ELSE "decide"
             sig == PrimarySignal(five, lat)
             bound == Bound(h, "guard", run[h].target)
             l == [bound EXCEPT !.sig = sig]
             m == [run[h] EXCEPT !.verdict = v, !.rate = s.rate, !.sig = sig, !.fit = stamp,
                                 !.since = {}, !.vouched = witnesses, !.pc = label]
  <1>1. /\ run[h].pc = "detect" /\ UNCHANGED <<cloud, store>>
        /\ To(h, IF run[h].approved /\ v # "PASS" THEN l ELSE m)
    BY DEF Detect
  <1>2. Active(h) BY <1>1 DEF Active, NoRun
  <1>3. Whole(run[h]) BY <1>2, RunIsWhole
  <1>4. v \in Verdict /\ sig \in Sig BY DEF Fuse, PrimarySignal, Verdict, Sig
  <1>5. label \in Label BY Plain
  <1>6. s.rate \in Nat /\ (v = "PASS" => s.rate <= Seed) BY PassIsBelow
  <1>7. baseline' \in Nat /\ baseline' <= Seed /\ UNCHANGED <<cloud, level>>
    BY <1>1 DEF DecisionInv, store
  <1> HIDE DEF v, sig, stamp, witnesses
  <1>8. ASSUME run[h].approved PROVE HealOK(l)
    <2>1. /\ Whole(bound) /\ bound.pc = "guard" /\ bound.approved = run[h].approved
      BY <1>2, Plain, Bounded
    <2> HIDE DEF bound
    <2>2. PICK R, K, V, F : bound \in Local(R, K, V, F) BY <2>1 DEF Whole
    <2>3. l \in Local(R, K, V, F) /\ l.pc = bound.pc /\ l.approved = bound.approved
      BY <2>2, <1>4 DEF Local
    <2> HIDE DEF l
    <2> QED BY <2>1, <2>3, <1>8 DEF HealOK, Whole, Levelled, Guarded, Probed, Calm
  <1>9. ASSUME ~(run[h].approved /\ v # "PASS") PROVE HealOK(m)
    <2>1. PICK R, K, V, F : run[h] \in Local(R, K, V, F) BY <1>3 DEF Whole
    <2> DEFINE V2 == V \cup {witnesses}
               F2 == F \cup {stamp}
    <2>2. run[h] \in Local(R \cup {}, K \cup {}, V2, F2) BY <2>1, Wider
    <2>3. run[h] \in Local(R, K, V2, F2) BY <2>2
    <2>4. witnesses \in V2 /\ stamp \in F2 OBVIOUS
    <2> HIDE DEF V2, F2, label
    <2>5. m \in Local(R, K, V2, F2)
      BY <2>3, <2>4, <1>4, <1>5, <1>6, Plain, ZenonT(30) DEF Local
    <2>6. m.pc = label /\ m.verdict = v /\ m.rate = s.rate
      BY <2>3 DEF Local
    <2> HIDE DEF m
    <2>7. label \in {"fold", "decide"} /\ (label = "fold" => run[h].approved) BY DEF label
    <2> QED BY <2>5, <2>6, <2>7, <1>6, <1>9 DEF HealOK, Whole, Levelled, Guarded, Probed, Calm
  <1> HIDE DEF l, m
  <1>10. CASE run[h].approved /\ v # "PASS" BY <1>1, <1>7, <1>8, <1>10, OneHealMoves
  <1>11. CASE ~(run[h].approved /\ v # "PASS") BY <1>1, <1>7, <1>9, <1>11, OneHealMoves
  <1> QED BY <1>10, <1>11

LEMMA DecideKeeps ==
  ASSUME DecisionInv, NEW h \in Heals, NEW advice, NEW sure, Decide(h, advice, sure)
  PROVE  DecisionInv'
  <1> DEFINE d == Validate(h, advice, sure)
             l == Bound(h, "level", d.target)
             m == [run[h] EXCEPT !.pc = "fold", !.vouched = {}]
  <1>1. /\ run[h].pc = "decide" /\ UNCHANGED <<cloud, store>>
        /\ \/ To(h, l)
           \/ HealthyWitness(run[h]) /\ To(h, m)
           \/ End(h)
    BY DEF Decide
  <1>2. Active(h) BY <1>1 DEF Active, NoRun
  <1>3. baseline' \in Nat /\ baseline' <= Seed /\ UNCHANGED <<cloud, level>>
    BY <1>1 DEF DecisionInv, store
  <1>4. HealOK(l)
    <2>1. Whole(l) /\ l.pc = "level" BY <1>2, Plain, Bounded
    <2> HIDE DEF l
    <2> QED BY <2>1 DEF HealOK, Levelled, Guarded, Probed, Calm
  <1>5. ASSUME HealthyWitness(run[h]) PROVE HealOK(m)
    <2>1. Whole(run[h]) /\ Calm(run[h]) BY <1>2, RunIsWhole
    <2>2. PICK R, K, V, F : run[h] \in Local(R, K, V, F) BY <2>1 DEF Whole
    <2>3. run[h] \in Local(R \cup {}, K \cup {}, V \cup {{}}, F \cup {}) BY <2>2, Wider
    <2> DEFINE V2 == V \cup {{}}
    <2>4. run[h] \in Local(R, K, V2, F) /\ {} \in V2 BY <2>3
    <2> HIDE DEF V2
    <2>5. m \in Local(R, K, V2, F) BY <2>4, Plain DEF Local
    <2>6. m.pc = "fold" /\ m.rate = run[h].rate BY <2>4 DEF Local
    <2> HIDE DEF m
    <2>7. run[h].rate <= Seed
      <3>1. CASE run[h].verdict = "PASS" BY <2>1, <1>1, <3>1 DEF Calm
      <3>2. CASE run[h].rate = 0 BY <3>2, DecisionAssumption
      <3> QED BY <1>5, <3>1, <3>2 DEF HealthyWitness
    <2> QED BY <2>5, <2>6, <2>7 DEF HealOK, Whole, Levelled, Guarded, Probed, Calm
  <1> HIDE DEF l, m
  <1> QED BY <1>1, <1>3, <1>4, <1>5, EndKeeps, OneHealMoves

\* A heal that goes on with another label only.
LEMMA Relabelled ==
  ASSUME DecisionInv, NEW h \in Heals, Active(h), NEW label \in Label
  PROVE  LET m == [run[h] EXCEPT !.pc = label]
         IN Whole(m) /\ m.pc = label
  <1> DEFINE m == [run[h] EXCEPT !.pc = label]
  <1>1. Whole(run[h]) BY RunIsWhole
  <1>2. PICK R, K, V, F : run[h] \in Local(R, K, V, F) BY <1>1 DEF Whole
  <1>3. m \in Local(R, K, V, F) /\ m.pc = label BY <1>2 DEF Local
  <1>4. \E R1, K1, V1, F1 : m \in Local(R1, K1, V1, F1) BY <1>3
  <1> QED BY <1>3, <1>4 DEF Whole

LEMMA FoldKeeps ==
  ASSUME DecisionInv, NEW h \in Heals, Fold(h)
  PROVE  DecisionInv'
  <1> DEFINE m == [run[h] EXCEPT !.pc = "witness"]
  <1>1. run[h].pc = "fold" /\ To(h, m) /\ baseline' = Folded(run[h].rate)
        /\ UNCHANGED <<cloud, level>>
    BY DEF Fold
  <1>2. Active(h) BY <1>1 DEF Active, NoRun
  <1>3. Whole(run[h]) /\ Calm(run[h]) BY <1>2, RunIsWhole
  <1>4. run[h].rate \in Nat /\ run[h].rate <= Seed BY <1>1, <1>3 DEF Whole, Local, Calm
  <1>5. baseline' \in Nat /\ baseline' <= Seed BY <1>1, <1>4, FoldStaysBelow
  <1>6. Whole(m) /\ m.pc = "witness" BY <1>2, Plain, Relabelled
  <1> HIDE DEF m
  <1>7. HealOK(m) BY <1>6 DEF HealOK, Levelled, Guarded, Probed, Calm
  <1> QED BY <1>1, <1>5, <1>7, OneHealMoves

LEMMA ReadLevelKeeps ==
  ASSUME DecisionInv, NEW h \in Heals, ReadLevel(h)
  PROVE  DecisionInv'
  <1> DEFINE l == [run[h] EXCEPT !.pc = "waiting"]
             m == [run[h] EXCEPT !.pc = "guard", !.since = {}]
  <1>1. /\ run[h].pc = "level" /\ UNCHANGED <<cloud, store>>
        /\ \/ End(h)
           \/ To(h, l)
           \/ level = "L3" /\ To(h, m)
    BY DEF ReadLevel, DecisionInv
  <1>2. Active(h) BY <1>1 DEF Active, NoRun
  <1>3. baseline' \in Nat /\ baseline' <= Seed /\ UNCHANGED <<cloud, level>>
    BY <1>1 DEF DecisionInv, store
  <1>4. HealOK(l)
    <2>1. Whole(l) /\ l.pc = "waiting" BY <1>2, Plain, Relabelled
    <2> HIDE DEF l
    <2> QED BY <2>1 DEF HealOK, Levelled, Guarded, Probed, Calm
  <1>5. ASSUME level = "L3" PROVE HealOK(m)
    <2>1. Whole(run[h]) BY <1>2, RunIsWhole
    <2>2. PICK R, K, V, F : run[h] \in Local(R, K, V, F) BY <2>1 DEF Whole
    <2>3. m \in Local(R, K, V, F) /\ m.pc = "guard" BY <2>2, Plain DEF Local
    <2> HIDE DEF m
    <2> QED BY <2>3, <1>5 DEF HealOK, Whole, Levelled, Guarded, Probed, Calm
  <1> HIDE DEF l, m
  <1> QED BY <1>1, <1>3, <1>4, <1>5, EndKeeps, OneHealMoves

LEMMA AnswerKeeps ==
  ASSUME DecisionInv, NEW h \in Heals, NEW approve, Answer(h, approve)
  PROVE  DecisionInv'
  <1> DEFINE m == [run[h] EXCEPT !.pc = "detect", !.approved = TRUE, !.saw = serving,
                                 !.known = existing, !.since = {}]
  <1>1. run[h].pc = "waiting" /\ UNCHANGED <<cloud, store>> /\ (End(h) \/ To(h, m))
    BY DEF Answer
  <1>2. Active(h) BY <1>1 DEF Active, NoRun
  <1>3. baseline' \in Nat /\ baseline' <= Seed /\ UNCHANGED <<cloud, level>>
    BY <1>1 DEF DecisionInv, store
  <1>4. Whole(run[h]) BY <1>2, RunIsWhole
  <1>5. PICK R, K, V, F : run[h] \in Local(R, K, V, F) BY <1>4 DEF Whole
  <1> DEFINE R2 == R \cup {serving}
             K2 == K \cup {existing}
  <1>6. run[h] \in Local(R2, K2, V \cup {}, F \cup {}) BY <1>5, Wider
  <1>7. run[h] \in Local(R2, K2, V, F) /\ serving \in R2 /\ existing \in K2 BY <1>6
  <1> HIDE DEF R2, K2
  <1>8. m \in Local(R2, K2, V, F) /\ m.pc = "detect" BY <1>7, Plain DEF Local
  <1> HIDE DEF m
  <1>9. HealOK(m) BY <1>8 DEF HealOK, Whole, Levelled, Guarded, Probed, Calm
  <1> QED BY <1>1, <1>3, <1>9, EndKeeps, OneHealMoves

LEMMA GuardKeeps ==
  ASSUME DecisionInv, NEW h \in Heals, Guard(h)
  PROVE  DecisionInv'
  <1> DEFINE m == [run[h] EXCEPT !.pc = "probe", !.since = @ \cap {"level"}]
  <1>1. /\ run[h].pc = "guard" /\ UNCHANGED <<cloud, store>>
        /\ \/ End(h)
           \/ /\ ~(run[h].target \in existing /\ Crosses(run[h].target, serving))
              /\ To(h, m)
    BY DEF Guard
  <1>2. Active(h) BY <1>1 DEF Active, NoRun
  <1>3. baseline' \in Nat /\ baseline' <= Seed /\ UNCHANGED <<cloud, level>>
    BY <1>1 DEF DecisionInv, store
  <1>4. Whole(run[h]) /\ Levelled(run[h]) BY <1>2, RunIsWhole
  <1>5. ASSUME ~(run[h].target \in existing /\ Crosses(run[h].target, serving))
        PROVE  HealOK(m)
    <2>1. PICK R, K, V, F : run[h] \in Local(R, K, V, F) BY <1>4 DEF Whole
    <2>2. run[h].since \cap {"level"} \in SUBSET Kind BY <2>1 DEF Local
    <2>3. /\ m \in Local(R, K, V, F) /\ m.pc = "probe" /\ m.target = run[h].target
          /\ m.approved = run[h].approved /\ m.since = run[h].since \cap {"level"}
      BY <2>1, <2>2, Plain DEF Local
    <2> HIDE DEF m
    <2>4. Levelled(m) BY <2>3, <1>1, <1>4 DEF Levelled
    <2>5. Guarded(m) BY <2>3, <1>5 DEF Guarded
    <2> QED BY <2>3, <2>4, <2>5 DEF HealOK, Whole, Probed, Calm
  <1> HIDE DEF m
  <1> QED BY <1>1, <1>3, <1>5, EndKeeps, OneHealMoves

LEMMA ProbeKeeps ==
  ASSUME DecisionInv, NEW h \in Heals, NEW outcome, Probe(h, outcome)
  PROVE  DecisionInv'
  <1> DEFINE seen == [run[h] EXCEPT !.pc = "shift", !.since = @ \ {"health"}]
             on(w) == [seen EXCEPT !.why = @ \cup {w}]
             again == [run[h] EXCEPT !.why = @ \cup {"again"}]
  <1>1. /\ run[h].pc = "probe" /\ UNCHANGED <<cloud, store>>
        /\ \/ End(h)
           \/ ~RuledOut(h) /\ To(h, seen)
           \/ \E w \in {"thin", "blind", "vouched"} : To(h, on(w))
           \/ To(h, again)
    BY DEF Probe
  <1>2. Active(h) BY <1>1 DEF Active, NoRun
  <1>3. baseline' \in Nat /\ baseline' <= Seed /\ UNCHANGED <<cloud, level>>
    BY <1>1 DEF DecisionInv, store
  <1>4. Whole(run[h]) /\ Levelled(run[h]) /\ Guarded(run[h]) BY <1>2, RunIsWhole
  <1>5. PICK R, K, V, F : run[h] \in Local(R, K, V, F) BY <1>4 DEF Whole
  <1>6. run[h].since \ {"health"} \in SUBSET Kind BY <1>5 DEF Local
  <1>7. seen \in Local(R, K, V, F) /\ seen.pc = "shift" /\ seen.approved = run[h].approved
        /\ seen.since = run[h].since \ {"health"} /\ seen.target = run[h].target
        /\ seen.sig = run[h].sig
    BY <1>5, <1>6, Plain DEF Local
  <1>8. again \in Local(R, K, V, F) /\ again.pc = "probe" /\ again.approved = run[h].approved
        /\ again.since = run[h].since /\ again.target = run[h].target
    <2>1. run[h].why \cup {"again"} \in SUBSET Why BY <1>5 DEF Local, Why
    <2> QED BY <2>1, <1>5, <1>1 DEF Local
  <1> HIDE DEF seen, again
  <1>9. Levelled(seen) /\ Guarded(seen)
    BY <1>1, <1>4, <1>7 DEF Levelled, Guarded
  <1>10. ASSUME ~RuledOut(h) PROVE HealOK(seen)
    <2>1. Probed(seen) BY <1>10, <1>7 DEF Probed, RuledOut
    <2> QED BY <2>1, <1>7, <1>9 DEF HealOK, Whole, Calm
  <1>11. ASSUME NEW w \in {"thin", "blind", "vouched"} PROVE HealOK(on(w))
    <2> DEFINE m == on(w)
    <2>1. seen.why \cup {w} \in SUBSET Why BY <1>7 DEF Local, Why
    <2>2. /\ m \in Local(R, K, V, F) /\ m.pc = "shift" /\ m.approved = seen.approved
          /\ m.since = seen.since /\ m.target = seen.target /\ w \in m.why
      BY <2>1, <1>7 DEF Local
    <2> HIDE DEF on
    <2>3. Levelled(m) /\ Guarded(m) /\ Probed(m)
      BY <1>7, <1>9, <2>2 DEF Levelled, Guarded, Probed
    <2> QED BY <2>2, <2>3 DEF HealOK, Whole, Calm
  <1>12. HealOK(again)
    <2>1. Levelled(again) /\ Guarded(again) BY <1>1, <1>4, <1>8 DEF Levelled, Guarded
    <2> QED BY <2>1, <1>8 DEF HealOK, Whole, Probed, Calm
  <1> HIDE DEF on
  <1> QED BY <1>1, <1>3, <1>10, <1>11, <1>12, EndKeeps, OneHealMoves

LEMMA WitnessKeeps ==
  ASSUME DecisionInv, NEW h \in Heals, Witness(h) \/ \E clean \in BOOLEAN : Certify(h, clean)
  PROVE  DecisionInv'
  <1>1. End(h) /\ UNCHANGED <<cloud, level, baseline>> BY DEF Witness, Certify
  <1> QED BY <1>1, EndKeeps DEF DecisionInv

LEMMA HealRaisesKeeps ==
  ASSUME DecisionInv, NEW h \in Heals, HealRaises(h)
  PROVE  DecisionInv'
  <1>1. End(h) /\ UNCHANGED <<cloud, level, baseline>> BY DEF HealRaises, store
  <1> QED BY <1>1, EndKeeps DEF DecisionInv

-------------------------------------------------------------------------------
(* The steps that other heals learn of. *)


\* What a heal knows stays true if it learns of each change it is about.
LEMMA LearnerOK ==
  ASSUME DecisionInv, NEW h \in Heals, Active(h), NEW kind, Learned(run[h], kind, run[h]'),
         quality' = quality,
         kind = "level" \/ level' = level,
         kind \in {"traffic", "deploy"} \/ UNCHANGED <<serving, existing>>,
         kind = "health" \/ outage' = outage
  PROVE  HealOK(run[h])'
  <1> DEFINE l == run[h]
             m == run[h]'
  <1>1. Levelled(l) /\ Guarded(l) /\ Probed(l) /\ Calm(l) BY RunIsWhole
  <1>2. Whole(run[h])' BY DEF Learned
  <1>3. Levelled(run[h])' BY <1>1 DEF Learned, Levelled
  <1>4. Guarded(run[h])' BY <1>1 DEF Learned, Guarded, Crosses
  <1>5. Probed(run[h])' BY <1>1 DEF Learned, Probed, ConditionOf
  <1>6. Calm(run[h])' BY <1>1 DEF Learned, Calm
  <1> QED BY <1>2, <1>3, <1>4, <1>5, <1>6 DEF HealOK

LEMMA AllLearn ==
  ASSUME DecisionInv, NEW kind \in Kind, NEW s, NEW down, run' = Learn(kind, s, down),
         quality' = quality, baseline' = baseline, level' \in {"L0", "L1", "L3"},
         kind = "level" \/ level' = level,
         kind \in {"traffic", "deploy"} \/ UNCHANGED <<serving, existing>>,
         kind = "health" \/ outage' = outage
  PROVE  DecisionInv'
  <1>1. ASSUME NEW h \in Heals PROVE HealOK(run[h])'
    <2>1. CASE Active(h)
      <3>1. run'[h] = Learn(kind, s, down)[h] OBVIOUS
      <3>2. Learned(run[h], kind, run[h]') BY <2>1, <3>1, OthersLearn
      <3> QED BY <2>1, <3>2, LearnerOK
    <2>2. CASE ~Active(h)
      <3>1. run'[h] = NoRun BY <2>2 DEF Learn, Active
      <3> QED BY <3>1 DEF HealOK, NoRun
    <2> QED BY <2>1, <2>2
  <1>2. run' = [h \in Heals |-> run'[h]] BY DEF Learn
  <1> QED BY <1>1, <1>2 DEF DecisionInv

LEMMA WorldKeeps ==
  ASSUME DecisionInv, World
  PROVE  DecisionInv'
  <1>1. /\ quality' = quality /\ baseline' = baseline
        /\ level' \in {"L0", "L1", "L3"}
        /\ \E kind \in Kind :
             /\ run' = Learn(kind, serving', outage')
             /\ kind = "level" \/ level' = level
             /\ kind \in {"traffic", "deploy"} \/ UNCHANGED <<serving, existing>>
             /\ kind = "health" \/ outage' = outage
    <2>1. ASSUME NEW takes \in BOOLEAN, DeployRevision(takes) PROVE <1>1!:
      BY <2>1 DEF DeployRevision, Happens, Kind, DecisionInv
    <2>2. ASSUME NEW r \in Revisions, RetireRevision(r) PROVE <1>1!:
      BY <2>2 DEF RetireRevision, Happens, Kind, DecisionInv
    <2>3. ASSUME NEW r \in Revisions, MoveTraffic(r) PROVE <1>1!:
      BY <2>3 DEF MoveTraffic, Happens, Kind, DecisionInv
    <2>4. ASSUME NEW r \in Revisions, WitnessAges(r) PROVE <1>1!:
      BY <2>4 DEF WitnessAges, Happens, Kind, DecisionInv
    <2>5. CASE DependencyTurns
      BY <2>5 DEF DependencyTurns, Happens, Kind, DecisionInv
    <2>6. ASSUME NEW l \in {"L0", "L1", "L3"}, OperatorSets(l) PROVE <1>1!:
      BY <2>6 DEF OperatorSets, Happens, Kind, DecisionInv
    <2> QED BY <2>1, <2>2, <2>3, <2>4, <2>5, <2>6 DEF World
  <1> QED BY <1>1, AllLearn

\* A heal that acts sets its own locals, and the others learn of it.
LEMMA OneActs ==
  ASSUME DecisionInv, NEW h \in Heals, NEW l, HealOK(run[h])', NEW kind \in Kind, NEW s, NEW down,
         run' = [Learn(kind, s, down) EXCEPT ![h] = l],
         quality' = quality, baseline' = baseline, level' \in {"L0", "L1", "L3"},
         kind = "level" \/ level' = level,
         kind \in {"traffic", "deploy"} \/ UNCHANGED <<serving, existing>>,
         kind = "health" \/ outage' = outage
  PROVE  DecisionInv'
  <1>1. ASSUME NEW g \in Heals, g # h PROVE HealOK(run[g])'
    <2>1. CASE Active(g)
      <3>1. run'[g] = Learn(kind, s, down)[g] BY <1>1 DEF Learn
      <3>2. Learned(run[g], kind, run[g]') BY <2>1, <3>1, OthersLearn
      <3> QED BY <2>1, <3>2, LearnerOK
    <2>2. CASE ~Active(g)
      <3>1. run'[g] = NoRun BY <1>1, <2>2 DEF Learn, Active
      <3> QED BY <3>1 DEF HealOK, NoRun
    <2> QED BY <2>1, <2>2
  <1>2. run' = [g \in Heals |-> run'[g]] BY DEF Learn
  <1> QED BY <1>1, <1>2 DEF DecisionInv

LEMMA ShiftKeeps ==
  ASSUME DecisionInv, NEW h \in Heals, Shift(h)
  PROVE  DecisionInv'
  <1> DEFINE t == run[h].target
             l == [run[h] EXCEPT !.pc = "verify", !.since = {}, !.why = {}, !.hurt = FALSE]
  <1>1. /\ run[h].pc = "shift" /\ UNCHANGED <<existing, quality, outage, store>>
        /\ run' = [Learn("traffic", t, outage) EXCEPT ![h] = l]
    BY DEF Shift
  <1>2. Whole(run[h]) BY <1>1, RunIsWhole
  <1>3. PICK R, K, V, F : run[h] \in Local(R, K, V, F) BY <1>2 DEF Whole
  <1>4. l \in Local(R, K, V, F) /\ l.pc = "verify" BY <1>3, Plain DEF Local
  <1> HIDE DEF l
  <1>5. HealOK(run[h])'
    <2>1. run'[h] = l BY <1>1 DEF Learn
    <2>2. run'[h] \in Local(R, K, V, F) /\ run'[h].pc = "verify" BY <1>4, <2>1
    <2> QED BY <2>2 DEF HealOK, Whole, Levelled, Guarded, Probed, Calm
  <1>6. "traffic" \in Kind BY DEF Kind
  <1>7. /\ quality' = quality /\ baseline' = baseline /\ level' = level
        /\ level' \in {"L0", "L1", "L3"} /\ outage' = outage
    BY <1>1 DEF store, DecisionInv
  <1> QED BY <1>1, <1>5, <1>6, <1>7, OneActs

LEMMA VerifyKeeps ==
  ASSUME DecisionInv, NEW h \in Heals, NEW recovered, Verify(h, recovered)
  PROVE  DecisionInv'
  <1> DEFINE stamp == [fit |-> serving = run[h].target
                                 /\ ConditionOf(serving) \notin Degraded(run[h].sig),
                       why |-> run[h].since \cap {"traffic"}]
             l == [run[h] EXCEPT !.pc = "certify", !.fit = stamp]
  <1>1. run[h].pc = "verify" /\ UNCHANGED <<cloud, baseline>>
        /\ \/ To(h, l) /\ UNCHANGED level
           \/ /\ level' = IF level = "L3" THEN "L1" ELSE level
              /\ run' = [Learn("level", serving, outage) EXCEPT ![h] = NoRun]
    BY DEF Verify
  <1>2. CASE To(h, l) /\ UNCHANGED level
    <2>1. Whole(run[h]) BY <1>1, RunIsWhole
    <2>2. PICK R, K, V, F : run[h] \in Local(R, K, V, F) BY <2>1 DEF Whole
    <2> DEFINE F2 == F \cup {stamp}
    <2>3. run[h] \in Local(R \cup {}, K \cup {}, V \cup {}, F2) BY <2>2, Wider
    <2>4. run[h] \in Local(R, K, V, F2) /\ stamp \in F2 BY <2>3
    <2> HIDE DEF F2, stamp
    <2>5. l \in Local(R, K, V, F2) /\ l.pc = "certify" BY <2>4, Plain DEF Local
    <2> HIDE DEF l
    <2>6. HealOK(l) BY <2>5 DEF HealOK, Whole, Levelled, Guarded, Probed, Calm
    <2>7. baseline' \in Nat /\ baseline' <= Seed BY <1>1 DEF DecisionInv
    <2> QED BY <1>1, <1>2, <2>6, <2>7, OneHealMoves
  <1>3. CASE /\ level' = IF level = "L3" THEN "L1" ELSE level
             /\ run' = [Learn("level", serving, outage) EXCEPT ![h] = NoRun]
    <2>1. HealOK(run[h])'
      <3>1. run'[h] = NoRun BY <1>3 DEF Learn
      <3> QED BY <3>1 DEF HealOK, NoRun
    <2>2. "level" \in Kind BY DEF Kind
    <2>3. /\ quality' = quality /\ baseline' = baseline /\ UNCHANGED <<serving, existing>>
          /\ level' \in {"L0", "L1", "L3"} /\ outage' = outage
      BY <1>1, <1>3 DEF cloud, DecisionInv
    <2> QED BY <1>3, <2>1, <2>2, <2>3, OneActs
  <1> QED BY <1>1, <1>2, <1>3

-------------------------------------------------------------------------------
(* Theorems. *)

LEMMA StepKeeps ==
  ASSUME DecisionInv, [DecisionNext]_decisionvars
  PROVE  DecisionInv'
  <1>1. ASSUME NEW h \in Heals, HealStep(h) PROVE DecisionInv'
    <2>1. CASE Triage(h) BY <2>1, TriageKeeps
    <2>2. ASSUME NEW c \in Condition, NEW s \in Samples[c] \cup {NoSample},
                 NEW lat \in {"PASS", "FAIL", "INCONCLUSIVE"}, Detect(h, s, lat)
          PROVE  DecisionInv'
      BY <2>2, DetectKeeps
    <2>3. ASSUME NEW advice \in Advice, NEW sure \in BOOLEAN, Decide(h, advice, sure)
          PROVE  DecisionInv'
      BY <2>3, DecideKeeps
    <2>4. CASE Fold(h) BY <2>4, FoldKeeps
    <2>5. CASE Witness(h) \/ \E clean \in BOOLEAN : Certify(h, clean) BY <2>5, WitnessKeeps
    <2>6. CASE ReadLevel(h) BY <2>6, ReadLevelKeeps
    <2>7. CASE \E approve \in BOOLEAN : Answer(h, approve) BY <2>7, AnswerKeeps
    <2>8. CASE Guard(h) BY <2>8, GuardKeeps
    <2>9. CASE \E outcome \in {"assessed", "thin", "errored"} : Probe(h, outcome)
      BY <2>9, ProbeKeeps
    <2>10. CASE Shift(h) BY <2>10, ShiftKeeps
    <2>11. CASE \E recovered \in BOOLEAN : Verify(h, recovered) BY <2>11, VerifyKeeps
    <2>12. CASE HealRaises(h) BY <2>12, HealRaisesKeeps
    <2> QED
      BY <1>1, <2>1, <2>2, <2>3, <2>4, <2>5, <2>6, <2>7, <2>8, <2>9, <2>10, <2>11, <2>12
      DEF HealStep
  <1>2. CASE World BY <1>2, WorldKeeps
  <1>3. CASE UNCHANGED decisionvars
    BY <1>3 DEF decisionvars, cloud, store, DecisionInv, HealOK, Levelled, Guarded, Probed, Calm,
                Crosses, ConditionOf
  <1> QED BY <1>1, <1>2, <1>3 DEF DecisionNext

LEMMA InitiallyOK == DecisionInit => DecisionInv
  BY DecisionAssumption DEF DecisionInit, DecisionInv, HealOK

\* The invariant the theorems below rest on.
THEOREM DecisionInvariant == DecisionSpec => []DecisionInv
  BY InitiallyOK, StepKeeps, PTL DEF DecisionSpec

\* However many heals fold however many samples, BaselineNeverLearnsUp: with the
\* baseline guard on, a slow burn never becomes the normal (observe_healthy).
THEOREM BaselineHolds == DecisionSpec => []BaselineNeverLearnsUp
  <1>1. DecisionInv => BaselineNeverLearnsUp BY DEF DecisionInv, BaselineNeverLearnsUp
  <1> QED BY <1>1, DecisionInvariant, PTL


\* What is not a heal's own step does not move it on.
LEMMA OthersKeepPc ==
  ASSUME DecisionInv, NEW h \in Heals, Active(h), NEW g \in Heals, g # h, HealStep(g)
  PROVE  run'[h].pc = run[h].pc
  <1>1. CASE \E l : To(g, l) BY <1>1 DEF To, DecisionInv
  <1>2. CASE \E kind \in Kind : \E s, down, l : run' = [Learn(kind, s, down) EXCEPT ![g] = l]
    <2>0. PICK kind \in Kind : \E s, down, l : run' = [Learn(kind, s, down) EXCEPT ![g] = l] BY <1>2
    <2>1. PICK s, down, l : run' = [Learn(kind, s, down) EXCEPT ![g] = l] BY <2>0
    <2>2. run'[h] = Learn(kind, s, down)[h] BY <2>1 DEF Learn
    <2> QED BY <2>2, OthersLearn DEF Learned
  <1>3. "traffic" \in Kind /\ "level" \in Kind BY DEF Kind
  <1>4. CASE Shift(g)
    <2>1. run' = [Learn("traffic", run[g].target, outage) EXCEPT
                    ![g] = [run[g] EXCEPT !.pc = "verify", !.since = {}, !.why = {}, !.hurt = FALSE]]
      BY <1>4 DEF Shift
    <2> QED BY <1>2, <1>3, <2>1
  <1>5. ASSUME NEW recovered, Verify(g, recovered) PROVE run'[h].pc = run[h].pc
    <2>1. (\E l : To(g, l)) \/ run' = [Learn("level", serving, outage) EXCEPT ![g] = NoRun]
      BY <1>5 DEF Verify
    <2> QED BY <1>1, <1>2, <1>3, <2>1
  <1>6. CASE Triage(g) \/ Fold(g) \/ Witness(g) BY <1>1, <1>6 DEF Triage, Fold, Witness, End
  <1>7. ASSUME NEW s, NEW lat, Detect(g, s, lat) PROVE \E l : To(g, l) BY <1>7 DEF Detect
  <1>8. ASSUME NEW advice, NEW sure, Decide(g, advice, sure) PROVE \E l : To(g, l)
    BY <1>8 DEF Decide, End
  <1>9. CASE ReadLevel(g) \/ Guard(g) \/ HealRaises(g)
    BY <1>1, <1>9 DEF ReadLevel, Guard, HealRaises, End
  <1>10. ASSUME NEW approve, Answer(g, approve) PROVE \E l : To(g, l) BY <1>10 DEF Answer, End
  <1>11. ASSUME NEW outcome, Probe(g, outcome) PROVE \E l : To(g, l) BY <1>11 DEF Probe, End
  <1>12. ASSUME NEW clean, Certify(g, clean) PROVE \E l : To(g, l) BY <1>12 DEF Certify, End
  <1> QED BY <1>1, <1>4, <1>5, <1>6, <1>7, <1>8, <1>9, <1>10, <1>11, <1>12 DEF HealStep

LEMMA WorldKeepsPc ==
  ASSUME DecisionInv, NEW h \in Heals, Active(h), World
  PROVE  run'[h].pc = run[h].pc
  <1>1. PICK kind \in Kind : run' = Learn(kind, serving', outage')
    BY DEF World, DeployRevision, RetireRevision, MoveTraffic, WitnessAges, DependencyTurns,
           OperatorSets, Happens, Kind
  <1> QED BY <1>1, OthersLearn DEF Learned

\* A heal moves the traffic by nothing but its Shift.
LEMMA OnlyShiftShifts ==
  ASSUME DecisionInv, [DecisionNext]_decisionvars, NEW h \in Heals, Shifts(h)
  PROVE  Shift(h)
  <1>1. run[h].pc = "shift" /\ run'[h].pc = "verify" /\ Active(h)
    BY DEF Shifts, Active, NoRun
  <1>2. HealStep(h)
    <2>1. CASE World BY <1>1, <2>1, WorldKeepsPc
    <2>2. CASE UNCHANGED decisionvars BY <1>1, <2>2 DEF decisionvars
    <2>3. ASSUME NEW g \in Heals, g # h, HealStep(g) PROVE FALSE BY <1>1, <2>3, OthersKeepPc
    <2> QED BY <2>1, <2>2, <2>3 DEF DecisionNext
  <1>3. ~HealRaises(h)
    <2>1. HealRaises(h) => run'[h] = NoRun BY DEF HealRaises, End, To, DecisionInv
    <2> QED BY <1>1, <2>1 DEF NoRun
  <1> QED
    BY <1>1, <1>2, <1>3 DEF HealStep, Triage, Detect, Decide, Fold, Witness, ReadLevel, Answer,
                            Guard, Probe, Verify, Certify

LEMMA Shifting ==
  ASSUME DecisionInv, [DecisionNext]_decisionvars, NEW h \in Heals, Shifts(h)
  PROVE  /\ run[h].pc = "shift" /\ serving' = run[h].target /\ run[h].target \in existing
         /\ Levelled(run[h]) /\ Guarded(run[h]) /\ Probed(run[h])
  <1>1. Shift(h) BY OnlyShiftShifts
  <1>2. run[h].pc = "shift" /\ serving' = run[h].target /\ run[h].target \in existing
    BY <1>1 DEF Shift
  <1> QED BY <1>2, RunIsWhole

\* ActsAboveItsLevelOnlyBy, for any number of heals: traffic moves at an
\* autonomous level or by an approval, unless the level changed after
\* _heal_body had read it.
THEOREM LevelIsObeyed == DecisionSpec => ActsAboveItsLevelOnlyBy
  <1>1. ASSUME DecisionInv, [DecisionNext]_decisionvars, NEW h \in Heals, Shifts(h)
        PROVE  run[h].approved \/ level = "L3" \/ "level" \in run[h].since
    BY <1>1, Shifting DEF Levelled
  <1>2. DecisionInv /\ [DecisionNext]_decisionvars =>
        [\A h \in Heals : Shifts(h) =>
           run[h].approved \/ level = "L3" \/ "level" \in run[h].since]_decisionvars
    BY <1>1
  <1> QED BY <1>2, DecisionInvariant, PTL DEF DecisionSpec, ActsAboveItsLevelOnlyBy

\* CrossesMigrationOnlyBy, for any revisions and annotations: a rollback across
\* a declared change needs traffic or revisions to have changed after the look
\* of the guard (reversibility.check).
THEOREM MigrationsAreNotCrossed == DecisionSpec => CrossesMigrationOnlyBy
  <1>1. ASSUME DecisionInv, [DecisionNext]_decisionvars, NEW h \in Heals, Shifts(h),
               Crosses(serving', serving)
        PROVE  run[h].since \cap {"traffic", "deploy"} # {}
    BY <1>1, Shifting DEF Guarded
  <1>2. DecisionInv /\ [DecisionNext]_decisionvars =>
        [\A h \in Heals : Shifts(h) /\ Crosses(serving', serving) =>
           run[h].since \cap {"traffic", "deploy"} # {}]_decisionvars
    BY <1>1
  <1> QED BY <1>2, DecisionInvariant, PTL DEF DecisionSpec, CrossesMigrationOnlyBy

\* FutileShiftOnlyBy, for any conditions: traffic lands on a revision as sick as
\* the one it leaves only in the ways that are named (causal.precheck).
THEOREM FutileShiftsAreExplained == DecisionSpec => FutileShiftOnlyBy
  <1>1. ASSUME DecisionInv, [DecisionNext]_decisionvars, NEW h \in Heals, Shifts(h),
               ConditionOf(serving') \in Degraded(run[h].sig)
        PROVE  "health" \in run[h].since \/ run[h].why \cap {"thin", "vouched", "blind"} # {}
    BY <1>1, Shifting DEF Probed
  <1>2. DecisionInv /\ [DecisionNext]_decisionvars =>
        [\A h \in Heals : Shifts(h) /\ ConditionOf(serving') \in Degraded(run[h].sig) =>
           "health" \in run[h].since \/ run[h].why \cap {"thin", "vouched", "blind"} # {}]_decisionvars
    BY <1>1
  <1> QED BY <1>2, DecisionInvariant, PTL DEF DecisionSpec, FutileShiftOnlyBy

-------------------------------------------------------------------------------
(* What a heal knows of the service's health: the invariant. *)

\* The baseline was learned down, and there is noise to be taken for failure.
Shaky == baseline < Seed /\ \E r \in Revisions : quality[r] = "noisy"

\* The heal has decided to roll back, or was told to.
Rolling(l) ==
  \/ l.pc \in {"level", "waiting", "guard", "probe", "shift"}
  \/ l.pc = "detect" /\ l.approved
  \/ l.pc = "decide" /\ l.verdict \notin {"PASS", "INCONCLUSIVE"}

\* Until it acts, a heal that saw no sickness is at a service that is well, and
\* rolls it back on noise only; what it may fold is below the seed, or zero.
HurtOK(l) ==
  /\ l.pc \notin {"verify", "certify"} /\ ~l.hurt => ~Sick(ConditionOf(serving))
  /\ Rolling(l) => l.hurt \/ Shaky
  /\ l.pc = "fold" \/ (l.pc = "decide" /\ l.verdict = "PASS") => l.rate < Seed \/ l.rate = 0

\* What a heal is about to vouch for served in health, or it has said why it
\* cannot tell; and what it looks at serves, unless traffic moved.
FitOK(l) ==
  /\ l.pc = "detect" => l.saw = serving \/ "traffic" \in l.since
  /\ l.pc = "verify" => l.target = serving \/ "traffic" \in l.since
  /\ (l.pc = "decide" /\ HealthyWitness(l)) \/ l.pc \in {"fold", "witness", "certify"}
       => l.fit.fit \/ l.fit.why # {}

HealthOK(l) == l = NoRun \/ (HurtOK(l) /\ FitOK(l))

HealthInv ==
  /\ quality \in Qualities
  /\ existing \subseteq Revisions /\ serving \in existing
  /\ \A h \in Heals : HealthOK(run[h])

-------------------------------------------------------------------------------
(* Its steps. *)

\* A step that changes the locals of one heal and nothing of the service.
LEMMA OneHealthMoves ==
  ASSUME DecisionInv, HealthInv, NEW h \in Heals, NEW l, To(h, l), HealthOK(l),
         UNCHANGED cloud, baseline < Seed => baseline' < Seed
  PROVE  HealthInv'
  <1>1. UNCHANGED <<serving, existing, quality, outage>> BY DEF cloud
  <1>2. ASSUME NEW g \in Heals, HealthOK(run'[g]) PROVE HealthOK(run[g])'
    BY <1>1, <1>2 DEF HealthOK, HurtOK, FitOK, Rolling, Shaky, ConditionOf, HealthyWitness
  <1>3. ASSUME NEW g \in Heals PROVE HealthOK(run'[g])
    <2>1. CASE g = h BY <2>1 DEF To, DecisionInv
    <2>2. CASE g # h
      <3>1. run'[g] = run[g] BY <2>2 DEF To, DecisionInv
      <3> QED BY <3>1 DEF HealthInv
    <2> QED BY <2>1, <2>2
  <1> QED BY <1>1, <1>2, <1>3 DEF HealthInv

LEMMA EndHealthy ==
  ASSUME DecisionInv, HealthInv, NEW h \in Heals, End(h), UNCHANGED cloud,
         baseline < Seed => baseline' < Seed
  PROVE  HealthInv'
  <1>1. HealthOK(NoRun) BY DEF HealthOK
  <1> QED BY <1>1, OneHealthMoves DEF End

\* What a heal under way holds.
LEMMA Holds ==
  ASSUME DecisionInv, HealthInv, NEW h \in Heals, run[h].pc # "idle" \/ Active(h)
  PROVE  /\ Active(h) /\ HurtOK(run[h]) /\ FitOK(run[h])
         /\ \E R, K, V, F : run[h] \in Local(R, K, V, F)
  BY RunIsWhole DEF HealthInv, HealthOK, Active, Whole

LEMMA TriageHealthy ==
  ASSUME DecisionInv, HealthInv, NEW h \in Heals, Triage(h)
  PROVE  HealthInv'
  <1> DEFINE l == [pc |-> "detect", approved |-> FALSE, saw |-> serving, known |-> existing,
                   verdict |-> "none", rate |-> 0, sig |-> "unknown", vouched |-> {},
                   target |-> Nobody, why |-> {}, since |-> {},
                   hurt |-> Sick(ConditionOf(serving)), fit |-> NoStamp]
  <1>1. To(h, l) /\ UNCHANGED <<cloud, store>> BY DEF Triage
  <1>2. /\ l.pc = "detect" /\ l.approved = FALSE /\ l.saw = serving
        /\ (l.hurt <=> Sick(ConditionOf(serving)))
    BY Zenon
  <1> HIDE DEF l
  <1>3. HealthOK(l) BY <1>2 DEF HealthOK, HurtOK, FitOK, Rolling
  <1>4. UNCHANGED cloud /\ (baseline < Seed => baseline' < Seed) BY <1>1 DEF store
  <1> QED BY <1>1, <1>3, <1>4, OneHealthMoves

\* A service that is well is judged to fail on noise only; one that is sick is
\* judged to pass, or seen without an error, only for want of a sample.
LEMMA Judging ==
  ASSUME DecisionInv, HealthInv, NEW s \in Samples[ConditionOf(serving)] \cup {NoSample},
         NEW lat \in Latency(ConditionOf(serving))
  PROVE  LET v == Fuse({Analyze(s, BaselineFor), lat})
         IN /\ v \in {"PASS", "FAIL", "INCONCLUSIVE"}
            /\ v = "FAIL" => Sick(ConditionOf(serving)) \/ Shaky
            /\ v = "PASS" => s.rate < Seed
            /\ v = "PASS" \/ (v = "INCONCLUSIVE" /\ s.rate = 0)
                 => ~Sick(ConditionOf(serving)) \/ s = NoSample \/ lat = "INCONCLUSIVE"
  <1> DEFINE c == ConditionOf(serving)
             five == Analyze(s, BaselineFor)
             v == Fuse({five, lat})
  <1>1. c \in Condition /\ (c = "noisy" => quality[serving] = "noisy") /\ serving \in Revisions
    BY DecisionAssumption DEF HealthInv, ConditionOf, Condition
  <1>2. /\ BaselineFor \in Nat /\ BaselineFor <= Seed /\ baseline <= BaselineFor
        /\ baseline \in Nat /\ Seed \in Nat
    BY BaselineRead, DecisionAssumption DEF DecisionInv, BaselineFor
  <1>3. s = NoSample \/ (s \in Samples[c] /\ s \in Sample /\ s.lo <= s.rate /\ s.rate <= s.hi)
    BY <1>1, DecisionAssumption
  <1>4. /\ s.lo \in Nat /\ s.hi \in Nat /\ s.rate \in Nat /\ s.errs \in Nat /\ MinErrors \in Nat
        /\ s.rate <= s.hi
    <2>1. MinErrors \in Nat BY DecisionAssumption
    <2>2. CASE s = NoSample BY <2>1, <2>2 DEF NoSample
    <2>3. CASE s \in Sample /\ s.rate <= s.hi
      <3>1. s.lo \in 0..1000 /\ s.hi \in 0..1000 /\ s.rate \in 0..1000 /\ s.errs \in Nat
        BY <2>3 DEF Sample
      <3>2. \A x \in 0..1000 : x \in Nat OBVIOUS
      <3> QED BY <2>1, <2>3, <3>1, <3>2
    <2> QED BY <1>3, <2>2, <2>3
  <1>5. /\ five = "FAIL" => s.lo > BaselineFor /\ s.errs >= MinErrors
        /\ five = "PASS" => s.hi < BaselineFor
        /\ five \in {"PASS", "FAIL", "INCONCLUSIVE"}
    BY DEF Analyze
  <1>6. /\ lat \in {"PASS", "FAIL", "INCONCLUSIVE"}
        /\ lat = "FAIL" <=> (c = "slow" /\ lat # "INCONCLUSIVE")
    BY DEF Latency
  <1> HIDE DEF c, five
  <1>7. /\ v \in {"PASS", "FAIL", "INCONCLUSIVE"}
        /\ v = "FAIL" => five = "FAIL" \/ lat = "FAIL"
        /\ v # "FAIL" => five # "FAIL" /\ lat # "FAIL"
        /\ v = "PASS" => five = "PASS" /\ lat = "PASS"
    <2>1. /\ v = "FAIL" <=> "FAIL" \in {five, lat}
          /\ v \in {"PASS", "FAIL", "INCONCLUSIVE"}
          /\ v = "PASS" => "FAIL" \notin {five, lat} /\ "INCONCLUSIVE" \notin {five, lat}
      BY DEF Fuse
    <2> QED BY <1>5, <1>6, <2>1
  <1>8. ASSUME v = "FAIL" PROVE Sick(c) \/ Shaky
    <2>1. CASE lat = "FAIL" BY <1>6, <2>1 DEF Sick
    <2>2. CASE five = "FAIL"
      <3>1. s.lo > BaselineFor /\ s.errs >= MinErrors BY <1>5, <2>2
      <3>2. s # NoSample BY <1>2, <3>1 DEF NoSample
      <3>3. s \in Samples[c] BY <1>3, <3>2
      <3>4. c # "good" BY <1>4, <3>1, <3>3, ConditionAssumption
      <3>5. ASSUME c = "noisy" PROVE Shaky
        <4>1. s.lo <= Seed BY <1>4, <3>1, <3>3, <3>5, ConditionAssumption
        <4>2. baseline < Seed BY <1>2, <1>4, <3>1, <4>1
        <4> QED BY <1>1, <3>5, <4>2 DEF Shaky
      <3> QED BY <1>1, <3>4, <3>5 DEF Sick, Condition
    <2> QED BY <1>7, <1>8, <2>1, <2>2
  <1>9. ASSUME v = "PASS" PROVE s.rate < Seed
    <2>1. s.hi < BaselineFor BY <1>5, <1>7, <1>9
    <2> QED BY <1>2, <1>4, <2>1
  <1>10. ASSUME v = "PASS" \/ (v = "INCONCLUSIVE" /\ s.rate = 0), s # NoSample, lat # "INCONCLUSIVE"
         PROVE  ~Sick(c)
    <2>1. v # "FAIL" BY <1>10
    <2>2. c # "slow" BY <1>6, <1>7, <1>10, <2>1
    <2>3. s \in Samples[c] BY <1>3, <1>10
    <2>4. ASSUME c = "bad" PROVE FALSE
      <3>1. s.rate > 0 /\ s.hi >= Seed BY <2>3, <2>4, ConditionAssumption
      <3>2. v = "PASS" BY <1>4, <1>10, <3>1
      <3>3. s.hi < BaselineFor BY <1>5, <1>7, <3>2
      <3> QED BY <1>2, <1>4, <3>1, <3>3
    <2> QED BY <2>2, <2>4 DEF Sick
  <1> QED BY <1>7, <1>8, <1>9, <1>10 DEF c, five

LEMMA DetectHealthy ==
  ASSUME DecisionInv, HealthInv, NEW h \in Heals, NEW s, NEW lat, Detect(h, s, lat)
  PROVE  HealthInv'
  <1> DEFINE five == Analyze(s, BaselineFor)
             v == Fuse({five, lat})
             unsampled == s = NoSample \/ lat = "INCONCLUSIVE"
             fit == serving = run[h].saw /\ ~Sick(ConditionOf(serving))
             why == (run[h].since \cap {"traffic"}) \cup (IF unsampled THEN {"unsampled"} ELSE {})
             stamp == [fit |-> fit, why |-> why]
             witnesses == IF run[h].approved THEN {} ELSE Witnessed
             label == IF run[h].approved THEN "fold" ELSE "decide"
             sig == PrimarySignal(five, lat)
             bound == Bound(h, "guard", run[h].target)
             l == [bound EXCEPT !.sig = sig]
             m == [run[h] EXCEPT !.verdict = v, !.rate = s.rate, !.sig = sig, !.fit = stamp,
                                 !.since = {}, !.vouched = witnesses, !.pc = label]
  <1>1. /\ run[h].pc = "detect" /\ UNCHANGED <<cloud, store>>
        /\ s \in Samples[ConditionOf(serving)] \cup {NoSample}
        /\ lat \in Latency(ConditionOf(serving))
        /\ To(h, IF run[h].approved /\ v # "PASS" THEN l ELSE m)
    BY DEF Detect
  <1>2. /\ Active(h) /\ HurtOK(run[h]) /\ FitOK(run[h])
        /\ \E R, K, V, F : run[h] \in Local(R, K, V, F)
    BY <1>1, Holds
  <1>3. PICK R, K, V, F : run[h] \in Local(R, K, V, F) BY <1>2
  <1>4. /\ v \in {"PASS", "FAIL", "INCONCLUSIVE"}
        /\ v = "FAIL" => Sick(ConditionOf(serving)) \/ Shaky
        /\ v = "PASS" => s.rate < Seed
        /\ v = "PASS" \/ (v = "INCONCLUSIVE" /\ s.rate = 0)
             => ~Sick(ConditionOf(serving)) \/ s = NoSample \/ lat = "INCONCLUSIVE"
    BY <1>1, Judging
  <1>5. UNCHANGED cloud /\ (baseline < Seed => baseline' < Seed) BY <1>1 DEF store
  <1> HIDE DEF v, five
  <1>6. CASE run[h].approved /\ v # "PASS"
    <2>1. bound = [run[h] EXCEPT !.pc = "guard", !.target = run[h].target, !.saw = Nobody,
                     !.known = {}, !.vouched = {}, !.verdict = "none", !.rate = 0,
                     !.fit = NoStamp, !.since = {}]
      BY DEF Bound
    <2> HIDE DEF bound, sig
    <2>2. l.pc = "guard" /\ (l.hurt <=> run[h].hurt) BY <1>3, <2>1 DEF Local
    <2>3. run[h].hurt \/ Shaky BY <1>1, <1>2, <1>6 DEF HurtOK, Rolling
    <2>4. ~run[h].hurt => ~Sick(ConditionOf(serving)) BY <1>1, <1>2 DEF HurtOK
    <2> HIDE DEF l
    <2>5. HealthOK(l) BY <2>2, <2>3, <2>4 DEF HealthOK, HurtOK, FitOK
    <2> QED BY <1>1, <1>5, <1>6, <2>5, OneHealthMoves
  <1>7. CASE ~(run[h].approved /\ v # "PASS")
    <2> HIDE DEF stamp, witnesses, label, sig, l
    <2>1. /\ m.pc = label /\ m.verdict = v /\ m.rate = s.rate /\ m.fit = stamp
          /\ (m.hurt <=> run[h].hurt)
      BY <1>3 DEF Local
    <2>2. label \in {"fold", "decide"} /\ (label = "fold" => v = "PASS") BY <1>7 DEF label
    <2>3. ~run[h].hurt => ~Sick(ConditionOf(serving)) BY <1>1, <1>2 DEF HurtOK
    <2>4. (stamp.fit <=> fit) /\ stamp.why = why BY Zenon DEF stamp
    <2> HIDE DEF m
    <2>5. HurtOK(m)
      <3>1. Rolling(m) => v = "FAIL" BY <1>4, <2>1, <2>2 DEF Rolling
      <3>2. Rolling(m) => m.hurt \/ Shaky BY <1>4, <2>1, <2>3, <3>1
      <3>3. m.pc = "fold" \/ (m.pc = "decide" /\ m.verdict = "PASS") => m.rate < Seed
        BY <1>4, <2>1, <2>2
      <3> QED BY <2>1, <2>3, <3>2, <3>3 DEF HurtOK
    <2>6. FitOK(m)
      <3>1. run[h].saw = serving \/ "traffic" \in run[h].since BY <1>1, <1>2 DEF FitOK
      <3>2. ASSUME v = "PASS" \/ (v = "INCONCLUSIVE" /\ s.rate = 0) PROVE fit \/ why # {}
        <4>1. ~Sick(ConditionOf(serving)) \/ unsampled BY <1>4, <3>2
        <4> QED BY <3>1, <4>1
      <3>3. /\ (m.pc = "decide" /\ HealthyWitness(m)) \/ m.pc \in {"fold", "witness", "certify"}
                 => v = "PASS" \/ (v = "INCONCLUSIVE" /\ s.rate = 0)
        BY <2>1, <2>2 DEF HealthyWitness
      <3>4. m.fit = stamp /\ m.pc # "detect" /\ m.pc # "verify" BY <2>1, <2>2
      <3> HIDE DEF fit, why
      <3> QED BY <2>4, <3>2, <3>3, <3>4 DEF FitOK
    <2>7. HealthOK(m) BY <2>5, <2>6 DEF HealthOK
    <2> QED BY <1>1, <1>5, <1>7, <2>7, OneHealthMoves
  <1> QED BY <1>6, <1>7

LEMMA DecideHealthy ==
  ASSUME DecisionInv, HealthInv, NEW h \in Heals, NEW advice, NEW sure, Decide(h, advice, sure)
  PROVE  HealthInv'
  <1> DEFINE d == Validate(h, advice, sure)
             l == Bound(h, "level", d.target)
             m == [run[h] EXCEPT !.pc = "fold", !.vouched = {}]
  <1>1. /\ run[h].pc = "decide" /\ UNCHANGED <<cloud, store>>
        /\ \/ d.action = "ROLLBACK" /\ To(h, l)
           \/ HealthyWitness(run[h]) /\ To(h, m)
           \/ End(h)
    BY DEF Decide
  <1>2. /\ Active(h) /\ HurtOK(run[h]) /\ FitOK(run[h])
        /\ \E R, K, V, F : run[h] \in Local(R, K, V, F)
    BY <1>1, Holds
  <1>3. PICK R, K, V, F : run[h] \in Local(R, K, V, F) BY <1>2
  <1>4. UNCHANGED cloud /\ (baseline < Seed => baseline' < Seed) BY <1>1 DEF store
  <1>5. d.action = "ROLLBACK" => run[h].verdict \notin {"PASS", "INCONCLUSIVE"}
    BY DEF Validate, Observe, Escalate
  <1>6. ASSUME d.action = "ROLLBACK" PROVE HealthOK(l)
    <2>1. run[h].hurt \/ Shaky BY <1>1, <1>2, <1>5, <1>6 DEF HurtOK, Rolling
    <2>2. ~run[h].hurt => ~Sick(ConditionOf(serving)) BY <1>1, <1>2 DEF HurtOK
    <2> HIDE DEF d
    <2>3. l.pc = "level" /\ (l.hurt <=> run[h].hurt) BY <1>3 DEF Local, Bound
    <2> HIDE DEF l
    <2> QED BY <2>1, <2>2, <2>3 DEF HealthOK, HurtOK, FitOK
  <1>7. ASSUME HealthyWitness(run[h]) PROVE HealthOK(m)
    <2>1. /\ m.pc = "fold" /\ (m.hurt <=> run[h].hurt) /\ m.rate = run[h].rate
          /\ m.fit = run[h].fit
      BY <1>3 DEF Local
    <2> HIDE DEF m
    <2>2. run[h].rate < Seed \/ run[h].rate = 0
      BY <1>1, <1>2, <1>7 DEF HurtOK, HealthyWitness
    <2>3. run[h].fit.fit \/ run[h].fit.why # {} BY <1>1, <1>2, <1>7 DEF FitOK
    <2>4. HurtOK(m) BY <1>1, <1>2, <2>1, <2>2 DEF HurtOK, Rolling
    <2>5. FitOK(m) BY <2>1, <2>3 DEF FitOK
    <2> QED BY <2>4, <2>5 DEF HealthOK
  <1> HIDE DEF d, l, m
  <1> QED BY <1>1, <1>4, <1>6, <1>7, EndHealthy, OneHealthMoves

\* What is folded below the seed into a baseline below it stays below it.
LEMMA FoldStaysStrict ==
  ASSUME DecisionInv, NEW rate \in Nat, rate < Seed, baseline < Seed
  PROVE  Folded(rate) < Seed
  <1> DEFINE ema == (rate + 4 * baseline) \div 5
  <1>1. ema \in Nat /\ ema < Seed BY DecisionAssumption DEF DecisionInv
  <1>2. baseline \in Nat /\ Seed \in Nat /\ MaxDrift \in Nat
    BY DecisionAssumption DEF DecisionInv
  <1>3. Folded(rate) = IF ema > baseline + MaxDrift THEN baseline + MaxDrift
                       ELSE IF ema < baseline - MaxDrift THEN baseline - MaxDrift ELSE ema
    BY DEF Folded
  <1> HIDE DEF ema
  <1> QED BY <1>1, <1>2, <1>3

LEMMA FoldHealthy ==
  ASSUME DecisionInv, HealthInv, NEW h \in Heals, Fold(h)
  PROVE  HealthInv'
  <1> DEFINE m == [run[h] EXCEPT !.pc = "witness"]
  <1>1. run[h].pc = "fold" /\ To(h, m) /\ baseline' = Folded(run[h].rate) /\ UNCHANGED cloud
    BY DEF Fold
  <1>2. /\ HurtOK(run[h]) /\ FitOK(run[h]) /\ \E R, K, V, F : run[h] \in Local(R, K, V, F)
    BY <1>1, Holds
  <1>3. PICK R, K, V, F : run[h] \in Local(R, K, V, F) BY <1>2
  <1>4. run[h].rate \in Nat /\ (run[h].rate < Seed \/ run[h].rate = 0)
    BY <1>1, <1>2, <1>3 DEF HurtOK, Local
  <1>5. baseline < Seed => baseline' < Seed
    <2> SUFFICES ASSUME baseline < Seed PROVE baseline' < Seed
      OBVIOUS
    <2>1. run[h].rate < Seed BY <1>4, DecisionAssumption DEF DecisionInv
    <2> QED BY <1>1, <1>4, <2>1, FoldStaysStrict
  <1>6. m.pc = "witness" /\ (m.hurt <=> run[h].hurt) /\ m.fit = run[h].fit BY <1>3 DEF Local
  <1> HIDE DEF m
  <1>7. HealthOK(m) BY <1>1, <1>2, <1>6 DEF HealthOK, HurtOK, FitOK, Rolling
  <1> QED BY <1>1, <1>5, <1>7, OneHealthMoves

LEMMA EndsHealthy ==
  ASSUME DecisionInv, HealthInv, NEW h \in Heals,
         Witness(h) \/ HealRaises(h) \/ \E clean \in BOOLEAN : Certify(h, clean)
  PROVE  HealthInv'
  <1>1. End(h) /\ UNCHANGED <<cloud, baseline>> BY DEF Witness, HealRaises, Certify, store
  <1> QED BY <1>1, EndHealthy

\* A heal that goes on rolling back as it was.
LEMMA RollsOn ==
  ASSUME DecisionInv, HealthInv, NEW h \in Heals, Rolling(run[h]), run[h].pc \notin {"verify", "certify"},
         NEW l, l.hurt <=> run[h].hurt, l.pc \in {"waiting", "guard", "probe", "shift"}, To(h, l),
         UNCHANGED <<cloud, baseline>>
  PROVE  HealthInv'
  <1>1. run[h].pc # "idle" BY DEF Rolling
  <1>2. HurtOK(run[h]) BY <1>1, Holds
  <1>3. HealthOK(l) BY <1>2 DEF HealthOK, HurtOK, FitOK
  <1> QED BY <1>3, OneHealthMoves

LEMMA GateHealthy ==
  ASSUME DecisionInv, HealthInv, NEW h \in Heals,
         ReadLevel(h) \/ Guard(h) \/ \E outcome \in {"assessed", "thin", "errored"} : Probe(h, outcome)
  PROVE  HealthInv'
  <1> DEFINE wait == [run[h] EXCEPT !.pc = "waiting"]
             act == [run[h] EXCEPT !.pc = "guard", !.since = {}]
             probe == [run[h] EXCEPT !.pc = "probe", !.since = @ \cap {"level"}]
             seen == [run[h] EXCEPT !.pc = "shift", !.since = @ \ {"health"}]
             on(w) == [seen EXCEPT !.why = @ \cup {w}]
             again == [run[h] EXCEPT !.why = @ \cup {"again"}]
  <1>1. /\ run[h].pc \in {"level", "guard", "probe"} /\ UNCHANGED <<cloud, store>>
        /\ \/ End(h) \/ To(h, wait) \/ To(h, act) \/ To(h, probe) \/ To(h, seen)
           \/ \E w \in {"thin", "blind", "vouched"} : To(h, on(w))
           \/ run[h].pc = "probe" /\ To(h, again)
    BY DEF ReadLevel, Guard, Probe
  <1>2. /\ \E R, K, V, F : run[h] \in Local(R, K, V, F)
        /\ Rolling(run[h]) /\ UNCHANGED <<cloud, baseline>>
    BY <1>1, Holds DEF Rolling, store
  <1>3. PICK R, K, V, F : run[h] \in Local(R, K, V, F) BY <1>2
  <1>4. /\ wait.pc = "waiting" /\ (wait.hurt <=> run[h].hurt)
        /\ act.pc = "guard" /\ (act.hurt <=> run[h].hurt)
        /\ probe.pc = "probe" /\ (probe.hurt <=> run[h].hurt)
        /\ seen.pc = "shift" /\ (seen.hurt <=> run[h].hurt)
    BY <1>3 DEF Local
  <1>5. \A w : on(w).pc = "shift" /\ (on(w).hurt <=> run[h].hurt)
    BY <1>3 DEF Local
  <1>6. again.pc = run[h].pc /\ (again.hurt <=> run[h].hurt) BY <1>3 DEF Local
  <1> HIDE DEF wait, act, probe, seen, on, again
  <1> QED BY <1>1, <1>2, <1>4, <1>5, <1>6, EndHealthy, RollsOn

LEMMA AnswerHealthy ==
  ASSUME DecisionInv, HealthInv, NEW h \in Heals, NEW approve, Answer(h, approve)
  PROVE  HealthInv'
  <1> DEFINE m == [run[h] EXCEPT !.pc = "detect", !.approved = TRUE, !.saw = serving,
                                 !.known = existing, !.since = {}]
  <1>1. run[h].pc = "waiting" /\ UNCHANGED <<cloud, store>> /\ (End(h) \/ To(h, m))
    BY DEF Answer
  <1>2. HurtOK(run[h]) /\ \E R, K, V, F : run[h] \in Local(R, K, V, F) BY <1>1, Holds
  <1>3. PICK R, K, V, F : run[h] \in Local(R, K, V, F) BY <1>2
  <1>4. m.pc = "detect" /\ (m.hurt <=> run[h].hurt) /\ m.saw = serving BY <1>3 DEF Local
  <1> HIDE DEF m
  <1>5. HealthOK(m) BY <1>1, <1>2, <1>4 DEF HealthOK, HurtOK, FitOK, Rolling
  <1>6. UNCHANGED cloud /\ (baseline < Seed => baseline' < Seed) BY <1>1 DEF store
  <1> QED BY <1>1, <1>5, <1>6, EndHealthy, OneHealthMoves

-------------------------------------------------------------------------------
(* The steps the other heals learn of. *)

\* What a heal learns of a step: how the service was after it, and whether
\* traffic moved.
LEMMA LearnsHealth ==
  ASSUME DecisionInv, HealthInv, NEW h \in Heals, NEW kind \in Kind,
         run'[h] = Learn(kind, serving', outage')[h], quality' = quality, baseline' = baseline,
         kind = "traffic" \/ serving' = serving
  PROVE  HealthOK(run[h])'
  <1>1. CASE ~Active(h)
    <2>1. run'[h] = NoRun BY <1>1 DEF Learn, Active
    <2> QED BY <2>1 DEF HealthOK, NoRun
  <1>2. CASE Active(h)
    <2> DEFINE c == IF outage' THEN "bad" ELSE quality[serving']
               S == run[h].since \cup {kind}
               b == run[h].hurt \/ Sick(c)
               m == [run[h] EXCEPT !.since = S, !.hurt = b]
    <2>1. HurtOK(run[h]) /\ FitOK(run[h]) /\ \E R, K, V, F : run[h] \in Local(R, K, V, F)
      BY <1>2, Holds
    <2>2. PICK R, K, V, F : run[h] \in Local(R, K, V, F) BY <2>1
    <2>3. run'[h] = m BY <1>2 DEF Learn, Active
    <2> HIDE DEF S, b
    <2>4. /\ m.pc = run[h].pc /\ m.approved = run[h].approved /\ m.verdict = run[h].verdict
          /\ m.rate = run[h].rate /\ m.saw = run[h].saw /\ m.target = run[h].target
          /\ m.fit = run[h].fit /\ m.since = S /\ (m.hurt <=> b)
      BY <2>2 DEF Local
    <2> HIDE DEF m
    <2>5. c = ConditionOf(serving)' BY DEF ConditionOf
    <2> HIDE DEF c
    <2>6. HurtOK(run[h])'
      <3>1. (Shaky => Shaky') /\ (Rolling(run[h])' => Rolling(run[h]))
        BY <2>3, <2>4 DEF Shaky, Rolling
      <3>2. run[h].pc \notin {"verify", "certify"} /\ ~m.hurt => ~Sick(ConditionOf(serving)')
        BY <2>4, <2>5 DEF b
      <3>3. Rolling(run[h])' => m.hurt \/ Shaky' BY <2>1, <2>4, <3>1 DEF HurtOK, b
      <3>4. run[h].pc = "fold" \/ (run[h].pc = "decide" /\ run[h].verdict = "PASS")
              => run[h].rate < Seed \/ run[h].rate = 0
        BY <2>1 DEF HurtOK
      <3> QED BY <2>3, <2>4, <3>2, <3>3, <3>4 DEF HurtOK, Sick, ConditionOf
    <2>7. FitOK(run[h])'
      <3>1. run[h].pc = "detect" => m.saw = serving' \/ "traffic" \in m.since
        BY <2>1, <2>4 DEF FitOK, S
      <3>2. run[h].pc = "verify" => m.target = serving' \/ "traffic" \in m.since
        BY <2>1, <2>4 DEF FitOK, S
      <3> QED BY <2>1, <2>3, <2>4, <3>1, <3>2 DEF FitOK, HealthyWitness
    <2> QED BY <2>6, <2>7 DEF HealthOK
  <1> QED BY <1>1, <1>2

LEMMA NewerIs ==
  ASSUME NEW S \in SUBSET Revisions, S # {}
  PROVE  Newer(S) \in S
  BY NewestAssumption DEF Newer

LEMMA WorldHealthy ==
  ASSUME DecisionInv, HealthInv, World
  PROVE  HealthInv'
  <1>1. /\ quality' = quality /\ baseline' = baseline
        /\ existing' \subseteq Revisions /\ serving' \in existing'
        /\ \E kind \in Kind :
             run' = Learn(kind, serving', outage') /\ (kind = "traffic" \/ serving' = serving)
    <2>1. ASSUME NEW takes \in BOOLEAN, DeployRevision(takes) PROVE <1>1!:
      <3>1. Newer(Revisions \ existing) \in Revisions
        <4>1. Revisions \ existing \in SUBSET Revisions /\ Revisions \ existing # {}
          BY <2>1 DEF DeployRevision, HealthInv
        <4> QED BY <4>1, NewerIs
      <3> QED BY <2>1, <3>1 DEF DeployRevision, Happens, Kind, HealthInv
    <2>2. ASSUME NEW r \in Revisions, RetireRevision(r) PROVE <1>1!:
      BY <2>2 DEF RetireRevision, Happens, Kind, HealthInv
    <2>3. ASSUME NEW r \in Revisions, MoveTraffic(r) PROVE <1>1!:
      BY <2>3 DEF MoveTraffic, Happens, Kind, HealthInv
    <2>4. ASSUME NEW r \in Revisions, WitnessAges(r) PROVE <1>1!:
      BY <2>4 DEF WitnessAges, Happens, Kind, HealthInv
    <2>5. CASE DependencyTurns
      BY <2>5 DEF DependencyTurns, Happens, Kind, HealthInv
    <2>6. ASSUME NEW l \in {"L0", "L1", "L3"}, OperatorSets(l) PROVE <1>1!:
      BY <2>6 DEF OperatorSets, Happens, Kind, HealthInv
    <2> QED BY <2>1, <2>2, <2>3, <2>4, <2>5, <2>6 DEF World
  <1>2. \A h \in Heals : HealthOK(run[h])' BY <1>1, LearnsHealth
  <1> QED BY <1>1, <1>2 DEF HealthInv

\* The traffic is where the heal put it.
LEMMA ShiftHealthy ==
  ASSUME DecisionInv, HealthInv, NEW h \in Heals, Shift(h)
  PROVE  HealthInv'
  <1> DEFINE t == run[h].target
             l == [run[h] EXCEPT !.pc = "verify", !.since = {}, !.why = {}, !.hurt = FALSE]
  <1>1. /\ run[h].pc = "shift" /\ t \in existing /\ serving' = t
        /\ UNCHANGED <<existing, quality, outage, store>>
        /\ run' = [Learn("traffic", t, outage) EXCEPT ![h] = l]
    BY DEF Shift
  <1>2. PICK R, K, V, F : run[h] \in Local(R, K, V, F) BY <1>1, Holds
  <1>3. l.pc = "verify" /\ l.target = t BY <1>2 DEF Local
  <1> HIDE DEF l
  <1>4. run'[h] = l BY <1>1 DEF Learn
  <1>5. HealthOK(run[h])' BY <1>1, <1>3, <1>4 DEF HealthOK, HurtOK, FitOK, Rolling
  <1>6. ASSUME NEW g \in Heals, g # h PROVE HealthOK(run[g])'
    <2>1. run'[g] = Learn("traffic", serving', outage')[g] BY <1>1, <1>6 DEF Learn
    <2>2. "traffic" \in Kind /\ baseline' = baseline /\ quality' = quality
      BY <1>1 DEF Kind, store
    <2> QED BY <2>1, <2>2, LearnsHealth
  <1> QED BY <1>1, <1>5, <1>6 DEF HealthInv

LEMMA VerifyHealthy ==
  ASSUME DecisionInv, HealthInv, NEW h \in Heals, NEW recovered \in BOOLEAN, Verify(h, recovered)
  PROVE  HealthInv'
  <1> DEFINE c == ConditionOf(serving)
             fit == serving = run[h].target /\ c \notin Degraded(run[h].sig)
             why == run[h].since \cap {"traffic"}
             stamp == [fit |-> fit, why |-> why]
             l == [run[h] EXCEPT !.pc = "certify", !.fit = stamp]
  <1>1. /\ run[h].pc = "verify" /\ UNCHANGED <<cloud, baseline>>
        /\ recovered \in Recovers(run[h].sig, c)
        /\ \/ recovered /\ To(h, l)
           \/ run' = [Learn("level", serving, outage) EXCEPT ![h] = NoRun]
    BY DEF Verify
  <1>2. FitOK(run[h]) /\ \E R, K, V, F : run[h] \in Local(R, K, V, F) BY <1>1, Holds
  <1>3. PICK R, K, V, F : run[h] \in Local(R, K, V, F) BY <1>2
  <1>4. CASE recovered /\ To(h, l)
    <2>1. c \notin Degraded(run[h].sig)
      BY <1>1, <1>4 DEF Recovers, Degraded
    <2>2. fit \/ why # {} BY <1>1, <1>2, <2>1 DEF FitOK
    <2>3. (stamp.fit <=> fit) /\ stamp.why = why BY Zenon
    <2> HIDE DEF stamp, fit, why
    <2>4. l.pc = "certify" /\ l.fit = stamp BY <1>3 DEF Local
    <2> HIDE DEF l
    <2>5. HealthOK(l) BY <2>2, <2>3, <2>4 DEF HealthOK, HurtOK, FitOK, Rolling
    <2> QED BY <1>1, <1>4, <2>5, OneHealthMoves
  <1>5. CASE run' = [Learn("level", serving, outage) EXCEPT ![h] = NoRun]
    <2>1. UNCHANGED <<serving, existing, quality, outage>> BY <1>1 DEF cloud
    <2>2. ASSUME NEW g \in Heals PROVE HealthOK(run[g])'
      <3>1. CASE g = h
        <4>1. run'[g] = NoRun BY <1>5, <3>1 DEF Learn
        <4> QED BY <4>1 DEF HealthOK, NoRun
      <3>2. CASE g # h
        <4>1. run'[g] = Learn("level", serving', outage')[g] BY <1>5, <2>1, <3>2 DEF Learn
        <4>2. "level" \in Kind BY DEF Kind
        <4> QED BY <1>1, <2>1, <4>1, <4>2, LearnsHealth
      <3> QED BY <3>1, <3>2
    <2> QED BY <2>1, <2>2 DEF HealthInv
  <1> QED BY <1>1, <1>4, <1>5

LEMMA HealthStep ==
  ASSUME DecisionInv, HealthInv, [DecisionNext]_decisionvars
  PROVE  HealthInv'
  <1>1. ASSUME NEW h \in Heals, HealStep(h) PROVE HealthInv'
    <2>1. CASE Triage(h) BY <2>1, TriageHealthy
    <2>2. ASSUME NEW s, NEW lat, Detect(h, s, lat) PROVE HealthInv' BY <2>2, DetectHealthy
    <2>3. ASSUME NEW advice, NEW sure, Decide(h, advice, sure) PROVE HealthInv'
      BY <2>3, DecideHealthy
    <2>4. CASE Fold(h) BY <2>4, FoldHealthy
    <2>5. CASE Witness(h) \/ HealRaises(h) \/ \E clean \in BOOLEAN : Certify(h, clean)
      BY <2>5, EndsHealthy
    <2>6. CASE \/ ReadLevel(h) \/ Guard(h)
               \/ \E outcome \in {"assessed", "thin", "errored"} : Probe(h, outcome)
      BY <2>6, GateHealthy
    <2>7. ASSUME NEW approve, Answer(h, approve) PROVE HealthInv' BY <2>7, AnswerHealthy
    <2>8. CASE Shift(h) BY <2>8, ShiftHealthy
    <2>9. ASSUME NEW recovered \in BOOLEAN, Verify(h, recovered) PROVE HealthInv'
      BY <2>9, VerifyHealthy
    <2> QED BY <1>1, <2>1, <2>2, <2>3, <2>4, <2>5, <2>6, <2>7, <2>8, <2>9 DEF HealStep
  <1>2. CASE World BY <1>2, WorldHealthy
  <1>3. CASE UNCHANGED decisionvars
    BY <1>3 DEF decisionvars, cloud, store, HealthInv, HealthOK, HurtOK, FitOK, Rolling, Shaky,
                ConditionOf, HealthyWitness
  <1> QED BY <1>1, <1>2, <1>3 DEF DecisionNext

LEMMA InitiallyHealthy == DecisionInit => HealthInv
  BY DEF DecisionInit, HealthInv, HealthOK

\* What every heal knows of the service's health: it acts on what it saw, and
\* vouches for what it saw served well, or says what it could not see.
THEOREM HealthInvariant == DecisionSpec => []HealthInv
  <1>1. DecisionInv /\ HealthInv /\ [DecisionNext]_decisionvars => HealthInv' BY HealthStep
  <1> QED BY <1>1, InitiallyHealthy, DecisionInvariant, PTL DEF DecisionSpec

\* HealthyServiceLeftAlone, for any revisions and samples: whatever the language
\* model advises, a service that was well all the time since the heal began
\* keeps its traffic, unless noise was judged by a baseline learned down.
THEOREM HealthyServiceStays == DecisionSpec => HealthyServiceLeftAlone
  <1>1. ASSUME DecisionInv, HealthInv, NEW h \in Heals, Shifts(h)
        PROVE  run[h].hurt \/ (baseline < Seed /\ \E r \in Revisions : quality[r] = "noisy")
    <2>1. run[h].pc = "shift" BY <1>1 DEF Shifts
    <2>2. HurtOK(run[h]) BY <1>1, <2>1, Holds
    <2> QED BY <2>1, <2>2 DEF HurtOK, Rolling, Shaky
  <1>2. DecisionInv /\ HealthInv =>
        [\A h \in Heals : Shifts(h) =>
           run[h].hurt \/ (baseline < Seed /\ \E r \in Revisions : quality[r] = "noisy")]_decisionvars
    BY <1>1
  <1> QED BY <1>2, DecisionInvariant, HealthInvariant, PTL DEF HealthyServiceLeftAlone

\* WitnessedUnfitOnlyBy, for any number of heals: the ledger vouches only for a
\* revision that served in health when it was judged, unless traffic moved
\* meanwhile or the judgement had no sample (_healthy_witness).
THEOREM WitnessesServedWell == DecisionSpec => WitnessedUnfitOnlyBy
  <1>1. ASSUME DecisionInv, HealthInv, NEW h \in Heals, Stamps(h)
        PROVE  run[h].fit.fit \/ run[h].fit.why # {}
    <2>1. run[h].pc \in {"witness", "certify"} BY <1>1 DEF Stamps
    <2>2. FitOK(run[h]) BY <1>1, <2>1, Holds
    <2> QED BY <2>1, <2>2 DEF FitOK
  <1>2. DecisionInv /\ HealthInv =>
        [\A h \in Heals : Stamps(h) => run[h].fit.fit \/ run[h].fit.why # {}]_decisionvars
    BY <1>1
  <1> QED BY <1>2, DecisionInvariant, HealthInvariant, PTL DEF WitnessedUnfitOnlyBy

===============================================================================
