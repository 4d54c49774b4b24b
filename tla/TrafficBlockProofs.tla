--------------------------- MODULE TrafficBlockProofs ---------------------------
(***************************************************************************)
(* Proofs about TrafficBlock, for any number of writers, revisions, stages *)
(* and attempts: what the writes of the causal probe do to the block, what *)
(* they leave on it, and whose evidence a tagged address gives.            *)
(***************************************************************************)
EXTENDS TrafficBlock, TLAPS

--------------------------------------------------------------------------------
(* The invariant. *)

Local ==
  [pc : {"read", "update", "look", "gate"}, kind : {"route", "canary", "tag", "restore"},
   rev : Revs, targets : Block, original : Block, attempt : 1..MaxAttempts,
   fresh : BOOLEAN, stale : BOOLEAN, moved : BOOLEAN]

TypeOK ==
  /\ traffic \in Block
  /\ write \in [Writers -> {Quiet} \cup Local]
  /\ marred \in BOOLEAN

\* What a writer writes, and where it may be.
PlanOK(l) ==
  /\ l.kind \in {"route", "canary"} => l.targets.causal = None
  /\ l.kind = "canary" => l.targets.fix = l.rev
  /\ l.kind = "tag" => l.targets = ProbeTargets(l.original, l.rev)
  /\ l.kind = "restore" => l.targets = l.original
  /\ l.pc = "look" => l.kind = "tag"
  /\ l.pc = "gate" => l.kind = "canary"

\* What a writer may rely on as long as no other write has landed.
InPlace(l, block) ==
  /\ l.kind \in {"tag", "restore"} /\ ~l.stale => block.split = l.original.split
  /\ l.pc = "look" /\ ~l.moved => block.causal = l.rev
  /\ l.pc = "gate" /\ ~l.moved => block.fix = l.rev

Sound(l, block) == PlanOK(l) /\ InPlace(l, block)

Probes(l) == l # Quiet /\ l.kind \in {"tag", "restore"}
Probing(w) == Probes(write[w])

\* A probe that will put back a tag it found.
Relays(l) == Probes(l) /\ ~l.stale /\ l.original.causal # None

\* A tag on the block, or one that will come back, is some probe's to remove.
TagIsOwned ==
  /\ traffic.causal # None => marred \/ \E w \in Writers : Probing(w)
  /\ \A w \in Writers :
       Relays(write[w]) => marred \/ \E v \in Writers \ {w} : Probing(v)

TrafficInv ==
  /\ TypeOK
  /\ \A w \in Writers : Busy(w) => Sound(write[w], traffic)
  /\ TagIsOwned

--------------------------------------------------------------------------------
(* A writer's locals. *)

LEMMA QuietIs == Quiet \notin Local /\ Quiet.pc = "idle" /\ ~Probes(Quiet) /\ ~Relays(Quiet)
  BY DEF Quiet, Local, Probes, Relays

LEMMA WholeIs ==
  ASSUME NEW r \in Revs
  PROVE  Whole(r) \in Block /\ Whole(r).causal = None
  BY DEF Whole, Block

LEMMA SplitIs ==
  ASSUME NEW fix \in Revs, NEW safe \in Revs, NEW pct \in Stages
  PROVE  LET b == SplitTargets(fix, safe, pct)
         IN  b \in Block /\ b.causal = None /\ b.fix = fix
  <1>1. pct \in 1..100 BY TrafficAssumption
  <1>2. \A p \in {pct, 100 - pct} : p > 0 => p \in 1..100 BY <1>1
  <1>3. {share \in {<<fix, pct>>, <<safe, 100 - pct>>} : share[2] > 0} \subseteq Revs \X (1..100)
    BY <1>2
  <1> QED BY <1>3 DEF SplitTargets, Block

LEMMA ProbeTargetsIs ==
  ASSUME NEW b \in Block, NEW r \in Revs
  PROVE  LET t == ProbeTargets(b, r)
         IN  t \in Block /\ t.causal = r /\ t.split = b.split /\ t.fix = b.fix
  BY DEF ProbeTargets, Block

LEMMA WritingIs ==
  ASSUME NEW kind \in {"route", "canary", "tag"}, NEW r \in Revs,
         NEW targets \in Block, NEW original \in Block
  PROVE  LET l == Writing(kind, r, targets, original)
         IN  /\ l \in Local /\ l # Quiet /\ l.kind = kind /\ l.pc = "read" /\ l.rev = r
             /\ l.targets = targets /\ l.original = original /\ ~l.stale
  BY QuietIs, TrafficAssumption DEF Writing, Local

\* What the end of a call leaves of a probe: it goes on, or restores.
LEMMA RestoringIs ==
  ASSUME NEW w, write[w] \in Local
  PROVE  LET l == Restoring(w)
         IN  /\ l \in Local /\ l # Quiet /\ l.kind = "restore" /\ l.pc = "read"
             /\ l.targets = write[w].original /\ l.original = write[w].original
             /\ l.stale = write[w].stale /\ l.rev = write[w].rev
  <1>1. 1 \in 1..MaxAttempts BY TrafficAssumption
  <1>2. Restoring(w) = [write[w] EXCEPT !.pc = "read", !.kind = "restore",
                          !.targets = write[w].original, !.attempt = 1, !.fresh = FALSE]
    BY DEF Restoring
  <1> QED BY <1>1, <1>2, QuietIs DEF Local

LEMMA ThenIs ==
  ASSUME NEW w, write[w] \in Local
  PROVE  LET l == Then(w)
         IN  /\ l \in {Quiet} \cup Local
             /\ l # Quiet => /\ write[w].kind \in {"tag", "canary"} /\ l.kind = write[w].kind
                             /\ l.pc = (IF l.kind = "tag" THEN "look" ELSE "gate")
                             /\ l.targets = write[w].targets /\ l.original = write[w].original
                             /\ l.rev = write[w].rev /\ l.stale = write[w].stale
             /\ l = Quiet => write[w].kind \notin {"tag", "canary"}
  <1>1. CASE write[w].kind = "tag"
    <2>1. Then(w) = [write[w] EXCEPT !.pc = "look", !.moved = FALSE] BY <1>1 DEF Then
    <2> QED BY <1>1, <2>1, QuietIs DEF Local
  <1>2. CASE write[w].kind = "canary"
    <2>1. Then(w) = [write[w] EXCEPT !.pc = "gate", !.moved = FALSE] BY <1>2 DEF Then
    <2> QED BY <1>2, <2>1, QuietIs DEF Local
  <1>3. CASE write[w].kind \notin {"tag", "canary"}
    <2>1. Then(w) = Quiet BY <1>3 DEF Then
    <2> QED BY <1>3, <2>1
  <1> QED BY <1>1, <1>2, <1>3

--------------------------------------------------------------------------------
(* The block. *)

\* What a step does to the writers that do not take it when the block stays.
LEMMA BlockStays ==
  ASSUME TrafficInv, NEW w \in Writers, NEW l \in {Quiet} \cup Local,
         write' = [write EXCEPT ![w] = l], traffic' = traffic,
         marred' \in BOOLEAN, marred => marred',
         l # Quiet => Sound(l, traffic),
         Probing(w) => Probes(l) \/ marred',
         Relays(l) => marred' \/ \E v \in Writers \ {w} : Probing(v)
  PROVE  TrafficInv'
  <1>1. /\ write \in [Writers -> {Quiet} \cup Local] /\ traffic \in Block
        /\ \A v \in Writers : Busy(v) => Sound(write[v], traffic)
        /\ traffic.causal # None => marred \/ \E v \in Writers : Probing(v)
        /\ \A v \in Writers : Relays(write[v]) => marred \/ \E x \in Writers \ {v} : Probing(x)
    BY DEF TrafficInv, TypeOK, TagIsOwned
  <1>2. write'[w] = l /\ \A v \in Writers \ {w} : write'[v] = write[v] BY <1>1
  <1>3. TypeOK' BY <1>1 DEF TypeOK
  <1>4. \A v \in Writers : Busy(v)' => Sound(write'[v], traffic') BY <1>1, <1>2 DEF Busy
  <1>5. Probing(w)' = Probes(l) /\ \A v \in Writers \ {w} : Probing(v)' = Probing(v)
    BY <1>2 DEF Probing
  <1>6. traffic'.causal # None => marred' \/ \E v \in Writers : Probing(v)'
    <2> SUFFICES ASSUME traffic'.causal # None, ~marred' PROVE \E v \in Writers : Probing(v)'
      OBVIOUS
    <2>1. PICK v \in Writers : Probing(v) BY <1>1
    <2>2. CASE v = w BY <1>5, <2>1, <2>2
    <2>3. CASE v # w BY <1>5, <2>1, <2>3
    <2> QED BY <2>2, <2>3
  <1>7. \A v \in Writers : Relays(write'[v]) => marred' \/ \E x \in Writers \ {v} : Probing(x)'
    <2> SUFFICES ASSUME NEW v \in Writers, Relays(write'[v]), ~marred'
                 PROVE  \E x \in Writers \ {v} : Probing(x)'
      OBVIOUS
    <2>1. CASE v = w
      <3>1. PICK x \in Writers \ {w} : Probing(x) BY <1>2, <2>1
      <3> QED BY <1>5, <2>1, <3>1
    <2>2. CASE v # w
      <3>1. PICK x \in Writers \ {v} : Probing(x) BY <1>1, <1>2, <2>2
      <3>2. CASE x = w BY <1>5, <2>2, <3>1, <3>2
      <3>3. CASE x # w BY <1>5, <3>1, <3>3
      <3> QED BY <3>2, <3>3
    <2> QED BY <2>1, <2>2
  <1> QED BY <1>3, <1>4, <1>6, <1>7 DEF TrafficInv, TagIsOwned

LEMMA BeginKeeps ==
  ASSUME TrafficInv, NEW w \in Writers, NEW l \in Local, Begin(w, l), l # Quiet, Sound(l, traffic),
         Relays(l) => traffic.causal # None
  PROVE  TrafficInv'
  <1>1. write[w] = Quiet /\ write' = [write EXCEPT ![w] = l] /\ traffic' = traffic /\ marred' = marred
    BY DEF Begin
  <1>2. ~Probing(w) BY <1>1, QuietIs DEF Probing
  <1>3. marred' \in BOOLEAN BY <1>1 DEF TrafficInv, TypeOK
  <1>4. Relays(l) => marred' \/ \E v \in Writers \ {w} : Probing(v)
    BY <1>1, <1>2 DEF TrafficInv, TagIsOwned
  <1> QED BY <1>1, <1>2, <1>3, <1>4, BlockStays

--------------------------------------------------------------------------------
(* The actions. *)

LEMMA RouteKeeps ==
  ASSUME TrafficInv, NEW w \in Writers, NEW r \in Revs, Rollback(w, r)
  PROVE  TrafficInv'
  <1> DEFINE l == Writing("route", r, Whole(r), Whole(r))
  <1>1. Whole(r) \in Block /\ Whole(r).causal = None BY WholeIs
  <1>2. l \in Local /\ l # Quiet /\ l.kind = "route" /\ l.pc = "read" /\ l.targets = Whole(r)
    BY <1>1, WritingIs
  <1>3. Begin(w, l) BY DEF Rollback
  <1> HIDE DEF l
  <1>4. Sound(l, traffic) /\ ~Relays(l) BY <1>1, <1>2 DEF Sound, PlanOK, InPlace, Relays, Probes
  <1> QED BY <1>2, <1>3, <1>4, BeginKeeps

LEMMA NewestIs ==
  ASSUME NEW S \in SUBSET Revs, S # {}
  PROVE  Newest(S) \in Revs
  <1>1. \E r \in S : \A q \in S : q <= r BY TrafficAssumption
  <1> QED BY <1>1 DEF Newest

LEMMA SplitKeeps ==
  ASSUME TrafficInv, NEW w \in Writers, NEW fix \in Revs, NEW safe \in Revs, NEW pct \in Stages,
         SetTrafficSplit(w, fix, safe, pct)
  PROVE  TrafficInv'
  <1> DEFINE t == SplitTargets(fix, safe, pct)
             l == Writing("canary", fix, t, Whole(safe))
  <1>1. t \in Block /\ t.causal = None /\ t.fix = fix BY SplitIs
  <1>2. Begin(w, l) BY DEF SetTrafficSplit
  <1> HIDE DEF t
  <1>3. /\ l \in Local /\ l # Quiet /\ l.kind = "canary" /\ l.pc = "read" /\ l.targets = t
        /\ l.rev = fix
    BY <1>1, WholeIs, WritingIs
  <1> HIDE DEF l
  <1>4. Sound(l, traffic) /\ ~Relays(l) BY <1>1, <1>3 DEF Sound, PlanOK, InPlace, Relays, Probes
  <1> QED BY <1>2, <1>3, <1>4, BeginKeeps

LEMMA ProbeKeeps ==
  ASSUME TrafficInv, NEW w \in Writers, NEW r \in Revs, ProbeRevisionHealth(w, r)
  PROVE  TrafficInv'
  <1> DEFINE t == ProbeTargets(traffic, r)
             l == Writing("tag", r, t, traffic)
  <1>1. traffic \in Block BY DEF TrafficInv, TypeOK
  <1>2. t \in Block BY <1>1, ProbeTargetsIs
  <1>3. Begin(w, l) BY DEF ProbeRevisionHealth
  <1>4. /\ l \in Local /\ l # Quiet /\ l.kind = "tag" /\ l.pc = "read" /\ l.targets = t
        /\ l.rev = r /\ l.original = traffic
    BY <1>1, <1>2, WritingIs
  <1>5. l.targets = ProbeTargets(l.original, l.rev) BY <1>4
  <1> HIDE DEF l, t
  <1>6. Sound(l, traffic) BY <1>4, <1>5 DEF Sound, PlanOK, InPlace
  <1>7. Relays(l) => traffic.causal # None BY <1>4 DEF Relays
  <1> QED BY <1>3, <1>4, <1>6, <1>7, BeginKeeps

\* A writer that goes on with what it had decided.
LEMMA SamePlan ==
  ASSUME TrafficInv, NEW w \in Writers, NEW l \in Local, write[w] \in Local,
         l.kind = write[w].kind, l.rev = write[w].rev, l.targets = write[w].targets,
         l.original = write[w].original, l.stale = write[w].stale, l.pc \in {"read", "update"},
         write' = [write EXCEPT ![w] = l], traffic' = traffic, marred' = marred
  PROVE  TrafficInv'
  <1>1. l # Quiet /\ write[w] # Quiet BY QuietIs
  <1>2. Sound(write[w], traffic) /\ marred \in BOOLEAN BY <1>1 DEF TrafficInv, TypeOK, Busy
  <1>3. Sound(l, traffic) BY <1>2 DEF Sound, PlanOK, InPlace
  <1>4. (Probing(w) => Probes(l)) /\ (Relays(l) => Relays(write[w]))
    BY <1>1 DEF Probing, Probes, Relays
  <1>5. Relays(l) => marred' \/ \E v \in Writers \ {w} : Probing(v)
    BY <1>4 DEF TrafficInv, TagIsOwned
  <1>6. l \in {Quiet} \cup Local /\ marred' \in BOOLEAN /\ (marred => marred') BY <1>2
  <1> QED BY <1>3, <1>4, <1>5, <1>6, BlockStays

\* A writer that is over, whether its restore was or not.
LEMMA StopKeeps ==
  ASSUME TrafficInv, NEW w \in Writers, write' = [write EXCEPT ![w] = Quiet], traffic' = traffic,
         marred' \in BOOLEAN, marred => marred', Probing(w) => marred'
  PROVE  TrafficInv'
  BY QuietIs, BlockStays

\* A probe that turns to its restore.
LEMMA RestoringKeeps ==
  ASSUME TrafficInv, NEW w \in Writers, write[w] \in Local, write[w].kind = "tag",
         write' = [write EXCEPT ![w] = Restoring(w)], traffic' = traffic, marred' = marred
  PROVE  TrafficInv'
  <1> DEFINE l == Restoring(w)
  <1>1. /\ l \in Local /\ l # Quiet /\ l.kind = "restore" /\ l.pc = "read"
        /\ l.targets = write[w].original /\ l.original = write[w].original
        /\ l.stale = write[w].stale
    BY RestoringIs
  <1> HIDE DEF l
  <1>2. write[w] # Quiet BY QuietIs
  <1>3. Sound(write[w], traffic) /\ marred \in BOOLEAN BY <1>2 DEF TrafficInv, TypeOK, Busy
  <1>4. Sound(l, traffic) BY <1>1, <1>3 DEF Sound, PlanOK, InPlace
  <1>5. Probes(l) /\ (Relays(l) => Relays(write[w])) BY <1>1, <1>2 DEF Probes, Relays
  <1>6. Relays(l) => marred' \/ \E v \in Writers \ {w} : Probing(v)
    BY <1>5 DEF TrafficInv, TagIsOwned
  <1>7. l \in {Quiet} \cup Local /\ marred' \in BOOLEAN /\ (marred => marred')
        /\ write' = [write EXCEPT ![w] = l]
    BY <1>1, <1>3 DEF l
  <1> QED BY <1>4, <1>5, <1>6, <1>7, BlockStays

\* A call that raises.
LEMMA RaisedKeeps ==
  ASSUME TrafficInv, NEW w \in Writers, write[w] \in Local,
         write' = [write EXCEPT ![w] = Raised(w)], traffic' = traffic,
         marred' = (marred \/ write[w].kind = "restore")
  PROVE  TrafficInv'
  <1>1. marred \in BOOLEAN BY DEF TrafficInv, TypeOK
  <1>2. CASE write[w].kind = "tag"
    <2>1. Raised(w) = Restoring(w) /\ marred' = marred BY <1>1, <1>2 DEF Raised
    <2> QED BY <1>2, <2>1, RestoringKeeps
  <1>3. CASE write[w].kind # "tag"
    <2>1. Raised(w) = Quiet BY <1>3 DEF Raised
    <2>2. Probing(w) => marred' BY <1>3 DEF Probing, Probes
    <2>3. marred' \in BOOLEAN /\ (marred => marred') OBVIOUS
    <2> QED BY <2>1, <2>2, <2>3, StopKeeps
  <1> QED BY <1>2, <1>3

LEMMA WriterIs ==
  ASSUME TrafficInv, NEW w \in Writers, write[w].pc \in {"read", "update", "look", "gate"}
  PROVE  write[w] \in Local /\ write[w] # Quiet /\ Sound(write[w], traffic)
  <1>1. write[w] # Quiet BY QuietIs
  <1> QED BY <1>1 DEF TrafficInv, TypeOK, Busy

\* What a write leaves of its writer and of the others.
LEMMA RacedIs ==
  ASSUME TrafficInv, NEW w \in Writers, NEW l \in {Quiet} \cup Local, write' = Raced(w, l)
  PROVE  /\ write' \in [Writers -> {Quiet} \cup Local] /\ write'[w] = l
         /\ \A v \in Writers \ {w} :
              /\ Busy(v)' = Busy(v) /\ Probing(v)' = Probing(v) /\ ~Relays(write'[v])
              /\ write'[v].pc = write[v].pc
              /\ Busy(v) => /\ write'[v].stale /\ write'[v].moved
                            /\ PlanOK(write'[v])
  <1>1. write \in [Writers -> {Quiet} \cup Local] BY DEF TrafficInv, TypeOK
  <1>2. write'[w] = l BY DEF Raced
  <1>3. ASSUME NEW v \in Writers \ {w}
        PROVE  /\ write'[v] \in {Quiet} \cup Local
               /\ Busy(v)' = Busy(v) /\ Probing(v)' = Probing(v) /\ ~Relays(write'[v])
               /\ write'[v].pc = write[v].pc
               /\ Busy(v) => write'[v].stale /\ write'[v].moved /\ PlanOK(write'[v])
    <2>1. CASE write[v] = Quiet
      <3>1. write'[v] = Quiet BY <2>1 DEF Raced
      <3> QED BY <2>1, <3>1, QuietIs DEF Busy, Probing
    <2>2. CASE write[v] # Quiet
      <3>1. write[v] \in Local /\ PlanOK(write[v])
        BY <1>1, <2>2 DEF TrafficInv, Busy, Sound
      <3>2. write'[v] = [write[v] EXCEPT !.fresh = FALSE, !.stale = TRUE, !.moved = TRUE]
        BY <2>2 DEF Raced
      <3>3. /\ write'[v] \in Local /\ write'[v].stale /\ write'[v].moved
            /\ write'[v].pc = write[v].pc /\ write'[v].kind = write[v].kind
            /\ write'[v].rev = write[v].rev /\ write'[v].targets = write[v].targets
            /\ write'[v].original = write[v].original
        BY <3>1, <3>2 DEF Local
      <3>4. PlanOK(write'[v]) BY <3>1, <3>3 DEF PlanOK
      <3>5. write'[v] # Quiet BY <3>3, QuietIs
      <3>6. Busy(v)' = Busy(v) BY <2>2, <3>5 DEF Busy
      <3>7. Probing(v)' = Probing(v) BY <2>2, <3>3, <3>5 DEF Probing, Probes
      <3>8. ~Relays(write'[v]) BY <3>3 DEF Relays
      <3> QED BY <3>3, <3>4, <3>6, <3>7, <3>8
    <2> QED BY <2>1, <2>2
  <1>4. \A v \in Writers : write'[v] \in {Quiet} \cup Local BY <1>2, <1>3
  <1>5. write' = [v \in Writers |-> write'[v]] BY DEF Raced
  <1>6. write' \in [Writers -> {Quiet} \cup Local] BY <1>4, <1>5
  <1> QED BY <1>2, <1>3, <1>6

LEMMA UpdateKeeps ==
  ASSUME TrafficInv, NEW w \in Writers, NEW answered \in BOOLEAN, Update(w, answered)
  PROVE  TrafficInv'
  <1> DEFINE l == IF answered THEN Then(w) ELSE Raised(w)
  <1>1. write[w].pc = "update" /\ ~Refused(w) /\ traffic' = write[w].targets
        /\ write' = Raced(w, l)
        /\ marred' = (marred \/ (write[w].kind = "restore" /\ (write[w].stale \/ ~answered)))
    BY DEF Update
  <1>2. write[w] \in Local /\ write[w] # Quiet /\ Sound(write[w], traffic) BY <1>1, WriterIs
  <1>3. /\ l \in {Quiet} \cup Local
        /\ l # Quiet => /\ write[w].kind \in {"tag", "canary"}
                        /\ l.original = write[w].original /\ l.rev = write[w].rev
                        /\ l.stale = write[w].stale
                        /\ \/ l.kind = write[w].kind /\ l.targets = write[w].targets
                              /\ l.pc = (IF l.kind = "tag" THEN "look" ELSE "gate")
                           \/ l.kind = "restore" /\ write[w].kind = "tag" /\ l.pc = "read"
                              /\ l.targets = write[w].original
        /\ write[w].kind = "tag" => l # Quiet
    <2>1. CASE answered BY <1>2, <2>1, ThenIs
    <2>2. CASE ~answered
      <3>1. CASE write[w].kind = "tag" BY <1>2, <2>2, <3>1, RestoringIs DEF Raised
      <3>2. CASE write[w].kind # "tag"
        <4>1. l = Quiet BY <2>2, <3>2 DEF Raised
        <4> QED BY <3>2, <4>1
      <3> QED BY <3>1, <3>2
    <2> QED BY <2>1, <2>2
  <1> HIDE DEF l
  <1>4. /\ write' \in [Writers -> {Quiet} \cup Local] /\ write'[w] = l
        /\ \A v \in Writers \ {w} :
             /\ Busy(v)' = Busy(v) /\ Probing(v)' = Probing(v) /\ ~Relays(write'[v])
             /\ Busy(v) => write'[v].stale /\ write'[v].moved /\ PlanOK(write'[v])
    BY <1>1, <1>3, RacedIs
  <1>5. TypeOK'
    <2>1. traffic' \in Block BY <1>1, <1>2 DEF Local
    <2>2. marred' \in BOOLEAN BY <1>1
    <2> QED BY <1>4, <2>1, <2>2 DEF TypeOK
  <1>6. \A v \in Writers : Busy(v)' => Sound(write'[v], traffic')
    <2>1. ASSUME NEW v \in Writers \ {w}, Busy(v)' PROVE Sound(write'[v], traffic')
      BY <1>4, <2>1 DEF Sound, InPlace
    <2>2. ASSUME l # Quiet PROVE Sound(l, traffic')
      <3>1. PlanOK(write[w]) BY <1>2 DEF Sound
      <3>2. PlanOK(l) BY <1>3, <2>2, <3>1 DEF PlanOK
      <3>3. write[w].kind = "tag" => traffic'.split = write[w].original.split
                                     /\ traffic'.causal = write[w].rev
        <4>1. write[w].original \in Block /\ write[w].rev \in Revs BY <1>2 DEF Local
        <4> QED BY <1>1, <3>1, <4>1, ProbeTargetsIs DEF PlanOK
      <3>4. write[w].kind = "canary" => traffic'.fix = write[w].rev BY <1>1, <3>1 DEF PlanOK
      <3>5. InPlace(l, traffic') BY <1>3, <2>2, <3>3, <3>4 DEF InPlace
      <3> QED BY <3>2, <3>5 DEF Sound
    <2> QED BY <1>4, <2>1, <2>2 DEF Busy
  <1>7. \A v \in Writers : Relays(write'[v]) => marred' \/ \E x \in Writers \ {v} : Probing(x)'
    <2>1. ~Relays(l)
      <3> SUFFICES ASSUME Relays(l) PROVE FALSE
        OBVIOUS
      <3>1. l # Quiet /\ l.kind \in {"tag", "restore"} /\ l.original.causal # None
        BY DEF Relays, Probes
      <3>2. write[w].kind = "tag" /\ write[w].original.causal # None BY <1>3, <3>1
      <3> QED BY <1>1, <3>2 DEF Refused
    <2> QED BY <1>4, <2>1
  <1>8. traffic'.causal # None => marred' \/ \E v \in Writers : Probing(v)'
    <2> SUFFICES ASSUME traffic'.causal # None, ~marred' PROVE \E v \in Writers : Probing(v)'
      OBVIOUS
    <2>1. write[w].kind \in {"tag", "restore"}
      BY <1>1, <1>2 DEF Sound, PlanOK, Local
    <2>2. CASE write[w].kind = "tag"
      <3>1. l # Quiet /\ l.kind \in {"tag", "restore"} BY <1>3, <2>2
      <3>2. Probing(w)' BY <1>4, <3>1 DEF Probing, Probes
      <3> QED BY <3>2
    <2>3. CASE write[w].kind = "restore"
      <3>1. ~write[w].stale /\ ~marred BY <1>1, <2>3
      <3>2. write[w].original.causal # None BY <1>1, <1>2, <2>3 DEF Sound, PlanOK
      <3>3. Relays(write[w]) BY <1>2, <2>3, <3>1, <3>2 DEF Relays, Probes
      <3>4. PICK v \in Writers \ {w} : Probing(v) BY <3>1, <3>3 DEF TrafficInv, TagIsOwned
      <3> QED BY <1>4, <3>4
    <2> QED BY <2>1, <2>2, <2>3
  <1> QED BY <1>5, <1>6, <1>7, <1>8 DEF TrafficInv, TagIsOwned

LEMMA TrafficStep ==
  ASSUME TrafficInv, [TrafficNext]_trafficvars
  PROVE  TrafficInv'
  <1>1. CASE UNCHANGED trafficvars
    BY <1>1 DEF trafficvars, TrafficInv, TypeOK, TagIsOwned, Busy, Probing
  <1>2. ASSUME NEW w \in Writers, WriterStep(w) PROVE TrafficInv'
    <2>1. CASE Fetch(w)
      <3>1. write[w].pc = "read" /\ traffic' = traffic /\ marred' = marred
            /\ write' = [write EXCEPT ![w] = [write[w] EXCEPT !.pc = "update", !.fresh = TRUE]]
        BY <2>1 DEF Fetch, TrafficInv, TypeOK
      <3> DEFINE l == [write[w] EXCEPT !.pc = "update", !.fresh = TRUE]
      <3>2. write[w] \in Local BY <3>1, WriterIs
      <3>3. /\ l \in Local /\ l.kind = write[w].kind /\ l.rev = write[w].rev /\ l.pc = "update"
            /\ l.targets = write[w].targets /\ l.original = write[w].original
            /\ l.stale = write[w].stale
        BY <3>2 DEF Local
      <3>4. write' = [write EXCEPT ![w] = l] BY <3>1
      <3> HIDE DEF l
      <3> QED BY <3>1, <3>2, <3>3, <3>4, SamePlan
    <2>2. CASE Conflict(w)
      <3>1. write[w].pc = "update" /\ traffic' = traffic
            /\ write' = [write EXCEPT ![w] = IF write[w].attempt < MaxAttempts THEN Again(w)
                                             ELSE Raised(w)]
            /\ marred' = (marred \/ (write[w].kind = "restore" /\ write[w].attempt = MaxAttempts))
        BY <2>2 DEF Conflict
      <3>2. write[w] \in Local /\ write[w].attempt \in 1..MaxAttempts BY <3>1, WriterIs DEF Local
      <3>3. marred \in BOOLEAN /\ MaxAttempts \in Nat BY TrafficAssumption DEF TrafficInv, TypeOK
      <3>4. CASE write[w].attempt < MaxAttempts
        <4> DEFINE l == Again(w)
        <4>1. write[w].attempt + 1 \in 1..MaxAttempts BY <3>2, <3>3, <3>4
        <4>2. /\ l \in Local /\ l.kind = write[w].kind /\ l.rev = write[w].rev /\ l.pc = "read"
              /\ l.targets = write[w].targets /\ l.original = write[w].original
              /\ l.stale = write[w].stale
          BY <3>2, <4>1 DEF Again, Local
        <4>3. write' = [write EXCEPT ![w] = l] BY <3>1, <3>4
        <4>4. write[w].attempt # MaxAttempts BY <3>2, <3>3, <3>4
        <4>5. marred' = marred BY <3>1, <3>3, <4>4
        <4> HIDE DEF l
        <4> QED BY <3>1, <3>2, <4>2, <4>3, <4>5, SamePlan
      <3>5. CASE ~(write[w].attempt < MaxAttempts)
        <4>1. write[w].attempt = MaxAttempts BY <3>2, <3>3, <3>5
        <4>2. write' = [write EXCEPT ![w] = Raised(w)] BY <3>1, <3>5
        <4>3. marred' = (marred \/ write[w].kind = "restore") BY <3>1, <4>1
        <4> QED BY <3>1, <3>2, <4>2, <4>3, RaisedKeeps
      <3> QED BY <3>4, <3>5
    <2>3. CASE Error(w)
      <3>1. write[w] \in Local BY <2>3, WriterIs DEF Error
      <3> QED BY <2>3, <3>1, RaisedKeeps DEF Error
    <2>4. CASE Crash(w)
      <3>1. /\ write' = [write EXCEPT ![w] = Quiet] /\ traffic' = traffic
            /\ marred' = (marred \/ write[w].kind \in {"tag", "restore"})
        BY <2>4 DEF Crash
      <3>2. marred' \in BOOLEAN /\ (marred => marred') /\ (Probing(w) => marred')
        BY <3>1 DEF Probing, Probes
      <3> QED BY <3>1, <3>2, StopKeeps
    <2>5. ASSUME NEW answered \in BOOLEAN, Update(w, answered) PROVE TrafficInv'
      BY <2>5, UpdateKeeps
    <2>6. CASE Look(w)
      <3>1. write[w] \in Local /\ write[w].kind = "tag"
        BY <2>6, WriterIs DEF Look, Sound, PlanOK
      <3> QED BY <2>6, <3>1, RestoringKeeps DEF Look
    <2>7. CASE ProbeCandidate(w)
      <3>1. write[w].kind = "canary" BY <2>7, WriterIs DEF ProbeCandidate, Sound, PlanOK
      <3>2. ~Probing(w) BY <3>1 DEF Probing, Probes
      <3>3. marred' \in BOOLEAN /\ (marred => marred')
        BY <2>7 DEF ProbeCandidate, TrafficInv, TypeOK
      <3> QED BY <2>7, <3>2, <3>3, StopKeeps DEF ProbeCandidate
    <2> QED BY <1>2, <2>1, <2>2, <2>3, <2>4, <2>5, <2>6, <2>7 DEF WriterStep
  <1>3. ASSUME NEW w \in Writers, WriterCall(w) PROVE TrafficInv'
    <2>1. ASSUME NEW r \in Revs, Rollback(w, r) PROVE TrafficInv' BY <2>1, RouteKeeps
    <2>2. ASSUME NEW r \in Revs, ProbeRevisionHealth(w, r) PROVE TrafficInv' BY <2>2, ProbeKeeps
    <2>3. CASE BreakTarget(w) \/ ResetTarget(w)
      <3>1. Faulty \in SUBSET Revs /\ Revs \ Faulty \in SUBSET Revs BY TrafficAssumption
      <3>2. \E r \in Revs : Rollback(w, r)
        BY <2>3, <3>1, NewestIs DEF BreakTarget, ResetTarget
      <3> QED BY <3>2, RouteKeeps
    <2>4. ASSUME NEW fix \in Revs, NEW safe \in Revs, NEW pct \in Stages,
                 SetTrafficSplit(w, fix, safe, pct)
          PROVE  TrafficInv'
      BY <2>4, SplitKeeps
    <2> QED BY <1>3, <2>1, <2>2, <2>3, <2>4 DEF WriterCall
  <1> QED BY <1>1, <1>2, <1>3 DEF TrafficNext

LEMMA TrafficStart == TrafficInit => TrafficInv
  <1> SUFFICES ASSUME TrafficInit PROVE TrafficInv
    OBVIOUS
  <1>1. PICK r \in Revs : traffic = Whole(r) BY DEF TrafficInit
  <1>2. traffic \in Block /\ traffic.causal = None BY <1>1, WholeIs
  <1>3. write = [w \in Writers |-> Quiet] /\ marred = FALSE BY DEF TrafficInit
  <1>4. \A w \in Writers : write[w] = Quiet BY <1>3
  <1>5. TypeOK BY <1>2, <1>3 DEF TypeOK
  <1> QED BY <1>2, <1>4, <1>5, QuietIs DEF TrafficInv, TagIsOwned, Busy

--------------------------------------------------------------------------------
(* The properties. *)

\* However writers overlap, lose answers, retry or die in between, a probe or gate
\* still knows the block it wrote, unless another write landed, and some probe owns
\* the tag on it (_set_traffic, probe_revision_health).
THEOREM TrafficInvariant == TrafficSpec => []TrafficInv
  <1>1. TrafficInv /\ [TrafficNext]_trafficvars => TrafficInv' BY TrafficStep
  <1> QED BY <1>1, TrafficStart, PTL DEF TrafficSpec

\* A tag is left on the block only by a restore that failed, was cut off, or
\* put back what another probe had tagged.
THEOREM TagsAreOwned == TrafficSpec => []TagLeaksOnlyBy
  <1>1. TrafficInv => TagLeaksOnlyBy
    BY DEF TrafficInv, TagIsOwned, TagLeaksOnlyBy, Probing, Probes, Busy
  <1> QED BY <1>1, TrafficInvariant, PTL

\* The gate samples the fix and the probe its target until another write lands.
THEOREM EvidenceIsOnTarget == TrafficSpec => []EvidenceIsOfTheTarget
  <1>1. TrafficInv => EvidenceIsOfTheTarget
    <2> SUFFICES ASSUME TrafficInv, NEW w \in Writers, Busy(w), ~write[w].moved
                 PROVE  /\ write[w].pc = "gate" => GatedRevision(write[w].rev) = write[w].rev
                        /\ write[w].pc = "look" => ProbedRevision = write[w].rev
      BY DEF EvidenceIsOfTheTarget
    <2>1. Sound(write[w], traffic) /\ write[w] \in Local BY DEF TrafficInv, TypeOK, Busy
    <2>2. write[w].rev # None BY <2>1, TrafficAssumption DEF Local, None
    <2> QED BY <2>1, <2>2 DEF Sound, InPlace, GatedRevision, ProbedRevision
  <1> QED BY <1>1, TrafficInvariant, PTL

\* The probe's writes leave the serving split as it is, unless another write
\* landed since it read the block.
THEOREM ProbesDisturbNothing == TrafficSpec => ProbeIsNonDisruptive
  <1>1. ASSUME TrafficInv, TrafficNext, NEW w \in Writers, Committed(w),
               write[w].kind \in {"tag", "restore"}, ~write[w].stale
        PROVE  traffic'.split = traffic.split
    <2>1. write[w].pc = "update" /\ write'[w].pc # "update" /\ traffic' # traffic
      BY <1>1 DEF Committed
    <2>2. PICK v \in Writers, answered \in BOOLEAN : Update(v, answered)
      BY <1>1, <2>1 DEF TrafficNext, WriterStep, WriterCall, Fetch, Conflict, Error, Crash, Look,
         ProbeCandidate, Rollback, ProbeRevisionHealth, BreakTarget, ResetTarget,
         SetTrafficSplit, Begin
    <2>3. v = w
      <3> SUFFICES ASSUME v # w PROVE FALSE
        OBVIOUS
      <3>1. PICK l : write' = Raced(v, l) BY <2>2 DEF Update
      <3>2. write[w] \in Local /\ write[w] # Quiet BY <1>1, <2>1, WriterIs
      <3>3. write'[w] = [write[w] EXCEPT !.fresh = FALSE, !.stale = TRUE, !.moved = TRUE]
        BY <3>1, <3>2 DEF Raced
      <3>4. write'[w].pc = write[w].pc BY <3>2, <3>3 DEF Local
      <3> QED BY <2>1, <3>4
    <2>4. traffic' = write[w].targets BY <2>2, <2>3 DEF Update
    <2>5. Sound(write[w], traffic) /\ write[w] \in Local BY <1>1, <2>1, WriterIs
    <2>6. traffic.split = write[w].original.split BY <1>1, <2>5 DEF Sound, InPlace
    <2>7. write[w].original \in Block /\ write[w].rev \in Revs BY <2>5 DEF Local
    <2> QED BY <1>1, <2>4, <2>5, <2>6, <2>7, ProbeTargetsIs DEF Sound, PlanOK
  <1>2. TrafficInv /\ [TrafficNext]_trafficvars
          => [\A w \in Writers :
                Committed(w) /\ write[w].kind \in {"tag", "restore"} /\ ~write[w].stale
                  => traffic'.split = traffic.split]_trafficvars
    BY <1>1
  <1> QED BY <1>2, TrafficInvariant, PTL DEF TrafficSpec, ProbeIsNonDisruptive

=================================================================================
