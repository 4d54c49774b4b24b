--------------------------- MODULE BusAndPollProofs ---------------------------
(***************************************************************************)
(* Proofs about two small components, for any number of instances,         *)
(* dashboards, incidents and events and any bounds: what an instance's log *)
(* of events repeats and what its dashboards miss (EventBus), and that the *)
(* auditor's cached verdicts are those of a fresh verification (ProofPoll).*)
(***************************************************************************)
EXTENDS EventBus, ProofPoll, TLAPS

--------------------------------------------------------------------------------
(* The event bus: the invariant. *)

Published == 1..Len(source)

Mirror == [events : Seq(Nat), offset : Nat, seen : SUBSET Nat]

BusTypes ==
  /\ source \in Seq(Peers)
  /\ mirror \in [Peers -> Mirror]
  /\ wire \in [Peers -> SUBSET Nat]
  /\ viewer \in [Dashboards -> Nat]
  /\ shown \in [Dashboards -> Seq(Nat)]
  /\ history \in [Peers -> Seq(Nat)]
  /\ again \in Nat

\* The log is the end of the history, at its offset.
EndOf(mem, past) == mem.events = SubSeq(past, mem.offset + 1, Len(past))

LogIs(mem, past) ==
  /\ mem.offset + Len(mem.events) = Len(past)
  /\ EndOf(mem, past)
  /\ Len(mem.events) <= Max

\* A stream that has reached index has been shown, in order, all up to it but
\* what was trimmed.
StreamIs(positions, index, mem) ==
  /\ index <= mem.offset + Len(mem.events)
  /\ \A k \in DOMAIN positions : positions[k] <= index
  /\ \A j, k \in DOMAIN positions : j < k => positions[j] < positions[k]
  /\ \A p \in 1..index : p <= mem.offset \/ \E k \in DOMAIN positions : positions[k] = p

Took(n, e) == \E k \in DOMAIN history[n] : history[n][k] = e

\* What an instance's log took it took from what was published; it has
\* forgotten none of it unless its ids were cleared, and what is still on the
\* wire to it and is another's it has not taken unless it came again.
OnceIs(n) ==
  /\ \A e \in wire[n] : e \in Published
  /\ \A e \in mirror[n].seen : Took(n, e)
  /\ \A k \in DOMAIN history[n] : history[n][k] \in Published
  /\ n \notin cleared => \A k \in DOMAIN history[n] : history[n][k] \in mirror[n].seen
  /\ again = 0 => \A e \in wire[n] : Foreign(n, e) => ~Took(n, e)
  /\ \A j, k \in DOMAIN history[n] :
       (j < k /\ history[n][j] = history[n][k])
         => again > 0 /\ n \in cleared /\ Foreign(n, history[n][j])

BusInv ==
  /\ BusTypes
  /\ \A n \in Peers : LogIs(mirror[n], history[n]) /\ OnceIs(n)
  /\ \A n \in Dashboards : StreamIs(shown[n], viewer[n], mirror[n])

--------------------------------------------------------------------------------
(* The poll: the invariant. *)

Verdicts == {"FAIL", "SIGNED-VERIFIED", "DEGRADED", "INTEGRITY-ONLY"}
Shown == [tri : Verdicts, signed : BOOLEAN, saw : Proofs, pem : BOOLEAN]
Cached == [tri : Verdicts, signed : BOOLEAN, key : Proofs \X BOOLEAN]

Auditing ==
  /\ cycle = [pc |-> "audit", pem |-> cycle.pem, todo |-> cycle.todo, out |-> cycle.out]
  /\ cycle.pem \in BOOLEAN
  /\ cycle.out \in [Ids -> {NoEntry} \cup Shown]

PollTypes ==
  /\ readable \in BOOLEAN
  /\ proof \in [Ids -> Proofs]
  /\ cycle # Waiting => Auditing
  /\ cache \in [Ids -> {NoEntry} \cup Cached]
  /\ page \in [Ids -> {NoEntry} \cup Shown]

\* Every verdict, wherever it is kept, is the one its bytes and its pins give.
PollInv ==
  /\ PollTypes
  /\ \A i \in Ids : cache[i] # NoEntry => cache[i].tri = Tri(i, cache[i].key[1], cache[i].key[2])
  /\ \A i \in Ids : page[i] # NoEntry => page[i].tri = Tri(i, page[i].saw, page[i].pem)
  /\ cycle # Waiting =>
       \A i \in Ids : cycle.out[i] # NoEntry =>
         cycle.out[i].tri = Tri(i, cycle.out[i].saw, cycle.pem) /\ cycle.out[i].pem = cycle.pem

--------------------------------------------------------------------------------
(* Sequences. *)

LEMMA TailIs ==
  ASSUME NEW q \in Seq(Nat), NEW a \in 0..Len(q)
  PROVE  /\ SubSeq(q, a + 1, Len(q)) \in Seq(Nat)
         /\ Len(SubSeq(q, a + 1, Len(q))) = Len(q) - a
         /\ SubSeq(q, a + 1, Len(q)) = [j \in 1..(Len(q) - a) |-> q[a + j]]
  OBVIOUS

LEMMA AppendIs ==
  ASSUME NEW q \in Seq(Nat), NEW e \in Nat
  PROVE  /\ Append(q, e) \in Seq(Nat) /\ Len(Append(q, e)) = Len(q) + 1 /\ Len(q) \in Nat
         /\ DOMAIN Append(q, e) = 1..(Len(q) + 1) /\ DOMAIN q = 1..Len(q)
         /\ Append(q, e)[Len(q) + 1] = e
         /\ \A j \in 1..Len(q) : Append(q, e)[j] = q[j]
  OBVIOUS

LEMMA TailOfTail ==
  ASSUME NEW q \in Seq(Nat), NEW a \in 0..Len(q), NEW h \in 0..(Len(q) - a)
  PROVE  SubSeq(SubSeq(q, a + 1, Len(q)), h + 1, Len(q) - a) = SubSeq(q, (a + h) + 1, Len(q))
  OBVIOUS

LEMMA TailExtends ==
  ASSUME NEW q \in Seq(Nat), NEW e \in Nat, NEW a \in 0..Len(q)
  PROVE  Append(SubSeq(q, a + 1, Len(q)), e) = SubSeq(Append(q, e), a + 1, Len(q) + 1)
  OBVIOUS

\* Half of the bound is something, and no more than all of it.
Half == Max \div 2

LEMMA HalfIs == Half \in 1..Max /\ Max \in Nat
  BY BusAssumption DEF Half

--------------------------------------------------------------------------------
(* Taking an event. *)

LEMMA TrimIs ==
  ASSUME NEW mem \in Mirror, NEW past \in Seq(Nat),
         mem.offset + Len(mem.events) = Len(past),
         EndOf(mem, past), Len(mem.events) <= Max + 1
  PROVE  /\ Trim(mem) \in Mirror /\ LogIs(Trim(mem), past)
         /\ mem.offset <= Trim(mem).offset /\ Trim(mem).seen = mem.seen
  <1>1. mem.offset \in Nat /\ mem.events \in Seq(Nat) /\ mem.seen \in SUBSET Nat BY DEF Mirror
  <1>2. PICK o, m, n \in Nat : o = mem.offset /\ m = Len(mem.events) /\ n = Len(past)
    BY <1>1
  <1>3. o + m = n /\ m <= Max + 1 /\ o \in 0..n /\ n - o = m BY <1>2
  <1>4. mem.events = SubSeq(past, o + 1, n) BY <1>2 DEF EndOf
  <1>5. CASE ~(m > Max)
    <2>1. Trim(mem) = mem /\ m <= Max BY <1>2, <1>5, HalfIs DEF Trim
    <2> QED BY <1>1, <1>2, <2>1 DEF LogIs
  <1>6. CASE m > Max
    <2>1. PICK h \in Nat : h = Half /\ h # 0 /\ h <= Max /\ Max \in Nat BY HalfIs
    <2>2. h \in 0..m /\ m - h <= Max /\ o + h \in Nat /\ o + h \in 0..n /\ o <= o + h
          /\ n - (o + h) = m - h /\ (o + h) + (m - h) = n /\ h \in 0..(n - o)
      BY <1>3, <1>6, <2>1
    <2> DEFINE kept == SubSeq(mem.events, h + 1, m)
    <2>3. Trim(mem) = [mem EXCEPT !.events = kept, !.offset = mem.offset + h]
      BY <1>2, <1>6, <2>1 DEF Trim, Half
    <2>4. kept \in Seq(Nat) /\ Len(kept) = m - h BY <1>1, <1>2, <2>2, TailIs
    <2>5. kept = SubSeq(past, (o + h) + 1, n)
      <3>1. o \in 0..Len(past) /\ h \in 0..(Len(past) - o) BY <1>2, <1>3, <2>2
      <3>2. SubSeq(SubSeq(past, o + 1, Len(past)), h + 1, Len(past) - o)
              = SubSeq(past, (o + h) + 1, Len(past))
        BY <3>1, TailOfTail
      <3>3. Len(past) = n /\ Len(past) - o = m BY <1>2, <1>3
      <3> QED BY <1>4, <3>2, <3>3
    <2> HIDE DEF kept
    <2>6. /\ Trim(mem) \in Mirror /\ Trim(mem).events = kept /\ Trim(mem).seen = mem.seen
          /\ Trim(mem).offset = o + h
      BY <1>2, <2>2, <2>3, <2>4 DEF Mirror
    <2> QED BY <1>2, <2>2, <2>4, <2>5, <2>6 DEF LogIs, EndOf
  <1> QED BY <1>5, <1>6

LEMMA TakenIs ==
  ASSUME NEW mem \in Mirror, NEW past \in Seq(Nat), LogIs(mem, past), NEW e \in Nat
  PROVE  /\ Received(mem, e) \in Mirror /\ LogIs(Received(mem, e), Append(past, e))
         /\ mem.offset <= Received(mem, e).offset
         /\ Received(mem, e).seen = Remember(mem.seen, e)
  <1> DEFINE more == [mem EXCEPT !.events = Append(mem.events, e), !.seen = Remember(mem.seen, e)]
  <1>1. Received(mem, e) = Trim(more) BY DEF Received
  <1>2. mem.offset \in Nat /\ mem.events \in Seq(Nat) /\ mem.seen \in SUBSET Nat BY DEF Mirror
  <1>3. PICK o, m, n \in Nat : o = mem.offset /\ m = Len(mem.events) /\ n = Len(past)
    BY <1>2
  <1>4. o + m = n /\ m <= Max /\ mem.events = SubSeq(past, o + 1, n)
    BY <1>3 DEF LogIs, EndOf
  <1>5. o \in 0..n /\ o + (m + 1) = n + 1 /\ m + 1 <= Max + 1
    BY <1>4, HalfIs
  <1>6. Remember(mem.seen, e) \in SUBSET Nat BY <1>2 DEF Remember
  <1>7. Append(mem.events, e) \in Seq(Nat) /\ Len(Append(mem.events, e)) = m + 1
    BY <1>2, <1>3, AppendIs
  <1>8. Append(past, e) \in Seq(Nat) /\ Len(Append(past, e)) = n + 1 BY <1>3, AppendIs
  <1>9. /\ more \in Mirror /\ more.events = Append(mem.events, e) /\ more.offset = o
        /\ more.seen = Remember(mem.seen, e)
    BY <1>2, <1>3, <1>6, <1>7 DEF Mirror
  <1>10. Append(mem.events, e) = SubSeq(Append(past, e), o + 1, n + 1)
    <2>1. o \in 0..Len(past) BY <1>3, <1>5
    <2>2. Append(SubSeq(past, o + 1, Len(past)), e) = SubSeq(Append(past, e), o + 1, Len(past) + 1)
      BY <2>1, TailExtends
    <2> QED BY <1>3, <1>4, <2>2
  <1> HIDE DEF more
  <1>11. more.offset + Len(more.events) = Len(Append(past, e)) /\ Len(more.events) <= Max + 1
    BY <1>5, <1>7, <1>8, <1>9
  <1>12. EndOf(more, Append(past, e)) BY <1>8, <1>9, <1>10 DEF EndOf
  <1> QED BY <1>1, <1>3, <1>8, <1>9, <1>11, <1>12, TrimIs

LEMMA BusFacts ==
  ASSUME BusInv, NEW n \in Peers
  PROVE  /\ mirror[n] \in Mirror /\ history[n] \in Seq(Nat) /\ LogIs(mirror[n], history[n])
         /\ mirror[n].offset \in Nat /\ mirror[n].seen \in SUBSET Nat
         /\ Len(history[n]) \in Nat /\ DOMAIN history[n] = 1..Len(history[n])
         /\ OnceIs(n) /\ Len(source) \in Nat /\ again \in Nat /\ source \in Seq(Peers)
  <1>1. mirror[n] \in Mirror /\ history[n] \in Seq(Nat) /\ source \in Seq(Peers) /\ again \in Nat
    BY DEF BusInv, BusTypes
  <1>2. mirror[n].offset \in Nat /\ mirror[n].seen \in SUBSET Nat BY <1>1 DEF Mirror
  <1>3. LogIs(mirror[n], history[n]) /\ OnceIs(n) BY DEF BusInv
  <1> QED BY <1>1, <1>2, <1>3

\* What taking an event does to the logs.
LEMMA AppendLocalIs ==
  ASSUME BusInv, NEW n \in Peers, NEW e \in Nat, AppendLocal(n, e)
  PROVE  /\ mirror' \in [Peers -> Mirror] /\ history' \in [Peers -> Seq(Nat)]
         /\ \A p \in Peers \ {n} : /\ mirror'[p] = mirror[p] /\ history'[p] = history[p]
                                   /\ p \in cleared' <=> p \in cleared
         /\ LogIs(mirror'[n], history'[n]) /\ mirror[n].offset <= mirror'[n].offset
         /\ \/ /\ e \in mirror[n].seen /\ mirror'[n] = mirror[n] /\ history'[n] = history[n]
               /\ n \in cleared' <=> n \in cleared
            \/ /\ e \notin mirror[n].seen /\ history'[n] = Append(history[n], e)
               /\ mirror'[n].seen = Remember(mirror[n].seen, e)
               /\ n \in cleared => n \in cleared'
               /\ Full(mirror[n].seen \cup {e}) => n \in cleared'
  <1>1. mirror[n] \in Mirror /\ history[n] \in Seq(Nat) /\ LogIs(mirror[n], history[n])
        /\ mirror[n].offset \in Nat
    BY BusFacts
  <1>2. mirror \in [Peers -> Mirror] /\ history \in [Peers -> Seq(Nat)] BY DEF BusInv, BusTypes
  <1>3. CASE e \in mirror[n].seen
    <2>1. UNCHANGED <<mirror, history, cleared>> BY <1>3 DEF AppendLocal, Known
    <2> QED BY <1>1, <1>2, <1>3, <2>1
  <1>4. CASE e \notin mirror[n].seen
    <2>1. /\ mirror' = [mirror EXCEPT ![n] = Received(mirror[n], e)]
          /\ history' = [history EXCEPT ![n] = Append(history[n], e)]
          /\ cleared' = IF Full(mirror[n].seen \cup {e}) THEN cleared \cup {n} ELSE cleared
      BY <1>4 DEF AppendLocal, Known
    <2>2. /\ Received(mirror[n], e) \in Mirror
          /\ LogIs(Received(mirror[n], e), Append(history[n], e))
          /\ mirror[n].offset <= Received(mirror[n], e).offset
          /\ Received(mirror[n], e).seen = Remember(mirror[n].seen, e)
      BY <1>1, TakenIs
    <2>3. Append(history[n], e) \in Seq(Nat) BY <1>1, AppendIs
    <2>4. mirror'[n] = Received(mirror[n], e) /\ history'[n] = Append(history[n], e)
          /\ \A p \in Peers \ {n} : mirror'[p] = mirror[p] /\ history'[p] = history[p]
      BY <1>2, <2>1
    <2>5. mirror' \in [Peers -> Mirror] /\ history' \in [Peers -> Seq(Nat)]
      BY <1>2, <2>1, <2>2, <2>3
    <2>6. /\ \A p \in Peers \ {n} : p \in cleared' <=> p \in cleared
          /\ n \in cleared => n \in cleared'
          /\ Full(mirror[n].seen \cup {e}) => n \in cleared'
      BY <2>1
    <2> QED BY <1>4, <2>2, <2>4, <2>5, <2>6
  <1> QED BY <1>3, <1>4

\* A stream is right about a log that has only grown.
LEMMA StreamStays ==
  ASSUME BusInv, NEW n \in Dashboards,
         mirror'[n] \in Mirror, mirror[n].offset <= mirror'[n].offset,
         LogIs(mirror'[n], history'[n]), Len(history[n]) <= Len(history'[n]),
         Len(history'[n]) \in Nat
  PROVE  StreamIs(shown[n], viewer[n], mirror'[n])
  <1>1. n \in Peers BY BusAssumption
  <1>2. PICK o, p, h, g, v \in Nat :
          /\ o = mirror[n].offset /\ p = mirror'[n].offset
          /\ h = Len(history[n]) /\ g = Len(history'[n]) /\ v = viewer[n]
    <2>1. mirror'[n].offset \in Nat BY DEF Mirror
    <2>2. viewer[n] \in Nat BY DEF BusInv, BusTypes
    <2> QED BY <1>1, <2>1, <2>2, BusFacts
  <1>3. StreamIs(shown[n], viewer[n], mirror[n]) BY DEF BusInv
  <1>4. mirror[n].offset + Len(mirror[n].events) = h /\ mirror'[n].offset + Len(mirror'[n].events) = g
    BY <1>1, <1>2, BusFacts DEF LogIs
  <1>5. v <= h BY <1>2, <1>3, <1>4 DEF StreamIs
  <1>6. v <= g /\ o <= p BY <1>2, <1>5
  <1>7. \A x \in 1..viewer[n] : x <= mirror'[n].offset \/ \E k \in DOMAIN shown[n] : shown[n][k] = x
    <2> SUFFICES ASSUME NEW x \in 1..v, ~(x <= p) PROVE \E k \in DOMAIN shown[n] : shown[n][k] = x
      BY <1>2
    <2>1. ~(x <= mirror[n].offset) BY <1>2, <1>6
    <2> QED BY <1>2, <1>3, <2>1 DEF StreamIs
  <1> QED BY <1>2, <1>3, <1>4, <1>6, <1>7 DEF StreamIs

\* Once taken, always known or forgotten; and never twice but for a redelivery.
LEMMA OnceStays ==
  ASSUME BusInv, NEW n \in Peers, NEW e \in Nat,
         AppendLocal(n, e), e \in Published', again' \in Nat, again <= again',
         Published \subseteq Published', \A x \in Published : source'[x] = source[x],
         Took(n, e) /\ e \notin mirror[n].seen => again' > 0 /\ Foreign(n, e),
         Took(n, e) => e \in Published,
         \A x \in wire'[n] : x \in Published',
         again' = 0 => \A x \in wire'[n] : Foreign(n, x)' => x # e /\ ~Took(n, x)
  PROVE  OnceIs(n)'
  <1>1. /\ history[n] \in Seq(Nat) /\ Len(history[n]) \in Nat /\ again \in Nat
        /\ DOMAIN history[n] = 1..Len(history[n]) /\ OnceIs(n)
    BY BusFacts
  <1>2. CASE e \in mirror[n].seen /\ mirror'[n] = mirror[n] /\ history'[n] = history[n]
             /\ (n \in cleared' <=> n \in cleared)
    <2>1. \A x : Took(n, x)' <=> Took(n, x) BY <1>2 DEF Took
    <2>2. \A k \in DOMAIN history[n] : Foreign(n, history[n][k])' <=> Foreign(n, history[n][k])
      BY <1>1, <1>2 DEF OnceIs, Foreign
    <2>3. \A j, k \in DOMAIN history'[n] :
            (j < k /\ history'[n][j] = history'[n][k])
              => again' > 0 /\ n \in cleared' /\ Foreign(n, history[n][j])'
      <3>1. again > 0 => again' > 0 BY <1>1
      <3> QED BY <1>1, <1>2, <2>2, <3>1 DEF OnceIs
    <2> QED BY <1>1, <1>2, <2>1, <2>3 DEF OnceIs
  <1>3. CASE /\ e \notin mirror[n].seen /\ history'[n] = Append(history[n], e)
             /\ mirror'[n].seen = Remember(mirror[n].seen, e)
             /\ n \in cleared => n \in cleared'
             /\ Full(mirror[n].seen \cup {e}) => n \in cleared'
    <2>1. PICK m \in Nat : m = Len(history[n]) BY <1>1
    <2>2. /\ DOMAIN history[n] = 1..m /\ DOMAIN history'[n] = 1..(m + 1)
          /\ history'[n][m + 1] = e /\ \A j \in 1..m : history'[n][j] = history[n][j]
      BY <1>1, <1>3, <2>1, AppendIs
    <2>3. \A k \in 1..(m + 1) : k = m + 1 \/ k \in 1..m BY <2>1
    <2>4. 1..m \subseteq 1..(m + 1) /\ m + 1 \in 1..(m + 1) BY <2>1
    <2>5. \A x : Took(n, x)' <=> Took(n, x) \/ x = e BY <2>2, <2>3, <2>4 DEF Took
    <2>6. \A k \in DOMAIN history'[n] : history'[n][k] \in Published'
      BY <1>1, <2>2, <2>3 DEF OnceIs
    <2>7. \A x \in mirror'[n].seen : Took(n, x)' BY <1>1, <1>3, <2>5 DEF OnceIs, Remember
    <2>8. n \notin cleared' => \A k \in DOMAIN history'[n] : history'[n][k] \in mirror'[n].seen
      <3> SUFFICES ASSUME n \notin cleared', NEW k \in 1..(m + 1)
                   PROVE  history'[n][k] \in mirror'[n].seen
        BY <2>2
      <3>1. mirror'[n].seen = mirror[n].seen \cup {e} BY <1>3 DEF Remember
      <3> QED BY <1>1, <1>3, <2>2, <2>3, <3>1 DEF OnceIs
    <2>9. again' = 0 => \A x \in wire'[n] : Foreign(n, x)' => ~Took(n, x)' BY <2>5
    <2>10. ASSUME NEW j \in 1..(m + 1), NEW k \in 1..(m + 1), j < k, history'[n][j] = history'[n][k]
           PROVE  again' > 0 /\ n \in cleared' /\ Foreign(n, history[n][j])'
      <3>1. j \in 1..m BY <2>10
      <3>2. history'[n][j] = history[n][j] /\ history[n][j] \in Published
        BY <1>1, <2>2, <3>1 DEF OnceIs
      <3>3. CASE k = m + 1
        <4>1. history[n][j] = e BY <2>2, <2>10, <3>2, <3>3
        <4>2. Took(n, e) BY <2>2, <3>1, <4>1 DEF Took
        <4>3. again' > 0 /\ Foreign(n, e) BY <1>3, <4>2
        <4>4. n \in cleared BY <1>1, <1>3, <2>2, <3>1, <4>1 DEF OnceIs
        <4> QED BY <1>3, <3>2, <4>1, <4>3, <4>4 DEF Foreign
      <3>4. CASE k \in 1..m
        <4>1. history'[n][k] = history[n][k] BY <2>2, <3>4
        <4>2. again > 0 /\ n \in cleared /\ Foreign(n, history[n][j])
          BY <1>1, <2>2, <2>10, <3>1, <3>2, <3>4, <4>1 DEF OnceIs
        <4>3. again' > 0 BY <1>1, <4>2
        <4> QED BY <1>3, <3>2, <4>2, <4>3 DEF Foreign
      <3> QED BY <2>3, <3>3, <3>4
    <2>11. \A j, k \in DOMAIN history'[n] :
             (j < k /\ history'[n][j] = history'[n][k])
               => again' > 0 /\ n \in cleared' /\ Foreign(n, history[n][j])'
      BY <2>2, <2>10
    <2> QED BY <2>6, <2>7, <2>8, <2>9, <2>11 DEF OnceIs
  <1> QED BY <1>2, <1>3, AppendLocalIs

\* An instance whose log has not moved.
LEMMA OnceElsewhere ==
  ASSUME BusInv, NEW n \in Peers, mirror'[n] = mirror[n], history'[n] = history[n],
         n \in cleared' <=> n \in cleared, again' \in Nat, again <= again',
         Published \subseteq Published', \A x \in Published : source'[x] = source[x],
         \A x \in wire'[n] : x \in Published',
         again' = 0 => \A x \in wire'[n] : Foreign(n, x)' => ~Took(n, x)
  PROVE  OnceIs(n)'
  <1>1. OnceIs(n) /\ again \in Nat BY BusFacts
  <1>2. \A x : Took(n, x)' <=> Took(n, x) BY DEF Took
  <1>3. \A k \in DOMAIN history[n] : Foreign(n, history[n][k])' <=> Foreign(n, history[n][k])
    BY <1>1, <1>2 DEF OnceIs, Foreign
  <1>4. again > 0 => again' > 0 BY <1>1
  <1>5. \A j, k \in DOMAIN history'[n] :
          (j < k /\ history'[n][j] = history'[n][k])
            => again' > 0 /\ n \in cleared' /\ Foreign(n, history[n][j])'
    BY <1>1, <1>3, <1>4 DEF OnceIs
  <1> QED BY <1>1, <1>2, <1>5 DEF OnceIs

--------------------------------------------------------------------------------
(* The bus: the step. *)

\* All that taking an event needs, of whichever instance.
LEMMA TakingKeeps ==
  ASSUME BusInv, NEW n \in Peers, NEW e \in Nat,
         AppendLocal(n, e), e \in Published', again' \in Nat, again <= again',
         source' \in Seq(Peers), wire' \in [Peers -> SUBSET Nat], UNCHANGED <<viewer, shown>>,
         Published \subseteq Published', \A x \in Published : source'[x] = source[x],
         Took(n, e) /\ e \notin mirror[n].seen => again' > 0 /\ Foreign(n, e),
         Took(n, e) => e \in Published,
         \A p \in Peers : \A x \in wire'[p] : x \in Published',
         again' = 0 => \A x \in wire'[n] : Foreign(n, x)' => x # e /\ ~Took(n, x),
         again' = 0 => \A p \in Peers \ {n} : \A x \in wire'[p] : Foreign(p, x)' => ~Took(p, x)
  PROVE  BusInv'
  <1>1. /\ mirror' \in [Peers -> Mirror] /\ history' \in [Peers -> Seq(Nat)]
        /\ \A p \in Peers \ {n} : /\ mirror'[p] = mirror[p] /\ history'[p] = history[p]
                                  /\ p \in cleared' <=> p \in cleared
        /\ LogIs(mirror'[n], history'[n]) /\ mirror[n].offset <= mirror'[n].offset
        /\ history'[n] = history[n] \/ history'[n] = Append(history[n], e)
    BY AppendLocalIs
  <1>2. BusTypes' BY <1>1 DEF BusInv, BusTypes
  <1>3. \A p \in Peers : LogIs(mirror'[p], history'[p]) BY <1>1 DEF BusInv
  <1>4. OnceIs(n)' BY OnceStays
  <1>5. ASSUME NEW p \in Peers \ {n} PROVE OnceIs(p)'
    <2>1. again' = 0 => \A x \in wire'[p] : Foreign(p, x)' => ~Took(p, x) OBVIOUS
    <2> QED BY <1>1, <2>1, OnceElsewhere
  <1>6. ASSUME NEW d \in Dashboards PROVE StreamIs(shown'[d], viewer'[d], mirror'[d])
    <2>1. d \in Peers BY BusAssumption
    <2>2. mirror'[d] \in Mirror /\ mirror[d].offset <= mirror'[d].offset
      <3>1. mirror[d].offset \in Nat BY <2>1, BusFacts
      <3>2. mirror'[d] \in Mirror BY <1>1, <2>1
      <3>3. d = n \/ mirror'[d] = mirror[d] BY <1>1, <2>1
      <3>4. mirror[d].offset <= mirror[d].offset BY <3>1
      <3> QED BY <1>1, <3>2, <3>3, <3>4
    <2>3. Len(history[d]) <= Len(history'[d]) /\ Len(history'[d]) \in Nat
      <3>1. history[d] \in Seq(Nat) /\ Len(history[d]) \in Nat BY <2>1, BusFacts
      <3>2. Len(Append(history[d], e)) = Len(history[d]) + 1 BY <3>1, AppendIs
      <3>3. history'[d] = history[d] \/ history'[d] = Append(history[d], e) BY <1>1, <2>1
      <3> QED BY <3>1, <3>2, <3>3
    <2> QED BY <1>3, <2>1, <2>2, <2>3, StreamStays
  <1> QED BY <1>2, <1>3, <1>4, <1>5, <1>6 DEF BusInv

LEMMA PublishKeeps ==
  ASSUME BusInv, NEW n \in Peers, NEW sent \in BOOLEAN, Publish(n, sent)
  PROVE  BusInv'
  <1>1. PICK e \in Nat : e = Len(source) + 1 BY BusFacts
  <1>2. /\ source' = Append(source, n) /\ AppendLocal(n, e) /\ again' = again
        /\ UNCHANGED <<viewer, shown>>
        /\ wire' = IF sent THEN [p \in Peers |-> wire[p] \cup {e}] ELSE wire
    BY <1>1 DEF Publish
  <1>3. source \in Seq(Peers) /\ Len(source) \in Nat /\ again \in Nat BY BusFacts
  <1>4. /\ source' \in Seq(Peers) /\ Published' = Published \cup {e} /\ e \notin Published
        /\ source'[e] = n /\ \A x \in Published : source'[x] = source[x]
    BY <1>1, <1>2, <1>3 DEF Published
  <1>5. \A p \in Peers : ~Took(p, e) BY <1>4, BusFacts DEF OnceIs, Took
  <1>6. \A p \in Peers : \A x \in wire'[p] : x \in wire[p] \/ x = e BY <1>2
  <1>7. wire' \in [Peers -> SUBSET Nat] BY <1>2 DEF BusInv, BusTypes
  <1>8. \A p \in Peers : \A x \in wire[p] : x \in Published BY BusFacts DEF OnceIs
  <1>9. \A p \in Peers : again = 0 => \A x \in wire[p] : Foreign(p, x) => ~Took(p, x)
    BY BusFacts DEF OnceIs
  <1>10. again' = 0 => \A x \in wire'[n] : Foreign(n, x)' => x # e /\ ~Took(n, x)
    <2> SUFFICES ASSUME again = 0, NEW x \in wire'[n], source'[x] # n PROVE x # e /\ ~Took(n, x)
      BY <1>2 DEF Foreign
    <2>1. x # e BY <1>4
    <2>2. x \in wire[n] /\ x \in Published BY <1>6, <1>8, <2>1
    <2>3. Foreign(n, x) BY <1>4, <2>2 DEF Foreign
    <2> QED BY <1>9, <2>1, <2>2, <2>3
  <1>11. again' = 0 => \A p \in Peers \ {n} : \A x \in wire'[p] : Foreign(p, x)' => ~Took(p, x)
    <2> SUFFICES ASSUME again = 0, NEW p \in Peers \ {n}, NEW x \in wire'[p], source'[x] # p
                 PROVE  ~Took(p, x)
      BY <1>2 DEF Foreign
    <2>1. CASE x = e BY <1>5, <2>1
    <2>2. CASE x # e
      <3>1. x \in wire[p] /\ x \in Published BY <1>6, <1>8, <2>2
      <3>2. Foreign(p, x) BY <1>4, <3>1 DEF Foreign
      <3> QED BY <1>9, <3>1, <3>2
    <2> QED BY <2>1, <2>2
  <1>12. \A p \in Peers : \A x \in wire'[p] : x \in Published' BY <1>4, <1>6, <1>8
  <1>13. e \in Published' /\ Published \subseteq Published' BY <1>4
  <1>14. again' \in Nat /\ again <= again' BY <1>2, <1>3
  <1> QED BY <1>2, <1>4, <1>5, <1>7, <1>10, <1>11, <1>12, <1>13, <1>14, TakingKeeps

LEMMA DeliverKeeps ==
  ASSUME BusInv, NEW n \in Peers, NEW e \in Nat, NEW acked \in BOOLEAN, Deliver(n, e, acked)
  PROVE  BusInv'
  <1>1. /\ e \in wire[n] /\ UNCHANGED <<source, viewer, shown>>
        /\ again' = IF acked THEN again ELSE again + 1
        /\ wire' = IF acked THEN [wire EXCEPT ![n] = wire[n] \ {e}] ELSE wire
        /\ IF Foreign(n, e) THEN AppendLocal(n, e) ELSE UNCHANGED <<mirror, history, cleared>>
    BY DEF Deliver
  <1>2. source \in Seq(Peers) /\ again \in Nat /\ wire \in [Peers -> SUBSET Nat]
    BY BusFacts DEF BusInv, BusTypes
  <1>3. again' \in Nat /\ again <= again' /\ (again' = 0 => acked /\ again = 0) BY <1>1, <1>2
  <1>4. /\ wire' \in [Peers -> SUBSET Nat] /\ \A p \in Peers : wire'[p] \subseteq wire[p]
        /\ acked => e \notin wire'[n]
    BY <1>1, <1>2
  <1>5. \A p \in Peers : /\ \A x \in wire[p] : x \in Published
                         /\ again = 0 => \A x \in wire[p] : Foreign(p, x) => ~Took(p, x)
    BY BusFacts DEF OnceIs
  <1>6. Published' = Published /\ source' = source BY <1>1 DEF Published
  <1>7. \A p \in Peers : \A x \in wire'[p] : x \in Published' BY <1>4, <1>5, <1>6
  <1>8. again' = 0 => \A p \in Peers : \A x \in wire'[p] : Foreign(p, x)' => ~Took(p, x)
    BY <1>3, <1>4, <1>5, <1>6 DEF Foreign
  <1>9. CASE Foreign(n, e)
    <2>1. AppendLocal(n, e) /\ e \in Published BY <1>1, <1>5, <1>9
    <2>2. Took(n, e) => again' > 0 BY <1>1, <1>2, <1>3, <1>5, <1>9
    <2>3. again' = 0 => \A x \in wire'[n] : Foreign(n, x)' => x # e /\ ~Took(n, x)
      BY <1>3, <1>4, <1>8
    <2> QED BY <1>1, <1>2, <1>3, <1>4, <1>6, <1>7, <1>8, <1>9, <2>1, <2>2, <2>3, TakingKeeps
  <1>10. CASE ~Foreign(n, e)
    <2>1. UNCHANGED <<mirror, history, cleared>> BY <1>1, <1>10
    <2>2. BusTypes' BY <1>1, <1>2, <1>3, <1>4, <2>1 DEF BusInv, BusTypes
    <2>3. \A p \in Peers : OnceIs(p)'
      BY <1>1, <1>3, <1>6, <1>7, <1>8, <2>1, OnceElsewhere
    <2> QED BY <1>1, <2>1, <2>2, <2>3 DEF BusInv
  <1> QED BY <1>9, <1>10

LEMMA ConcatIs ==
  ASSUME NEW q \in Seq(Nat), NEW r \in Seq(Nat)
  PROVE  /\ q \o r \in Seq(Nat) /\ DOMAIN (q \o r) = 1..(Len(q) + Len(r))
         /\ Len(q) \in Nat /\ Len(r) \in Nat /\ DOMAIN q = 1..Len(q)
         /\ \A j \in 1..Len(q) : (q \o r)[j] = q[j]
         /\ \A j \in 1..Len(r) : (q \o r)[Len(q) + j] = r[j]
  OBVIOUS

\* A stream that is shown what it has not seen of the log is up to date.
LEMMA ShowsMore ==
  ASSUME NEW mem \in Mirror, NEW positions \in Seq(Nat), NEW index \in Nat,
         StreamIs(positions, index, mem)
  PROVE  LET start == From(mem, index)
             more == [k \in 1..(Len(mem.events) - start) |-> mem.offset + start + k]
         IN  /\ positions \o more \in Seq(Nat) /\ mem.offset + Len(mem.events) \in Nat
             /\ StreamIs(positions \o more, mem.offset + Len(mem.events), mem)
  <1> DEFINE start == From(mem, index)
             more == [k \in 1..(Len(mem.events) - start) |-> mem.offset + start + k]
  <1>1. PICK o, m \in Nat : o = mem.offset /\ m = Len(mem.events)
    <2>1. mem.offset \in Nat /\ mem.events \in Seq(Nat) BY DEF Mirror
    <2> QED BY <2>1
  <1>2. /\ index <= o + m
        /\ \A k \in DOMAIN positions : positions[k] <= index
        /\ \A j, k \in DOMAIN positions : j < k => positions[j] < positions[k]
        /\ \A p \in 1..index : p <= o \/ \E k \in DOMAIN positions : positions[k] = p
    BY <1>1 DEF StreamIs
  <1>3. PICK s \in Nat : s = From(mem, index) /\ s <= m /\ index <= o + s /\ (s # 0 => index = o + s)
    <2>1. CASE index > o
      <3>1. From(mem, index) = index - o BY <1>1, <2>1 DEF From
      <3>2. index - o \in Nat /\ index - o <= m /\ o + (index - o) = index BY <1>2, <2>1
      <3> QED BY <3>1, <3>2
    <2>2. CASE ~(index > o)
      <3>1. From(mem, index) = 0 BY <1>1, <2>2 DEF From
      <3>2. index <= o + 0 /\ 0 <= m BY <2>2
      <3> QED BY <3>1, <3>2
    <2> QED BY <2>1, <2>2
  <1>4. PICK c \in Nat : c = m - s /\ o + s + c = o + m
    <2>1. s \in Nat /\ m \in Nat /\ o \in Nat /\ s <= m BY <1>3
    <2> HIDE DEF start, more
    <2>2. m - s \in Nat /\ o + s + (m - s) = o + m BY ONLY <2>1
    <2> QED BY <2>2
  <1>5. more = [k \in 1..c |-> o + s + k] BY <1>1, <1>3, <1>4
  <1>6. more \in Seq(Nat) /\ Len(more) = c /\ \A k \in 1..c : more[k] = o + s + k
    <2>1. \A k \in 1..c : o + s + k \in Nat OBVIOUS
    <2>2. [k \in 1..c |-> o + s + k] \in [1..c -> Nat] BY <2>1
    <2>3. [k \in 1..c |-> o + s + k] \in Seq(Nat) /\ Len([k \in 1..c |-> o + s + k]) = c BY <2>2
    <2>4. \A k \in 1..c : more[k] = o + s + k BY <1>5
    <2> QED BY <1>5, <2>3, <2>4
  <1> HIDE DEF start, more
  <1> DEFINE all == positions \o more
  <1>7. PICK l \in Nat : l = Len(positions) /\ DOMAIN positions = 1..l BY ConcatIs
  <1>8. /\ all \in Seq(Nat) /\ DOMAIN all = 1..(l + c)
        /\ \A j \in 1..l : all[j] = positions[j] /\ positions[j] \in Nat
        /\ \A j \in 1..c : all[l + j] = o + s + j
    <2>1. Len(positions) = l /\ Len(more) = c BY <1>6, <1>7
    <2>2. /\ all \in Seq(Nat) /\ DOMAIN all = 1..(Len(positions) + Len(more))
          /\ \A j \in 1..Len(positions) : all[j] = positions[j]
          /\ \A j \in 1..Len(more) : all[Len(positions) + j] = more[j]
      BY <1>6, ConcatIs
    <2> HIDE DEF all
    <2>3. \A j \in 1..l : positions[j] \in Nat BY <1>7
    <2> QED BY <1>6, <2>1, <2>2, <2>3
  <1> HIDE DEF all
  <1>9. \A k \in 1..(l + c) : k \in 1..l \/ \E i \in 1..c : k = l + i
    <2> SUFFICES ASSUME NEW k \in 1..(l + c), ~(k \in 1..l) PROVE \E i \in 1..c : k = l + i
      OBVIOUS
    <2>1. k - l \in 1..c /\ k = l + (k - l) OBVIOUS
    <2> QED BY <2>1
  <1>10. \A k \in DOMAIN all : all[k] <= o + m
    <2> SUFFICES ASSUME NEW k \in 1..(l + c) PROVE all[k] <= o + m
      BY <1>8
    <2>1. CASE k \in 1..l
      <3>1. all[k] \in Nat /\ all[k] <= index BY <1>2, <1>7, <1>8, <2>1
      <3> QED BY <1>2, <3>1
    <2>2. ASSUME NEW i \in 1..c, k = l + i PROVE all[k] <= o + m
      <3>1. all[k] = o + s + i BY <1>8, <2>2
      <3> QED BY <1>4, <3>1
    <2> QED BY <1>9, <2>1, <2>2
  <1>11. \A j, k \in DOMAIN all : j < k => all[j] < all[k]
    <2> SUFFICES ASSUME NEW j \in 1..(l + c), NEW k \in 1..(l + c), j < k PROVE all[j] < all[k]
      BY <1>8
    <2>1. CASE k \in 1..l
      <3>1. j \in 1..l BY <2>1
      <3> QED BY <1>2, <1>7, <1>8, <2>1, <3>1
    <2>2. ASSUME NEW i \in 1..c, k = l + i PROVE all[j] < all[k]
      <3>1. all[k] = o + s + i BY <1>8, <2>2
      <3>2. CASE j \in 1..l
        <4>1. all[j] \in Nat /\ all[j] <= index BY <1>2, <1>7, <1>8, <3>2
        <4> QED BY <1>3, <3>1, <4>1
      <3>3. ASSUME NEW h \in 1..c, j = l + h PROVE all[j] < all[k]
        <4>1. all[j] = o + s + h BY <1>8, <3>3
        <4>2. h < i BY <2>2, <3>3
        <4> QED BY <3>1, <4>1, <4>2
      <3> QED BY <1>9, <3>2, <3>3
    <2> QED BY <1>9, <2>1, <2>2
  <1>12. \A p \in 1..(o + m) : p <= o \/ \E k \in DOMAIN all : all[k] = p
    <2> SUFFICES ASSUME NEW p \in 1..(o + m), ~(p <= o) PROVE \E k \in DOMAIN all : all[k] = p
      OBVIOUS
    <2>1. CASE p <= o + s
      <3>1. p \in 1..index BY <1>3, <2>1
      <3>2. PICK k \in DOMAIN positions : positions[k] = p BY <1>2, <3>1
      <3>3. k \in 1..l /\ k \in 1..(l + c) BY <1>7, <3>2
      <3> QED BY <1>8, <3>2, <3>3
    <2>2. CASE ~(p <= o + s)
      <3>1. PICK i \in 1..c : o + s + i = p
        <4>1. p - (o + s) \in 1..c /\ o + s + (p - (o + s)) = p BY <1>4, <2>2
        <4> QED BY <4>1
      <3>2. l + i \in 1..(l + c) OBVIOUS
      <3> QED BY <1>8, <3>1, <3>2
    <2> QED BY <2>1, <2>2
  <1>13. StreamIs(all, mem.offset + Len(mem.events), mem)
    <2>1. mem.offset + Len(mem.events) = o + m /\ o + m \in Nat /\ o + m <= o + m BY <1>1
    <2> QED BY <1>1, <1>10, <1>11, <1>12, <2>1 DEF StreamIs
  <1>14. mem.offset + Len(mem.events) \in Nat BY <1>1
  <1> QED BY <1>8, <1>13, <1>14 DEF all, more, start

LEMMA GetSinceKeeps ==
  ASSUME BusInv, NEW n \in Dashboards, GetSince(n)
  PROVE  BusInv'
  <1> DEFINE start == From(mirror[n], viewer[n])
             more == [k \in 1..(Len(mirror[n].events) - start) |-> mirror[n].offset + start + k]
  <1>1. n \in Peers BY BusAssumption
  <1>2. /\ viewer' = [viewer EXCEPT ![n] = mirror[n].offset + Len(mirror[n].events)]
        /\ shown' = [shown EXCEPT ![n] = shown[n] \o more]
        /\ UNCHANGED <<source, mirror, wire, history, cleared, again>>
    BY DEF GetSince
  <1>3. /\ mirror[n] \in Mirror /\ viewer[n] \in Nat /\ shown[n] \in Seq(Nat)
        /\ viewer \in [Dashboards -> Nat] /\ shown \in [Dashboards -> Seq(Nat)]
        /\ StreamIs(shown[n], viewer[n], mirror[n])
    BY <1>1 DEF BusInv, BusTypes
  <1>4. /\ shown[n] \o more \in Seq(Nat) /\ mirror[n].offset + Len(mirror[n].events) \in Nat
        /\ StreamIs(shown[n] \o more, mirror[n].offset + Len(mirror[n].events), mirror[n])
    BY <1>3, ShowsMore
  <1> HIDE DEF more
  <1>5. BusTypes' BY <1>2, <1>3, <1>4 DEF BusInv, BusTypes
  <1>6. \A d \in Dashboards : StreamIs(shown'[d], viewer'[d], mirror'[d])
    <2> SUFFICES ASSUME NEW d \in Dashboards PROVE StreamIs(shown'[d], viewer'[d], mirror'[d])
      OBVIOUS
    <2>1. CASE d = n BY <1>2, <1>3, <1>4, <2>1
    <2>2. CASE d # n
      <3>1. shown'[d] = shown[d] /\ viewer'[d] = viewer[d] /\ mirror'[d] = mirror[d]
        BY <1>2, <1>3, <2>2
      <3> QED BY <3>1 DEF BusInv
    <2> QED BY <2>1, <2>2
  <1>7. \A p \in Peers : OnceIs(p)'
    <2> SUFFICES ASSUME NEW p \in Peers PROVE OnceIs(p)'
      OBVIOUS
    <2>1. OnceIs(p) BY BusFacts
    <2> QED BY <1>2, <2>1 DEF OnceIs, Published, Took, Foreign
  <1> QED BY <1>2, <1>5, <1>6, <1>7 DEF BusInv

LEMMA BusStep ==
  ASSUME BusInv, [BusNext]_busvars
  PROVE  BusInv'
  <1>1. CASE UNCHANGED busvars
    <2>1. UNCHANGED <<source, mirror, wire, viewer, shown, history, cleared, again>>
      BY <1>1 DEF busvars
    <2>2. BusTypes' BY <2>1 DEF BusInv, BusTypes
    <2>3. \A p \in Peers : OnceIs(p)'
      <3> SUFFICES ASSUME NEW p \in Peers PROVE OnceIs(p)'
        OBVIOUS
      <3>1. OnceIs(p) BY BusFacts
      <3> QED BY <2>1, <3>1 DEF OnceIs, Published, Took, Foreign
    <2> QED BY <2>1, <2>2, <2>3 DEF BusInv
  <1>2. ASSUME NEW n \in Peers, NEW sent \in BOOLEAN, Publish(n, sent) PROVE BusInv'
    BY <1>2, PublishKeeps
  <1>3. ASSUME NEW n \in Peers, NEW e \in 1..MaxEvents, NEW acked \in BOOLEAN, Deliver(n, e, acked)
        PROVE  BusInv'
    <2>1. e \in Nat BY BusAssumption
    <2> QED BY <1>3, <2>1, DeliverKeeps
  <1>4. ASSUME NEW n \in Dashboards, GetSince(n) PROVE BusInv' BY <1>4, GetSinceKeeps
  <1> QED BY <1>1, <1>2, <1>3, <1>4 DEF BusNext

LEMMA BusStart == BusInit => BusInv
  <1> SUFFICES ASSUME BusInit PROVE BusInv
    OBVIOUS
  <1>1. BusTypes BY DEF BusInit, BusTypes, Mirror
  <1>2. /\ \A n \in Peers : /\ mirror[n].events = <<>> /\ mirror[n].offset = 0
                            /\ mirror[n].seen = {} /\ history[n] = <<>> /\ wire[n] = {}
        /\ \A n \in Dashboards : viewer[n] = 0 /\ shown[n] = <<>>
    BY BusAssumption DEF BusInit
  <1>3. /\ Len(<<>>) = 0 /\ DOMAIN <<>> = {} /\ SubSeq(<<>>, 0 + 1, 0) = <<>> /\ 0 <= Max /\ 0 + 0 = 0
    BY BusAssumption
  <1>4. \A n \in Peers : LogIs(mirror[n], history[n]) BY <1>2, <1>3 DEF LogIs, EndOf
  <1>5. \A n \in Peers : OnceIs(n) BY <1>2, <1>3 DEF OnceIs
  <1>6. \A n \in Dashboards : StreamIs(shown[n], viewer[n], mirror[n])
    BY <1>2, <1>3, BusAssumption DEF StreamIs
  <1> QED BY <1>1, <1>4, <1>5, <1>6 DEF BusInv

--------------------------------------------------------------------------------
(* The bus: the properties. *)

\* Each log is the end of what it took, it took nothing it remembers having
\* taken, and each dashboard has been shown all of it up to where it looked.
THEOREM BusInvariant == BusSpec => []BusInv
  <1>1. BusInv /\ [BusNext]_busvars => BusInv' BY BusStep
  <1> QED BY <1>1, BusStart, PTL DEF BusSpec

\* An instance's log repeats an event only when it is another's, came again,
\* and the set of seen ids had been cleared in between.
THEOREM RepeatsAreRedeliveries == BusSpec => []RepeatOnlyBy
  <1>1. BusInv => RepeatOnlyBy BY BusFacts DEF OnceIs, RepeatOnlyBy
  <1> QED BY <1>1, BusInvariant, PTL

\* A dashboard gets its instance's events in order, none twice, and misses
\* only what was trimmed before it looked.
THEOREM ViewersSeeTheRest == BusSpec => []ViewersMissOnlyTheTrimmed
  <1>1. BusInv => ViewersMissOnlyTheTrimmed
    <2> SUFFICES ASSUME BusInv, NEW n \in Peers
                 PROVE  /\ Len(mirror[n].events) <= Max
                        /\ mirror[n].events
                             = SubSeq(history[n], mirror[n].offset + 1, Len(history[n]))
                        /\ n \in Dashboards => StreamIs(shown[n], viewer[n], mirror[n])
      BY DEF ViewersMissOnlyTheTrimmed, StreamIs
    <2> QED BY BusFacts DEF BusInv, LogIs, EndOf
  <1> QED BY <1>1, BusInvariant, PTL

--------------------------------------------------------------------------------
(* The poll: its actions keep the invariant. *)

LEMMA TriIs ==
  ASSUME NEW i, NEW p, NEW pem
  PROVE  Tri(i, p, pem) \in Verdicts
  BY DEF Tri, Verdicts

LEMMA AttestationIs ==
  ASSUME NEW tri \in Verdicts, NEW signed \in BOOLEAN, NEW p \in Proofs, cycle.pem \in BOOLEAN
  PROVE  /\ Attestation(tri, signed, p) \in Shown
         /\ Attestation(tri, signed, p).tri = tri /\ Attestation(tri, signed, p).signed = signed
         /\ Attestation(tri, signed, p).saw = p /\ Attestation(tri, signed, p).pem = cycle.pem
  BY DEF Attestation, Shown

\* A verdict that is reused is the one the same bytes and pins would give now.
LEMMA ResultIs ==
  ASSUME PollInv, cycle # Waiting, NEW i \in Ids, NEW p \in Proofs, NEW signed \in BOOLEAN
  PROVE  /\ Result(i, p, signed) \in Shown
         /\ Result(i, p, signed).tri = Tri(i, p, cycle.pem)
         /\ Result(i, p, signed).saw = p /\ Result(i, p, signed).pem = cycle.pem
  <1>1. cycle.pem \in BOOLEAN /\ Tri(i, p, cycle.pem) \in Verdicts
    BY TriIs DEF PollInv, PollTypes, Auditing
  <1>2. CASE Hit(i, p)
    <2>1. cache[i] # NoEntry /\ cache[i].key = <<p, cycle.pem>> BY <1>2 DEF Hit, CacheKey
    <2>2. cache[i] \in Cached BY <2>1 DEF PollInv, PollTypes
    <2>3. cache[i].tri \in Verdicts /\ cache[i].signed \in BOOLEAN BY <2>2 DEF Cached
    <2>4. cache[i].tri = Tri(i, p, cycle.pem) BY <2>1 DEF PollInv
    <2>5. Result(i, p, signed) = Attestation(cache[i].tri, cache[i].signed, p)
      BY <1>2 DEF Result
    <2> QED BY <1>1, <2>3, <2>4, <2>5, AttestationIs
  <1>3. CASE ~Hit(i, p)
    <2>1. Result(i, p, signed) = Attestation(Tri(i, p, cycle.pem), signed, p) BY <1>3 DEF Result
    <2> QED BY <1>1, <2>1, AttestationIs
  <1> QED BY <1>2, <1>3

LEMMA ListIncidentsKeeps ==
  ASSUME PollInv, NEW answered \in BOOLEAN, ListIncidents(answered)
  PROVE  PollInv'
  <1>1. /\ cycle' = [pc |-> "audit", pem |-> readable,
                     todo |-> IF answered THEN Window ELSE <<>>, out |-> [i \in Ids |-> NoEntry]]
        /\ UNCHANGED <<proof, readable, cache, page>>
    BY DEF ListIncidents
  <1> DEFINE todo == IF answered THEN Window ELSE <<>>
  <1>2. cycle' = [pc |-> "audit", pem |-> readable, todo |-> todo, out |-> [i \in Ids |-> NoEntry]]
    BY <1>1
  <1> HIDE DEF todo
  <1>3. /\ cycle'.pem = readable /\ cycle'.out = [i \in Ids |-> NoEntry]
        /\ cycle' = [pc |-> "audit", pem |-> cycle'.pem, todo |-> cycle'.todo, out |-> cycle'.out]
    BY <1>2
  <1>4. PollTypes' BY <1>1, <1>3 DEF PollInv, PollTypes, Auditing
  <1>5. \A i \in Ids : cycle'.out[i] = NoEntry BY <1>3
  <1> QED BY <1>1, <1>4, <1>5 DEF PollInv, Tri

\* Whatever the fetch and the counter-signature came to.
LEMMA AuditIncidentKeeps ==
  ASSUME PollInv, NEW answered \in BOOLEAN, NEW signed \in BOOLEAN, AuditIncident(answered, signed)
  PROVE  PollInv'
  <1> DEFINE i == Head(cycle.todo)
             p == IF answered THEN proof[i] ELSE Lost
             result == IF answered THEN Result(i, p, signed)
                       ELSE Attestation(Tri(i, p, cycle.pem), signed, p)
             entry == [tri |-> result.tri, signed |-> result.signed, key |-> CacheKey(p, cycle.pem)]
  <1>1. /\ cycle.pc = "audit"
        /\ cycle' = [cycle EXCEPT !.todo = Tail(@), !.out[i] = result]
        /\ cache' = IF answered THEN [cache EXCEPT ![i] = entry] ELSE cache
        /\ UNCHANGED <<proof, readable, page>>
    BY DEF AuditIncident
  <1>2. /\ cycle = [pc |-> "audit", pem |-> cycle.pem, todo |-> cycle.todo, out |-> cycle.out]
        /\ cycle.pem \in BOOLEAN /\ cycle.out \in [Ids -> {NoEntry} \cup Shown]
        /\ cycle # Waiting
    <2>1. cycle # Waiting BY <1>1 DEF Waiting
    <2> QED BY <2>1 DEF PollInv, PollTypes, Auditing
  <1>3. i \in Ids => /\ result \in Shown /\ result.tri = Tri(i, p, cycle.pem)
                     /\ result.saw = p /\ result.pem = cycle.pem /\ p \in Proofs
    <2> SUFFICES ASSUME i \in Ids
                 PROVE  /\ result \in Shown /\ result.tri = Tri(i, p, cycle.pem)
                        /\ result.saw = p /\ result.pem = cycle.pem /\ p \in Proofs
      OBVIOUS
    <2>1. p \in Proofs BY DEF PollInv, PollTypes, Proofs, Lost
    <2>2. Tri(i, p, cycle.pem) \in Verdicts BY TriIs
    <2> HIDE DEF i, p
    <2>3. CASE answered BY <1>2, <2>1, <2>3, ResultIs
    <2>4. CASE ~answered BY <1>2, <2>1, <2>2, <2>4, AttestationIs
    <2> QED BY <2>1, <2>3, <2>4
  <1>4. i \in Ids => /\ entry \in Cached /\ entry.tri = Tri(i, entry.key[1], entry.key[2])
    <2> SUFFICES ASSUME i \in Ids
                 PROVE  entry \in Cached /\ entry.tri = Tri(i, entry.key[1], entry.key[2])
      OBVIOUS
    <2>1. /\ result.tri \in Verdicts /\ result.signed \in BOOLEAN
          /\ result.tri = Tri(i, p, cycle.pem) /\ p \in Proofs
      BY <1>3 DEF Shown
    <2> HIDE DEF i, p, result
    <2>2. entry.key = <<p, cycle.pem>> /\ entry.key[1] = p /\ entry.key[2] = cycle.pem
      BY DEF CacheKey
    <2>3. entry.key \in Proofs \X BOOLEAN BY <1>2, <2>1, <2>2
    <2> QED BY <2>1, <2>2, <2>3 DEF Cached
  <1> HIDE DEF i, p, result, entry
  <1>5. /\ cycle' = [pc |-> "audit", pem |-> cycle.pem, todo |-> Tail(cycle.todo),
                     out |-> [cycle.out EXCEPT ![i] = result]]
    BY <1>1, <1>2
  <1>6. /\ cycle'.pem = cycle.pem /\ cycle'.out = [cycle.out EXCEPT ![i] = result]
        /\ cycle' = [pc |-> "audit", pem |-> cycle'.pem, todo |-> cycle'.todo, out |-> cycle'.out]
    BY <1>5
  <1>7. cycle'.out \in [Ids -> {NoEntry} \cup Shown] BY <1>2, <1>3, <1>6
  <1>8. cache' \in [Ids -> {NoEntry} \cup Cached] BY <1>1, <1>4 DEF PollInv, PollTypes
  <1>9. PollTypes' BY <1>1, <1>2, <1>6, <1>7, <1>8 DEF PollInv, PollTypes, Auditing
  <1>10. \A j \in Ids : cache'[j] # NoEntry => cache'[j].tri = Tri(j, cache'[j].key[1], cache'[j].key[2])
    <2> SUFFICES ASSUME NEW j \in Ids, cache'[j] # NoEntry
                 PROVE  cache'[j].tri = Tri(j, cache'[j].key[1], cache'[j].key[2])
      OBVIOUS
    <2>1. CASE answered /\ j = i
      <3>1. cache'[j] = entry BY <1>1, <2>1 DEF PollInv, PollTypes
      <3> QED BY <1>4, <2>1, <3>1
    <2>2. CASE ~(answered /\ j = i)
      <3>1. cache'[j] = cache[j] BY <1>1, <2>2 DEF PollInv, PollTypes
      <3> QED BY <3>1 DEF PollInv
    <2> QED BY <2>1, <2>2
  <1>11. \A j \in Ids : cycle'.out[j] # NoEntry =>
           cycle'.out[j].tri = Tri(j, cycle'.out[j].saw, cycle'.pem) /\ cycle'.out[j].pem = cycle'.pem
    <2> SUFFICES ASSUME NEW j \in Ids, cycle'.out[j] # NoEntry
                 PROVE  /\ cycle'.out[j].tri = Tri(j, cycle'.out[j].saw, cycle'.pem)
                        /\ cycle'.out[j].pem = cycle'.pem
      OBVIOUS
    <2>1. CASE j = i
      <3>1. cycle'.out[j] = result BY <1>2, <1>6, <2>1
      <3> QED BY <1>3, <1>6, <2>1, <3>1
    <2>2. CASE j # i
      <3>1. cycle'.out[j] = cycle.out[j] BY <1>2, <1>6, <2>2
      <3> QED BY <1>2, <1>6, <3>1 DEF PollInv
    <2> QED BY <2>1, <2>2
  <1>12. \A j \in Ids : page'[j] # NoEntry => page'[j].tri = Tri(j, page'[j].saw, page'[j].pem)
    BY <1>1 DEF PollInv
  <1> QED BY <1>9, <1>10, <1>11, <1>12 DEF PollInv, Tri

LEMMA EndCycleKeeps ==
  ASSUME PollInv, EndCycle
  PROVE  PollInv'
  <1>1. /\ cycle.pc = "audit" /\ cycle' = Waiting /\ page' = cycle.out
        /\ cache' = [i \in Ids |-> IF cycle.out[i] = NoEntry THEN NoEntry ELSE cache[i]]
        /\ UNCHANGED <<proof, readable>>
    BY DEF EndCycle
  <1>2. cycle # Waiting BY <1>1 DEF Waiting
  <1>3. PollTypes' BY <1>1, <1>2 DEF PollInv, PollTypes, Auditing
  <1>4. \A i \in Ids : cache'[i] # NoEntry => cache'[i].tri = Tri(i, cache'[i].key[1], cache'[i].key[2])
    <2> SUFFICES ASSUME NEW i \in Ids, cache'[i] # NoEntry
                 PROVE  cache'[i].tri = Tri(i, cache'[i].key[1], cache'[i].key[2])
      OBVIOUS
    <2>1. cache'[i] = cache[i] BY <1>1
    <2> QED BY <2>1 DEF PollInv
  <1>5. \A i \in Ids : page'[i] # NoEntry => page'[i].tri = Tri(i, page'[i].saw, page'[i].pem)
    BY <1>1, <1>2 DEF PollInv
  <1> QED BY <1>1, <1>3, <1>4, <1>5 DEF PollInv, Tri

\* Nothing is being audited, and what is kept is what was kept or nothing.
LEMMA WaitingKeeps ==
  ASSUME PollInv, cycle' = Waiting, UNCHANGED <<proof, readable>>,
         UNCHANGED cache \/ cache' = [i \in Ids |-> NoEntry],
         UNCHANGED page \/ page' = [i \in Ids |-> NoEntry]
  PROVE  PollInv'
  <1>1. PollTypes' BY DEF PollInv, PollTypes
  <1>2. \A i \in Ids : cache'[i] # NoEntry => cache'[i].tri = Tri(i, cache'[i].key[1], cache'[i].key[2])
    BY DEF PollInv
  <1>3. \A i \in Ids : page'[i] # NoEntry => page'[i].tri = Tri(i, page'[i].saw, page'[i].pem)
    BY DEF PollInv
  <1> QED BY <1>1, <1>2, <1>3 DEF PollInv, Tri

\* The agent and the disk: what was audited was audited.
LEMMA OutsideKeeps ==
  ASSUME PollInv, UNCHANGED <<cycle, cache, page>>,
         readable' \in BOOLEAN, proof' \in [Ids -> Proofs]
  PROVE  PollInv'
  <1>1. PollTypes' BY DEF PollInv, PollTypes, Auditing
  <1> QED BY <1>1 DEF PollInv, Tri

LEMMA AgentKeeps ==
  ASSUME PollInv, NEW i \in Ids, NEW signer \in {"pinned", "other"},
         OpenIncident(i) \/ Altered(i) \/ StampProof(i, signer)
  PROVE  PollInv'
  <1>1. readable \in BOOLEAN /\ proof \in [Ids -> Proofs] BY DEF PollInv, PollTypes
  <1>2. CASE OpenIncident(i) BY <1>1, <1>2, OutsideKeeps DEF OpenIncident
  <1>3. CASE Altered(i)
    <2>1. [proof[i] EXCEPT !.intact = FALSE] \in Proofs BY <1>1 DEF Proofs
    <2>2. proof' \in [Ids -> Proofs] BY <1>1, <1>3, <2>1 DEF Altered
    <2> QED BY <1>1, <1>3, <2>2, OutsideKeeps DEF Altered
  <1>4. CASE StampProof(i, signer)
    <2>1. [proof[i] EXCEPT !.signer = signer] \in Proofs BY <1>1 DEF Proofs
    <2>2. proof' \in [Ids -> Proofs] BY <1>1, <1>4, <2>1 DEF StampProof
    <2> QED BY <1>1, <1>4, <2>2, OutsideKeeps DEF StampProof
  <1> QED BY <1>2, <1>3, <1>4

LEMMA PollStepKeeps ==
  ASSUME PollInv, [PollNext]_pollvars
  PROVE  PollInv'
  <1>0. readable \in BOOLEAN /\ proof \in [Ids -> Proofs] BY DEF PollInv, PollTypes
  <1>1. CASE UNCHANGED pollvars
    BY <1>0, <1>1, OutsideKeeps DEF pollvars
  <1>2. ASSUME NEW answered \in BOOLEAN, ListIncidents(answered) PROVE PollInv'
    BY <1>2, ListIncidentsKeeps
  <1>3. ASSUME NEW answered \in BOOLEAN, NEW signed \in BOOLEAN, AuditIncident(answered, signed)
        PROVE  PollInv'
    BY <1>3, AuditIncidentKeeps
  <1>4. CASE EndCycle BY <1>4, EndCycleKeeps
  <1>5. CASE CycleFails BY <1>5, WaitingKeeps DEF CycleFails
  <1>6. CASE AuditorRestart BY <1>6, WaitingKeeps DEF AuditorRestart
  <1>7. ASSUME NEW i \in Ids, NEW signer \in {"pinned", "other"},
               OpenIncident(i) \/ Altered(i) \/ StampProof(i, signer)
        PROVE  PollInv'
    BY <1>7, AgentKeeps
  <1>8. CASE KeyFile BY <1>0, <1>8, OutsideKeeps DEF KeyFile
  <1> QED BY <1>1, <1>2, <1>3, <1>4, <1>5, <1>6, <1>7, <1>8 DEF PollNext, PollStep

LEMMA PollStart == PollInit => PollInv
  <1> SUFFICES ASSUME PollInit PROVE PollInv
    OBVIOUS
  <1>1. PollTypes BY DEF PollInit, PollTypes, Live, Proofs
  <1>2. \A i \in Ids : cache[i] = NoEntry /\ page[i] = NoEntry BY DEF PollInit
  <1>3. cycle = Waiting BY DEF PollInit
  <1> QED BY <1>1, <1>2, <1>3 DEF PollInv

--------------------------------------------------------------------------------
(* The poll: the property. *)

\* Whatever was audited, cached or published carries the verdict its bytes and
\* its pins give.
THEOREM PollInvariant == PollSpec => []PollInv
  <1>1. PollInv /\ [PollNext]_pollvars => PollInv' BY PollStepKeeps
  <1> QED BY <1>1, PollStart, PTL DEF PollSpec

\* A verdict taken from the auditor's cache is the one a fresh verification of
\* the same bytes with the same pins would give, on the page and in the cycle.
THEOREM VerdictsAreFresh == PollSpec => []VerdictIsFresh
  <1>1. PollInv => VerdictIsFresh BY DEF PollInv, VerdictIsFresh
  <1> QED BY <1>1, PollInvariant, PTL

===============================================================================
