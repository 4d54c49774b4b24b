----------------------------- MODULE LogAuditProofs -----------------------------
(***************************************************************************)
(* Proofs about LogAudit, for any number of incidents and stamping threads *)
(* and any bound on appends, pages, restores and losses: what the auditor  *)
(* comes to trust, and when it raises an alarm, while heals append, pages  *)
(* are lost and stores are restored or wiped.                              *)
(***************************************************************************)
EXTENDS LogAudit, TransparencyLogProofs, WellFoundedInduction

--------------------------------------------------------------------------------
(* Counting. *)

\* A set of numbers that is not empty has a least one.
LEMMA LeastNumber ==
  ASSUME NEW T \in SUBSET Nat, T # {}
  PROVE  \E n \in T : \A m \in T : n <= m
  <1> DEFINE R == {ss \in Nat \X Nat : ss[1] < ss[2]}
  <1>1. R = OpToRel(<, Nat) BY DEF OpToRel
  <1>2. IsWellFoundedOn(R, Nat) BY <1>1, NatLessThanWellFounded
  <1>3. \A x, y \in Nat : <<x, y>> \in R <=> x < y OBVIOUS
  <1> HIDE DEF R
  <1>4. PICK n \in T : \A m \in T : ~(<<m, n>> \in R) BY <1>2, WFMin
  <1>5. T \subseteq Nat OBVIOUS
  <1>6. \A m \in T : ~(m < n) BY <1>3, <1>4, <1>5, Zenon
  <1> QED BY <1>5, <1>6

\* Induction on the numbers from m to n, over the set where the claim holds.
LEMMA RangeInduction ==
  ASSUME NEW m \in Nat, NEW n \in Nat, NEW T, m \in T,
         \A s \in m..n : s \in T /\ s < n => s + 1 \in T
  PROVE  \A s \in m..n : s \in T
  <1> SUFFICES ASSUME (m..n) \ T # {} PROVE FALSE
    OBVIOUS
  <1>1. (m..n) \ T \in SUBSET Nat OBVIOUS
  <1>2. PICK s \in (m..n) \ T : \A r \in (m..n) \ T : s <= r BY <1>1, LeastNumber
  <1>3. s # m /\ s \in m..n BY <1>2
  <1>4. PICK r \in m..n : r + 1 = s /\ r < n BY <1>3
  <1>5. r \in T BY <1>2, <1>4
  <1> QED BY <1>2, <1>4, <1>5

--------------------------------------------------------------------------------
(* A restore. *)

LEMMA PrefixIs ==
  ASSUME NEW S, NEW q \in Seq(S), NEW k \in 0..Len(q)
  PROVE  /\ SubSeq(q, 1, k) \in Seq(S) /\ Len(SubSeq(q, 1, k)) = k
         /\ SubSeq(q, 1, k) = [j \in 1..k |-> q[j]]
         /\ \A n \in 0..k : SubSeq(SubSeq(q, 1, k), 1, n) = SubSeq(q, 1, n)
         /\ k # 0 => Append(SubSeq(q, 1, k - 1), q[k]) = SubSeq(q, 1, k)
  OBVIOUS

\* A restore cuts the log to the backup, and leaves a head and entries that agree.
LEMMA RestoreKeeps ==
  ASSUME LogInv, NEW k \in 0..MaxAppends, Restore(k)
  PROVE  LogInv' /\ Logged' = SubSeq(Logged, 1, k) /\ k \in 0..Len(Logged)
  <1>1. /\ clock \in 0..MaxAppends /\ chain.seq \in 0..clock /\ chain.hash = Logged
        /\ chain.seq \in Nat /\ MaxAppends \in Nat /\ RecentCap \in Nat /\ k \in Nat
        /\ Logged \in Seq(Link) /\ Len(Logged) = chain.seq
        /\ \A s \in 1..chain.seq : Logged[s] = docs[s].link
        /\ \A s \in 1..chain.seq : s \in 1..MaxAppends /\ EntryOK(s)
    <2>1. clock \in 0..MaxAppends /\ chain.seq \in 0..clock /\ chain.hash = Logged
          /\ \A s \in 1..MaxAppends : IF s > chain.seq THEN docs[s] = NoEntry ELSE EntryOK(s)
      BY DEF LogInv, ChainOK
    <2>2. MaxAppends \in Nat /\ RecentCap \in Nat BY LogAssumption
    <2>3. chain.seq \in Nat /\ k \in Nat
          /\ \A s \in 1..chain.seq : s \in 1..MaxAppends /\ ~(s > chain.seq)
      BY <2>1, <2>2
    <2>4. \A s \in 1..chain.seq : s \in 1..MaxAppends /\ EntryOK(s) BY <2>1, <2>3
    <2>5. Logged \in Seq(Link) /\ Len(Logged) = chain.seq
          /\ \A s \in 1..chain.seq : Logged[s] = docs[s].link
      BY <2>3, <2>4, LoggedIsSeq DEF LogInv
    <2> QED BY <2>1, <2>2, <2>3, <2>4, <2>5
  <1>2. /\ k < chain.seq /\ UNCHANGED <<record, stamp, clock>>
        /\ docs' = [s \in 1..MaxAppends |-> IF s > k THEN NoEntry ELSE docs[s]]
        /\ chain' = [seq |-> k, hash |-> SubSeq(chain.hash, 1, k),
                     recent |-> LastOf([s \in 1..k |-> KeyAt(s)], RecentCap)]
    BY DEF Restore, KeyAt
  <1>3. k \in 0..Len(Logged) BY <1>1, <1>2
  <1>4. /\ SubSeq(Logged, 1, k) = [j \in 1..k |-> Logged[j]]
        /\ \A n \in 0..k : SubSeq(SubSeq(Logged, 1, k), 1, n) = SubSeq(Logged, 1, n)
    BY <1>1, <1>3, PrefixIs
  <1>5. \A s \in 1..k : s \in 1..MaxAppends /\ docs'[s] = docs[s] /\ s \in 1..chain.seq
    BY <1>1, <1>2
  <1>6. Logged' = SubSeq(Logged, 1, k)
    <2>1. Logged' = [s \in 1..k |-> docs'[s].link] BY <1>2 DEF Logged
    <2>2. \A s \in 1..k : docs'[s].link = Logged[s] BY <1>1, <1>5
    <2>3. [s \in 1..k |-> docs'[s].link] = [s \in 1..k |-> Logged[s]] BY <2>2
    <2> QED BY <1>4, <2>1, <2>3
  <1>7. StampsOK' BY <1>2 DEF LogInv, StampsOK
  <1>8. ChainOK'
    <2>1. ASSUME NEW s \in 1..k PROVE EntryOK(s)'
      <3>1. EntryOK(s) BY <1>1, <1>5
      <3>2. s \in 0..k /\ s - 1 \in 0..k BY <1>1
      <3>3. SubSeq(Logged', 1, s) = SubSeq(Logged, 1, s)
            /\ SubSeq(Logged', 1, s - 1) = SubSeq(Logged, 1, s - 1)
        BY <1>4, <1>6, <3>2
      <3> QED BY <1>5, <3>1, <3>3 DEF EntryOK
    <2>2. ASSUME NEW s \in 1..MaxAppends
          PROVE  (IF s > chain.seq THEN docs[s] = NoEntry ELSE EntryOK(s))'
      <3>1. CASE s > k BY <1>2, <3>1
      <3>2. CASE ~(s > k)
        <4>1. s \in 1..k BY <1>1, <3>2
        <4> QED BY <1>2, <2>1, <3>2, <4>1
      <3> QED BY <3>1, <3>2
    <2>3. (docs = [s \in 1..MaxAppends |-> docs[s]])' BY <1>2
    <2>4. (clock \in 0..MaxAppends)' /\ (chain.seq \in 0..clock)' BY <1>1, <1>2
    <2>5. (chain.hash = Logged)' BY <1>1, <1>2, <1>6
    <2> QED BY <2>2, <2>3, <2>4, <2>5 DEF ChainOK
  <1>9. Remembers'
    <2> DEFINE q == [s \in 1..k |-> KeyAt(s)]
    <2>1. \A s \in 1..k : KeyAt(s) \in Incidents \X Status
      <3>1. \A s \in 1..k : docs[s].link \in Link BY <1>1, <1>5 DEF EntryOK
      <3>2. \A l \in Link : l.inc \in Incidents /\ l.status \in Status BY DEF Link
      <3> QED BY <3>1, <3>2 DEF KeyAt, Key
    <2>2. q \in Seq(Incidents \X Status) /\ Len(q) = k /\ \A s \in 1..k : q[s] = KeyAt(s)
      BY <1>1, <2>1, FunctionIsSeq
    <2> HIDE DEF q
    <2>3. PICK f \in Nat : f = IF k <= RecentCap THEN 0 ELSE k - RecentCap
      <3>1. CASE k <= RecentCap BY <3>1
      <3>2. CASE ~(k <= RecentCap)
        <4>1. k - RecentCap \in Nat BY <1>1, <3>2
        <4> QED BY <3>2, <4>1
      <3> QED BY <3>1, <3>2
    <2>4. Forgotten' = f /\ chain'.seq = k BY <1>2, <2>3 DEF Forgotten
    <2>5. chain'.recent = [j \in 1..(k - f) |-> q[f + j]]
      <3>1. chain'.recent = LastOf(q, RecentCap) BY <1>2 DEF q
      <3>2. f = IF Len(q) <= RecentCap THEN 0 ELSE Len(q) - RecentCap BY <2>2, <2>3
      <3>3. LastOf(q, RecentCap) = [j \in 1..(Len(q) - f) |-> q[f + j]]
        BY <3>2 DEF LastOf
      <3> QED BY <2>2, <3>1, <3>3
    <2>6. \A j \in 1..(k - f) : q[f + j] = KeyAt(f + j)'
      <3>1. \A j \in 1..(k - f) : f + j \in 1..k BY <1>1, <2>3
      <3>2. \A s \in 1..k : q[s] = KeyAt(s)' BY <1>5, <2>2 DEF KeyAt
      <3> QED BY <3>1, <3>2
    <2> QED BY <2>4, <2>5, <2>6 DEF Remembers
  <1> QED BY <1>3, <1>6, <1>7, <1>8, <1>9 DEF LogInv

\* What any step does to the log: it keeps it, extends it by a stamp, or cuts it.
LEMMA LoggedMoves ==
  ASSUME LogInv, [AuditNext]_vars
  PROVE  /\ LogInv'
         /\ \/ /\ [LogNext]_logvars /\ UNCHANGED <<restores>>
            \/ \E k \in 0..MaxAppends : Restore(k)
  <1>1. CASE UNCHANGED vars BY <1>1, LogStep DEF vars, logvars, faultvars
  <1>2. CASE LogNext /\ UNCHANGED <<auditvars, faultvars>> BY <1>2, LogStep DEF faultvars
  <1>3. CASE FetchHead \/ FetchPage \/ PageLost \/ Attest \/ CheckpointLost \/ AuditorRestarts
    <2>1. UNCHANGED logvars /\ UNCHANGED <<restores>>
      BY <1>3 DEF FetchHead, FetchPage, PageLost, Attest, CheckpointLost, AuditorRestarts, faultvars
    <2> QED BY <2>1, LogStep
  <1>4. CASE \E k \in 0..MaxAppends : Restore(k) BY <1>4, RestoreKeeps
  <1> QED BY <1>1, <1>2, <1>3, <1>4 DEF AuditNext

\* The log is append-only but for restores, each of which cuts it to a prefix: in
\* spite of a cut the head forgets no key of the last RecentCap links.
THEOREM LogIsRestorable == AuditSpec => LogGrowsOrIsRestored
  <1>1. AuditInit => LogInv /\ Promise!Init BY LogStart DEF AuditInit, Promise!Init
  <1>2. LogInv /\ [AuditNext]_vars => LogInv' BY LoggedMoves
  <1>3. ASSUME LogInv, [AuditNext]_vars
        PROVE  [Promise!Grow \/ Promise!Shrink]_Logged
    <2>1. CASE [LogNext]_logvars
      <3>1. CASE Logged' = Logged BY <3>1
      <3>2. ASSUME NEW w \in Stampers, AppendLink(w) PROVE Promise!Grow
        <4>1. PICK l \in Link : ~Seen(chain, Key(l.inc, l.status)) /\ Logged' = Append(Logged, l)
          BY <1>3, <3>2, AppendIs
        <4>2. Len(Logged') > Len(Logged) BY <1>3, <4>1, AppendIsLonger
        <4> QED BY <1>3, <4>1, <4>2, UnseenIsNew DEF Promise!Extend, Promise!Grow
      <3> QED BY <1>3, <2>1, <3>1, <3>2, LogStep
    <2>2. CASE \E k \in 0..MaxAppends : Restore(k)
      <3>1. PICK k \in 0..MaxAppends : Restore(k) BY <2>2
      <3>2. Logged' = SubSeq(Logged, 1, k) /\ k \in 0..Len(Logged) BY <1>3, <3>1, RestoreKeeps
      <3>3. Logged \in Seq(Link) /\ k < Len(Logged)
        BY <1>3, <3>1, LoggedIsSeq DEF LogInv, Restore
      <3>4. Len(Logged') < Len(Logged) BY <3>2, <3>3, PrefixIs
      <3> QED BY <3>2, <3>4 DEF Promise!Cut, Promise!Shrink
    <2> QED BY <1>3, <2>1, <2>2, LoggedMoves
  <1> QED BY <1>1, <1>2, <1>3, PTL DEF AuditSpec, LogGrowsOrIsRestored, Promise!RestorableSpec
--------------------------------------------------------------------------------
(* What an audit holds. *)

Reading ==
  [pc : {"pages", "walk"}, seq : 0..MaxAppends, hash : Seq(Link), lo : Nat \ {0},
   got : SUBSET Entry, torn : BOOLEAN, truth : Seq(Link)]

Checkpoint == [seq : 0..MaxAppends, hash : Seq(Link)]

AuditOK ==
  audit # NoAudit =>
    /\ audit \in Reading
    /\ audit.hash = audit.truth /\ Len(audit.truth) = audit.seq
    /\ \A e \in audit.got : e.seq < audit.lo
    /\ \A d, e \in audit.got : d.seq = e.seq => d = e

CheckpointOK ==
  /\ known \in BOOLEAN /\ reset \in BOOLEAN /\ restores \in Nat
  /\ checkpoint # NoCheckpoint => checkpoint \in Checkpoint /\ Len(checkpoint.hash) = checkpoint.seq
  /\ checkpoint # NoCheckpoint => known
  /\ reset <=> (known /\ checkpoint = NoCheckpoint)

AuditInv == LogInv /\ AuditOK /\ CheckpointOK

\* The entry at s of a log that holds the links of t.
EntryIn(t, s) ==
  [seq |-> s, prev |-> SubSeq(t, 1, s - 1), link |-> t[s], hash |-> SubSeq(t, 1, s)]

\* The documents are determined by the log they hold.
LEMMA EntryIs ==
  ASSUME LogInv, NEW s \in 1..chain.seq
  PROVE  /\ docs[s] = EntryIn(Logged, s) /\ docs[s] \in Entry /\ docs[s] # NoEntry
         /\ Logged[s].signer # "none" /\ s \in 1..MaxAppends
  <1>1. chain.seq \in Nat /\ s \in 1..MaxAppends /\ ~(s > chain.seq)
    BY LogAssumption DEF LogInv, ChainOK
  <1>2. EntryOK(s) BY <1>1 DEF LogInv, ChainOK
  <1>3. Logged[s] = docs[s].link BY <1>1, LoggedIsSeq DEF LogInv
  <1>4. docs[s] \in Entry /\ docs[s].seq = s /\ docs[s].prev = SubSeq(Logged, 1, s - 1)
        /\ docs[s].hash = SubSeq(Logged, 1, s) /\ docs[s].link = Logged[s]
        /\ docs[s].link.signer # "none"
    BY <1>2, <1>3 DEF EntryOK
  <1>5. \A e \in Entry : e = [seq |-> e.seq, prev |-> e.prev, link |-> e.link, hash |-> e.hash]
    BY DEF Entry
  <1>6. docs[s] = EntryIn(Logged, s) BY <1>4, <1>5 DEF EntryIn
  <1>7. NoEntry.seq = 0 BY DEF NoEntry
  <1> QED BY <1>1, <1>3, <1>4, <1>6, <1>7

\* What a page holds.
LEMMA ServedIs ==
  ASSUME LogInv, NEW lo \in Nat \ {0}, NEW hi \in Nat
  PROVE  /\ \A e \in Served(lo, hi) : e \in Entry /\ e.seq \in lo..hi
         /\ \A d, e \in Served(lo, hi) : d.seq = e.seq => d = e
         /\ hi <= chain.seq => Served(lo, hi) = {EntryIn(Logged, s) : s \in lo..hi}
  <1>1. chain.seq \in Nat BY DEF LogInv, ChainOK
  <1>2. \A r \in lo..hi : r <= chain.seq => r \in 1..chain.seq BY <1>1
  <1>3. \A r \in 1..chain.seq : docs[r] = EntryIn(Logged, r) /\ docs[r] \in Entry /\ docs[r] # NoEntry
    BY EntryIs
  <1>4. \A r : EntryIn(Logged, r).seq = r BY DEF EntryIn
  <1>5. \A e \in Served(lo, hi) : \E r \in lo..hi : r <= chain.seq /\ e = docs[r]
    BY DEF Served
  <1>6. ASSUME hi <= chain.seq PROVE Served(lo, hi) = {EntryIn(Logged, s) : s \in lo..hi}
    <2>1. \A r \in lo..hi : r <= chain.seq BY <1>1, <1>6
    <2>2. {r \in lo..hi : r <= chain.seq /\ docs[r] # NoEntry} = lo..hi BY <1>2, <1>3, <2>1
    <2> QED BY <1>2, <1>3, <2>1, <2>2 DEF Served
  <1> QED BY <1>2, <1>3, <1>4, <1>5, <1>6

--------------------------------------------------------------------------------
(* The hash below an entry. *)

LEMMA NothingBelow ==
  ASSUME NEW got, NEW s, Present(got, s - 1) = {}
  PROVE  HashBelow(got, s) = <<>>
  <1> DEFINE below == Present(got, s - 1)
             last == CHOOSE t \in below : \A u \in below : u <= t
  <1>1. HashBelow(got, s) = IF below = {} THEN <<>> ELSE HashOf(Fetched(got, last))
    BY DEF HashBelow
  <1> HIDE DEF last
  <1> QED BY <1>1

\* Where no entry is missing, the hash below an entry is that of the one before it.
LEMMA HashBelowIs ==
  ASSUME NEW got, NEW t \in Nat, \A u \in 1..t : At(got, u) # {}
  PROVE  /\ t = 0 => HashBelow(got, t + 1) = <<>>
         /\ t # 0 => HashBelow(got, t + 1) = HashOf(Fetched(got, t))
  <1>1. t + 1 - 1 = t OBVIOUS
  <1>2. Present(got, t + 1 - 1) = 1..t BY <1>1 DEF Present
  <1> DEFINE below == Present(got, t + 1 - 1)
             last == CHOOSE x \in below : \A u \in below : u <= x
  <1>3. HashBelow(got, t + 1) = IF below = {} THEN <<>> ELSE HashOf(Fetched(got, last))
    BY DEF HashBelow
  <1>4. ASSUME t # 0 PROVE last = t
    <2>1. t \in below /\ \A u \in below : u <= t BY <1>2, <1>4
    <2>2. last \in below /\ \A u \in below : u <= last BY <2>1
    <2> QED BY <1>2, <2>1, <2>2
  <1>5. t = 0 => below = {} BY <1>2
  <1>6. t # 0 => below # {} BY <1>2
  <1> HIDE DEF last
  <1> QED BY <1>3, <1>4, <1>5, <1>6

--------------------------------------------------------------------------------
(* The step. *)

\* An audit that is good trusts the log as it was when its head was read.
LEMMA TrustedIsTruth ==
  ASSUME AuditInv, audit # NoAudit, Ok
  PROVE  /\ Advanced = [seq |-> audit.seq, hash |-> audit.truth]
         /\ Advanced \in Checkpoint /\ Advanced # NoCheckpoint /\ Len(Advanced.hash) = Advanced.seq
  <1>1. audit \in Reading /\ audit.hash = audit.truth /\ Len(audit.truth) = audit.seq
    BY DEF AuditInv, AuditOK
  <1>2. audit.seq \in 0..MaxAppends /\ audit.truth \in Seq(Link) BY <1>1 DEF Reading
  <1>3. HeadFits(audit.got, audit.seq, audit.hash) BY DEF Ok, ChainIntact
  <1>4. HashBelow(audit.got, audit.seq + 1) = audit.truth
    <2>1. CASE audit.seq = 0
      <3>1. Present(audit.got, (audit.seq + 1) - 1) = {} BY <2>1 DEF Present
      <3>2. HashBelow(audit.got, audit.seq + 1) = <<>> BY <3>1, NothingBelow
      <3>3. audit.truth = <<>> BY <1>1, <1>2, <2>1
      <3> QED BY <3>2, <3>3
    <2>2. CASE audit.seq # 0 BY <1>1, <1>3, <2>2 DEF HeadFits
    <2> QED BY <2>1, <2>2
  <1>5. Advanced = [seq |-> audit.seq, hash |-> audit.truth] BY <1>4 DEF Advanced
  <1>6. Advanced.seq = audit.seq /\ audit.seq # -1 BY <1>2, <1>5, LogAssumption
  <1> QED BY <1>1, <1>2, <1>5, <1>6 DEF Checkpoint, NoCheckpoint

LEMMA PageBounds ==
  ASSUME AuditInv, audit # NoAudit, audit.lo <= Reach
  PROVE  PageEnd \in audit.lo..Reach /\ PageEnd + 1 \in Nat \ {0} /\ audit.lo \in Nat \ {0}
         /\ audit.seq \in Nat /\ Reach \in 0..audit.seq
  <1>1. audit.lo \in Nat \ {0} /\ audit.seq \in 0..MaxAppends BY DEF AuditInv, AuditOK, Reading
  <1> QED BY <1>1, AuditAssumption, LogAssumption DEF PageEnd, Reach

LEMMA FetchPageKeeps ==
  ASSUME AuditInv, audit # NoAudit, FetchPage
  PROVE  AuditOK' /\ audit' # NoAudit
  <1>1. audit.lo <= Reach BY DEF FetchPage
  <1>2. audit \in Reading /\ audit.hash = audit.truth /\ Len(audit.truth) = audit.seq
        /\ (\A e \in audit.got : e.seq < audit.lo)
        /\ (\A d, e \in audit.got : d.seq = e.seq => d = e)
    BY DEF AuditInv, AuditOK
  <1>3. NoAudit \notin Reading BY DEF NoAudit, Reading
  <1>4. PICK hi \in audit.lo..Reach : hi = PageEnd /\ hi \in Nat /\ hi + 1 \in Nat \ {0}
        /\ audit.lo \in Nat \ {0}
    BY <1>1, PageBounds
  <1> DEFINE batch == Served(audit.lo, hi)
  <1>5. /\ \A e \in batch : e \in Entry /\ e.seq \in audit.lo..hi
        /\ \A d, e \in batch : d.seq = e.seq => d = e
    BY <1>4, ServedIs DEF AuditInv
  <1>6. audit' = IF batch = {} THEN [audit EXCEPT !.pc = "walk"]
                 ELSE [audit EXCEPT !.got = @ \cup batch, !.lo = PageEnd + 1]
    BY <1>4 DEF FetchPage
  <1> HIDE DEF batch
  <1>7. CASE batch = {}
    <2>1. audit' = [audit EXCEPT !.pc = "walk"] BY <1>6, <1>7
    <2>2. audit' \in Reading /\ audit'.hash = audit.hash /\ audit'.truth = audit.truth
          /\ audit'.seq = audit.seq /\ audit'.got = audit.got /\ audit'.lo = audit.lo
      BY <1>2, <2>1 DEF Reading
    <2> QED BY <1>2, <1>3, <2>2 DEF AuditOK
  <1>8. CASE batch # {}
    <2>1. audit' = [audit EXCEPT !.got = audit.got \cup batch, !.lo = hi + 1] BY <1>4, <1>6, <1>8
    <2>2. audit' \in Reading /\ audit'.hash = audit.hash /\ audit'.truth = audit.truth
          /\ audit'.seq = audit.seq /\ audit'.got = audit.got \cup batch /\ audit'.lo = hi + 1
      BY <1>2, <1>4, <1>5, <2>1 DEF Reading
    <2>3. \A e \in audit.got : e.seq \in Nat /\ e.seq < audit.lo BY <1>2, LogAssumption DEF Reading, Entry
    <2>4. \A e \in audit.got \cup batch : e.seq < hi + 1 BY <1>4, <1>5, <2>3
    <2>5. \A d \in audit.got : \A e \in batch : d.seq # e.seq BY <1>4, <1>5, <2>3
    <2>6. \A d, e \in audit.got \cup batch : d.seq = e.seq => d = e BY <1>2, <1>5, <2>5
    <2> QED BY <1>2, <1>3, <2>2, <2>4, <2>6 DEF AuditOK
  <1> QED BY <1>7, <1>8

LEMMA AuditStep ==
  ASSUME AuditInv, [AuditNext]_vars
  PROVE  AuditInv'
  <1> USE DEF AuditInv
  <1>1. LogInv' BY LoggedMoves
  <1>2. CASE UNCHANGED vars
    BY <1>1, <1>2 DEF vars, auditvars, faultvars, AuditOK, CheckpointOK
  <1>3. CASE LogNext /\ UNCHANGED <<auditvars, faultvars>>
    BY <1>1, <1>3 DEF auditvars, faultvars, AuditOK, CheckpointOK
  <1>4. CASE FetchHead
    <2>1. Logged \in Seq(Link) /\ Len(Logged) = chain.seq /\ chain.hash = Logged
          /\ chain.seq \in 0..MaxAppends
      BY LoggedIsSeq, LogAssumption DEF LogInv, ChainOK
    <2>2. audit' = [pc |-> "pages", seq |-> chain.seq, hash |-> chain.hash, lo |-> 1,
                    got |-> {}, torn |-> FALSE, truth |-> Logged]
      BY <1>4 DEF FetchHead
    <2>3. AuditOK' BY <2>1, <2>2 DEF AuditOK, Reading
    <2> QED BY <1>1, <1>4, <2>3 DEF FetchHead, faultvars, CheckpointOK
  <1>5. CASE FetchPage
    <2>1. audit # NoAudit BY <1>5 DEF FetchPage, NoAudit
    <2> QED BY <1>1, <1>5, <2>1, FetchPageKeeps DEF FetchPage, faultvars, CheckpointOK
  <1>6. CASE PageLost
    <2>1. audit # NoAudit /\ audit' = [audit EXCEPT !.pc = "walk", !.torn = TRUE]
      BY <1>6 DEF PageLost, NoAudit
    <2>2. audit \in Reading BY <2>1 DEF AuditOK
    <2>3. audit' \in Reading /\ audit'.hash = audit.hash /\ audit'.truth = audit.truth
          /\ audit'.seq = audit.seq /\ audit'.got = audit.got /\ audit'.lo = audit.lo
      BY <2>1, <2>2 DEF Reading
    <2>4. AuditOK' BY <2>1, <2>3 DEF AuditOK
    <2> QED BY <1>1, <1>6, <2>4 DEF PageLost, faultvars, CheckpointOK
  <1>7. CASE Attest
    <2>1. audit # NoAudit /\ audit' = NoAudit
      BY <1>7 DEF Attest, ReadOver, NoAudit
    <2>2. UNCHANGED <<restores, reset>> /\ known' = (known \/ Ok)
          /\ checkpoint' = IF Ok THEN Advanced ELSE checkpoint
      BY <1>7 DEF Attest, faultvars
    <2>3. CASE Ok
      <3>1. checkpoint' \in Checkpoint /\ checkpoint' # NoCheckpoint
            /\ Len(checkpoint'.hash) = checkpoint'.seq
        BY <2>1, <2>2, <2>3, TrustedIsTruth
      <3>2. ~reset BY <2>3 DEF Ok, AntiReset, CheckpointOK
      <3> QED BY <1>1, <2>1, <2>2, <2>3, <3>1, <3>2 DEF AuditOK, CheckpointOK
    <2>4. CASE ~Ok BY <1>1, <2>1, <2>2, <2>4 DEF AuditOK, CheckpointOK
    <2> QED BY <2>3, <2>4
  <1>8. CASE \E k \in 0..MaxAppends : Restore(k)
    BY <1>1, <1>8 DEF Restore, auditvars, AuditOK, CheckpointOK
  <1>9. CASE CheckpointLost BY <1>1, <1>9 DEF CheckpointLost, AuditOK, CheckpointOK
  <1>10. CASE AuditorRestarts BY <1>1, <1>10 DEF AuditorRestarts, AuditOK, CheckpointOK
  <1> QED BY <1>2, <1>3, <1>4, <1>5, <1>6, <1>7, <1>8, <1>9, <1>10 DEF AuditNext

LEMMA AuditStart == AuditInit => AuditInv
  <1> SUFFICES ASSUME AuditInit PROVE AuditInv
    OBVIOUS
  <1>1. LogInv BY LogStart DEF AuditInit
  <1>2. audit = NoAudit /\ checkpoint = NoCheckpoint /\ known = FALSE /\ reset = FALSE /\ restores = 0
    BY DEF AuditInit
  <1>3. AuditOK BY <1>2 DEF AuditOK
  <1>4. CheckpointOK BY <1>2 DEF CheckpointOK
  <1> QED BY <1>1, <1>3, <1>4 DEF AuditInv

LEMMA AuditInvariant == AuditSpec => []AuditInv
  <1>1. AuditInv /\ [AuditNext]_vars => AuditInv' BY AuditStep
  <1> QED BY <1>1, AuditStart, PTL DEF AuditSpec

\* A new trusted head comes from a verdict that is good.
LEMMA TrustIsAttested ==
  ASSUME AuditInv, [AuditNext]_vars, checkpoint' # checkpoint, checkpoint' # NoCheckpoint
  PROVE  Attest /\ Ok /\ audit # NoAudit /\ checkpoint' = Advanced
         /\ checkpoint' = [seq |-> audit.seq, hash |-> audit.truth]
         /\ checkpoint' \in Checkpoint /\ Len(audit.truth) = audit.seq /\ audit \in Reading
  <1>1. Attest
    BY DEF AuditNext, vars, auditvars, faultvars, FetchHead, FetchPage, PageLost, Restore,
           CheckpointLost, AuditorRestarts
  <1>2. Ok /\ checkpoint' = Advanced /\ audit # NoAudit BY <1>1 DEF Attest, ReadOver, NoAudit
  <1> QED BY <1>1, <1>2, TrustedIsTruth DEF AuditInv, AuditOK

\* No false comfort: a head that becomes trusted is the whole chain as it was
\* when the audit began, whatever was appended, lost or restored meanwhile.
THEOREM TrustIsInWholeChains == AuditSpec => TrustsWholeChains
  <1>1. AuditInv /\ [AuditNext]_vars
          => [checkpoint' # checkpoint /\ checkpoint' # NoCheckpoint
               => checkpoint'.hash = audit.truth /\ checkpoint'.seq = Len(audit.truth)]_vars
    BY TrustIsAttested
  <1> QED BY <1>1, AuditInvariant, PTL DEF AuditSpec, TrustsWholeChains

--------------------------------------------------------------------------------
(* A trusted head extends the last. *)

\* A chain that is whole and contains a checkpoint has the checkpoint's links
\* as its first: each hash commits to the one before, from the checkpoint on.
LEMMA IntactExtends ==
  ASSUME NEW n \in Nat, NEW got \in SUBSET Entry, NEW hash \in Seq(Link), Len(hash) = n,
         NEW prior \in Checkpoint, prior.seq \in Nat, Len(prior.hash) = prior.seq,
         prior # NoCheckpoint, ChainIntact(got, n, hash), Contained(prior, got, n),
         \A d, e \in got : d.seq = e.seq => d = e
  PROVE  prior.seq <= n /\ SubSeq(hash, 1, prior.seq) = prior.hash
  <1>0. PICK m \in Nat : m = prior.seq OBVIOUS
  <1>1. m <= n /\ (m = 0 \/ \E e \in At(got, m) : HashOf(e) = prior.hash)
    BY <1>0 DEF Contained
  <1>2. prior.hash \in Seq(Link) BY DEF Checkpoint
  <1>3. CASE m = 0
    <2>1. prior.hash = <<>> BY <1>0, <1>2, <1>3
    <2>2. SubSeq(hash, 1, 0) = <<>> OBVIOUS
    <2> QED BY <1>1, <1>3, <2>1, <2>2
  <1>4. CASE m # 0
    <2>1. \A u \in 1..n : At(got, u) # {} BY DEF ChainIntact, Gaps
    <2> DEFINE e(u) == Fetched(got, u)
               H(u) == HashOf(e(u))
    <2>2. \A u \in 1..n : e(u) \in At(got, u) BY <2>1 DEF Fetched
    <2>3. \A u \in 1..n : e(u) \in got /\ e(u).seq = u /\ e(u).prev \in Seq(Link) /\ e(u).link \in Link
      BY <2>2 DEF At, Entry
    <2>4. \A u \in 1..n : e(u).prev = HashBelow(got, u)
      BY <2>1 DEF ChainIntact, Broken, Present
    <2> HIDE DEF e
    <2>5. \A u \in 1..n : H(u) = Append(e(u).prev, e(u).link) /\ H(u) \in Seq(Link)
      BY <2>3 DEF HashOf
    <2>6. \A u \in 1..n : u < n => H(u + 1) = Append(H(u), e(u + 1).link)
      <3> SUFFICES ASSUME NEW u \in 1..n, u < n PROVE H(u + 1) = Append(H(u), e(u + 1).link)
        OBVIOUS
      <3>1. u \in Nat /\ u # 0 /\ u + 1 \in 1..n /\ \A x \in 1..u : At(got, x) # {} BY <2>1
      <3>2. HashBelow(got, u + 1) = H(u) BY <3>1, HashBelowIs DEF e
      <3> QED BY <2>4, <2>5, <3>1, <3>2
    <2>7. H(m) = prior.hash
      <3>1. PICK d \in At(got, m) : HashOf(d) = prior.hash BY <1>1, <1>4
      <3>2. m \in 1..n BY <1>1, <1>4
      <3>3. d = e(m) BY <2>3, <3>1, <3>2 DEF At
      <3> QED BY <3>1, <3>3
    <2>8. hash = H(n)
      <3>1. n # 0 /\ n \in 1..n BY <1>1, <1>4
      <3>2. hash = HashBelow(got, n + 1) BY <3>1 DEF ChainIntact, HeadFits
      <3> QED BY <2>1, <3>1, <3>2, HashBelowIs DEF e
    <2> HIDE DEF H
    <2> DEFINE T == {u \in m..n : Len(H(u)) >= m /\ SubSeq(H(u), 1, m) = prior.hash}
    <2>9. m \in T
      <3>1. m \in m..n BY <1>1
      <3>2. SubSeq(prior.hash, 1, m) = prior.hash BY <1>0, <1>2, SubSeqFull
      <3> QED BY <2>7, <3>1, <3>2
    <2>10. ASSUME NEW u \in m..n, u \in T, u < n PROVE u + 1 \in T
      <3>1. u \in 1..n /\ u + 1 \in 1..n /\ u + 1 \in m..n BY <1>4, <2>10
      <3>2. H(u) \in Seq(Link) /\ e(u + 1).link \in Link /\ H(u + 1) = Append(H(u), e(u + 1).link)
        BY <2>3, <2>5, <2>6, <2>10, <3>1
      <3>3. Len(H(u)) >= m /\ SubSeq(H(u), 1, m) = prior.hash BY <2>10
      <3>4. Len(H(u)) \in Nat /\ m \in 0..Len(H(u)) BY <3>2, <3>3
      <3>5. \A l \in Link : SubSeq(Append(H(u), l), 1, m) = SubSeq(H(u), 1, m)
        BY <3>2, <3>4, PrefixOfAppend
      <3>6. Len(H(u + 1)) = Len(H(u)) + 1 BY <3>2
      <3>7. SubSeq(H(u + 1), 1, m) = prior.hash BY <3>2, <3>3, <3>5
      <3> QED BY <3>1, <3>3, <3>4, <3>6, <3>7
    <2>11. \A u \in m..n : u \in T /\ u < n => u + 1 \in T BY <2>10
    <2> HIDE DEF T
    <2>12. \A u \in m..n : u \in T BY <2>9, <2>11, RangeInduction
    <2>13. n \in T BY <1>1, <2>12
    <2> QED BY <1>1, <2>8, <2>13 DEF T
  <1> QED BY <1>0, <1>3, <1>4

\* A history that was cut or rewritten is never trusted: the next trusted head
\* extends the last, and none follows a checkpoint that vanished.
THEOREM TrustGoesOn == AuditSpec => TrustOnlyExtends
  <1>1. ASSUME AuditInv, [AuditNext]_vars, checkpoint' # checkpoint, checkpoint' # NoCheckpoint
        PROVE  /\ ~reset
               /\ checkpoint # NoCheckpoint =>
                    /\ checkpoint.seq <= checkpoint'.seq
                    /\ SubSeq(checkpoint'.hash, 1, checkpoint.seq) = checkpoint.hash
    <2>1. /\ Ok /\ checkpoint'.seq = audit.seq /\ checkpoint'.hash = audit.truth
          /\ Len(audit.truth) = audit.seq /\ audit \in Reading /\ audit # NoAudit
      BY <1>1, TrustIsAttested
    <2>2. ~reset BY <1>1, <2>1 DEF Ok, AntiReset, AuditInv, CheckpointOK
    <2>3. ASSUME checkpoint # NoCheckpoint
          PROVE  /\ checkpoint.seq <= checkpoint'.seq
                 /\ SubSeq(checkpoint'.hash, 1, checkpoint.seq) = checkpoint.hash
      <3>1. checkpoint \in Checkpoint /\ Len(checkpoint.hash) = checkpoint.seq
        BY <1>1, <2>3 DEF AuditInv, CheckpointOK
      <3>2. audit.seq \in Nat /\ checkpoint.seq \in Nat
        BY <2>1, <3>1, LogAssumption DEF Reading, Checkpoint
      <3>3. audit.got \in SUBSET Entry /\ audit.truth \in Seq(Link) /\ audit.hash = audit.truth
            /\ \A d, e \in audit.got : d.seq = e.seq => d = e
        BY <1>1, <2>1 DEF AuditInv, AuditOK, Reading
      <3>4. ChainIntact(audit.got, audit.seq, audit.truth)
            /\ Contained(checkpoint, audit.got, audit.seq)
        BY <2>1, <3>3 DEF Ok
      <3>5. checkpoint.seq <= audit.seq
            /\ SubSeq(audit.truth, 1, checkpoint.seq) = checkpoint.hash
        BY <2>1, <2>3, <3>1, <3>2, <3>3, <3>4, IntactExtends
      <3> QED BY <2>1, <3>5
    <2> QED BY <2>2, <2>3
  <1>2. AuditInv /\ [AuditNext]_vars
          => [checkpoint' # checkpoint /\ checkpoint' # NoCheckpoint
               => /\ ~reset
                  /\ checkpoint # NoCheckpoint =>
                       /\ checkpoint.seq <= checkpoint'.seq
                       /\ SubSeq(checkpoint'.hash, 1, checkpoint.seq) = checkpoint.hash]_vars
    BY <1>1
  <1> QED BY <1>2, AuditInvariant, PTL DEF AuditSpec, TrustOnlyExtends

--------------------------------------------------------------------------------
(* A reading that nothing disturbed. *)

\* As long as no store was restored, what is trusted and what was read are
\* parts of the log as it is.
FaithfulRead ==
  restores = 0 =>
    /\ checkpoint # NoCheckpoint =>
         checkpoint.seq <= chain.seq /\ checkpoint.hash = SubSeq(Logged, 1, checkpoint.seq)
    /\ audit # NoAudit =>
         /\ audit.seq <= chain.seq /\ audit.truth = SubSeq(Logged, 1, audit.seq)
         /\ audit.lo <= Reach + 1
         /\ audit.got = {EntryIn(audit.truth, s) : s \in 1..(audit.lo - 1)}
         /\ audit.pc = "walk" => audit.torn
         /\ checkpoint # NoCheckpoint => checkpoint.seq <= audit.seq

AlarmInv == AuditInv /\ FaithfulRead

\* A part of the log stays a part of it when a stamp extends it.
LEMMA PartsStay ==
  ASSUME LogInv, [LogNext]_logvars
  PROVE  chain.seq <= chain'.seq
         /\ \A n \in 0..chain.seq : SubSeq(Logged', 1, n) = SubSeq(Logged, 1, n)
  <1>1. Logged \in Seq(Link) /\ Len(Logged) = chain.seq /\ chain.seq \in Nat
    BY LoggedIsSeq DEF LogInv, ChainOK
  <1>2. LogInv' BY LogStep
  <1>3. Len(Logged') = chain'.seq
    <2>1. chain'.seq \in Nat BY <1>2 DEF LogInv, ChainOK
    <2> QED BY <2>1 DEF Logged
  <1>4. CASE Logged' = Logged BY <1>1, <1>3, <1>4
  <1>5. ASSUME NEW w \in Stampers, AppendLink(w)
        PROVE  chain.seq <= chain'.seq
               /\ \A n \in 0..chain.seq : SubSeq(Logged', 1, n) = SubSeq(Logged, 1, n)
    <2>1. PICK l \in Link : Logged' = Append(Logged, l) BY <1>5, AppendIs
    <2>2. Len(Append(Logged, l)) = Len(Logged) + 1 BY <1>1, <2>1
    <2>3. \A n \in 0..Len(Logged) : SubSeq(Append(Logged, l), 1, n) = SubSeq(Logged, 1, n)
      BY <1>1, <2>1, PrefixOfAppend
    <2> QED BY <1>1, <1>3, <2>1, <2>2, <2>3
  <1> QED BY <1>4, <1>5, LogStep

\* An entry of the log is the entry of any part of it that reaches so far.
LEMMA EntryOfPart ==
  ASSUME NEW q \in Seq(Link), NEW n \in 0..Len(q), NEW s \in 1..n
  PROVE  EntryIn(SubSeq(q, 1, n), s) = EntryIn(q, s)
  <1>1. SubSeq(q, 1, n)[s] = q[s] OBVIOUS
  <1>2. s \in 0..n /\ s - 1 \in 0..n OBVIOUS
  <1>3. SubSeq(SubSeq(q, 1, n), 1, s) = SubSeq(q, 1, s)
        /\ SubSeq(SubSeq(q, 1, n), 1, s - 1) = SubSeq(q, 1, s - 1)
    BY <1>2, PrefixIs
  <1> QED BY <1>1, <1>3 DEF EntryIn

LEMMA FaithfulStep ==
  ASSUME AlarmInv, [AuditNext]_vars
  PROVE  FaithfulRead'
  <1> SUFFICES ASSUME restores' = 0 PROVE FaithfulRead'
    BY DEF FaithfulRead
  <1>1. restores \in Nat /\ LogInv /\ LogInv' /\ AuditInv
    BY LoggedMoves DEF AlarmInv, AuditInv, CheckpointOK
  <1>2. Logged \in Seq(Link) /\ Len(Logged) = chain.seq /\ chain.seq \in Nat
    BY <1>1, LoggedIsSeq DEF LogInv, ChainOK
  <1>3. ASSUME UNCHANGED <<restores>>
        PROVE  /\ checkpoint # NoCheckpoint =>
                    checkpoint.seq <= chain.seq /\ checkpoint.hash = SubSeq(Logged, 1, checkpoint.seq)
               /\ audit # NoAudit =>
                    /\ audit.seq <= chain.seq /\ audit.truth = SubSeq(Logged, 1, audit.seq)
                    /\ audit.lo <= Reach + 1
                    /\ audit.got = {EntryIn(audit.truth, s) : s \in 1..(audit.lo - 1)}
                    /\ audit.pc = "walk" => audit.torn
                    /\ checkpoint # NoCheckpoint => checkpoint.seq <= audit.seq
    BY <1>3 DEF AlarmInv, FaithfulRead
  <1>4. /\ checkpoint # NoCheckpoint => checkpoint.seq \in Nat
        /\ audit # NoAudit => audit \in Reading /\ audit.seq \in Nat /\ audit.lo \in Nat \ {0}
    BY <1>1, LogAssumption DEF AuditInv, AuditOK, CheckpointOK, Reading, Checkpoint
  <1>5. CASE [LogNext]_logvars /\ UNCHANGED <<auditvars, faultvars>>
    <2>1. restores' = restores /\ audit' = audit /\ checkpoint' = checkpoint
      BY <1>5 DEF auditvars, faultvars
    <2>2. chain'.seq \in Nat /\ chain.seq <= chain'.seq
          /\ \A n \in 0..chain.seq : SubSeq(Logged', 1, n) = SubSeq(Logged, 1, n)
      BY <1>1, <1>5, PartsStay DEF LogInv, ChainOK
    <2>3. ASSUME checkpoint # NoCheckpoint
          PROVE  checkpoint.seq <= chain'.seq
                 /\ checkpoint.hash = SubSeq(Logged', 1, checkpoint.seq)
      <3>1. /\ checkpoint.seq \in Nat /\ checkpoint.seq <= chain.seq
            /\ checkpoint.hash = SubSeq(Logged, 1, checkpoint.seq)
        BY <1>3, <1>4, <2>1, <2>3
      <3>2. checkpoint.seq \in 0..chain.seq BY <1>2, <3>1
      <3>3. checkpoint.seq <= chain'.seq BY <1>2, <2>2, <3>1
      <3> QED BY <2>2, <3>1, <3>2, <3>3
    <2>4. ASSUME audit # NoAudit
          PROVE  audit.seq <= chain'.seq /\ audit.truth = SubSeq(Logged', 1, audit.seq)
      <3>1. /\ audit.seq \in Nat /\ audit.seq <= chain.seq
            /\ audit.truth = SubSeq(Logged, 1, audit.seq)
        BY <1>3, <1>4, <2>1, <2>4
      <3>2. audit.seq \in 0..chain.seq BY <1>2, <3>1
      <3>3. audit.seq <= chain'.seq BY <1>2, <2>2, <3>1
      <3> QED BY <2>2, <3>1, <3>2, <3>3
    <2>5. Reach' = Reach BY <2>1 DEF Reach
    <2> QED BY <1>3, <2>1, <2>3, <2>4, <2>5 DEF FaithfulRead
  <1>6. CASE FetchHead
    <2>1. UNCHANGED <<restores>> /\ checkpoint' = checkpoint /\ chain' = chain /\ Logged' = Logged
          /\ audit' = [pc |-> "pages", seq |-> chain.seq, hash |-> chain.hash, lo |-> 1,
                       got |-> {}, torn |-> FALSE, truth |-> Logged]
      BY <1>6 DEF FetchHead, faultvars, logvars, Logged
    <2>2. Logged = SubSeq(Logged, 1, chain.seq) BY <1>2, SubSeqFull
    <2>3. /\ audit'.seq = chain.seq /\ audit'.truth = Logged /\ audit'.lo = 1
          /\ audit'.got = {} /\ audit'.pc = "pages"
      BY <2>1
    <2>4. audit'.got = {EntryIn(audit'.truth, s) : s \in 1..(audit'.lo - 1)} BY <2>3
    <2>5. audit'.seq <= chain'.seq /\ audit'.truth = SubSeq(Logged', 1, audit'.seq)
      BY <1>2, <2>1, <2>2, <2>3
    <2>6. audit'.lo <= Reach' + 1
      <3>1. PICK r \in Nat : r = Reach' BY <1>2, <2>3, AuditAssumption DEF Reach
      <3>2. audit'.lo = 1 BY <2>3
      <3>3. \A n \in Nat : 1 <= n + 1 OBVIOUS
      <3> QED BY <3>1, <3>2, <3>3
    <2> QED BY <1>3, <2>1, <2>3, <2>4, <2>5, <2>6 DEF FaithfulRead
  <1>7. CASE FetchPage
    <2>1. audit # NoAudit /\ audit.lo <= Reach BY <1>7 DEF FetchPage, NoAudit
    <2>2. UNCHANGED <<restores>> /\ checkpoint' = checkpoint /\ chain' = chain /\ Logged' = Logged
      BY <1>7 DEF FetchPage, faultvars, logvars, Logged
    <2>3. PICK hi \in audit.lo..Reach : hi = PageEnd /\ hi \in Nat /\ Reach \in 0..audit.seq
      BY <1>1, <2>1, PageBounds
    <2>4. /\ audit.seq <= chain.seq /\ audit.truth = SubSeq(Logged, 1, audit.seq)
          /\ audit.got = {EntryIn(audit.truth, s) : s \in 1..(audit.lo - 1)}
          /\ audit.seq \in 0..Len(Logged)
      BY <1>2, <1>3, <1>4, <2>1, <2>2
    <2> DEFINE batch == Served(audit.lo, hi)
    <2>5. batch = {EntryIn(Logged, s) : s \in audit.lo..hi}
      <3>1. hi <= chain.seq BY <1>2, <1>4, <2>1, <2>3, <2>4
      <3> QED BY <1>1, <1>4, <2>1, <2>3, <3>1, ServedIs
    <2>6. \A s \in audit.lo..hi : EntryIn(Logged, s) = EntryIn(audit.truth, s)
      <3>1. \A s \in audit.lo..hi : s \in 1..audit.seq BY <1>4, <2>1, <2>3
      <3> QED BY <1>2, <2>4, <3>1, EntryOfPart
    <2>7. batch = {EntryIn(audit.truth, s) : s \in audit.lo..hi} /\ batch # {}
      <3>1. audit.lo \in audit.lo..hi BY <1>4, <2>1, <2>3
      <3> QED BY <2>5, <2>6, <3>1
    <2>8. audit' = [audit EXCEPT !.got = audit.got \cup batch, !.lo = hi + 1]
      BY <1>7, <2>3, <2>7 DEF FetchPage
    <2> HIDE DEF batch
    <2>9. /\ audit'.seq = audit.seq /\ audit'.truth = audit.truth /\ audit'.pc = audit.pc
          /\ audit'.torn = audit.torn /\ audit'.lo = hi + 1 /\ audit'.got = audit.got \cup batch
      BY <1>4, <2>1, <2>8 DEF Reading
    <2>10. audit'.got = {EntryIn(audit'.truth, s) : s \in 1..(audit'.lo - 1)}
      <3>1. 1..(audit'.lo - 1) = (1..(audit.lo - 1)) \cup (audit.lo..hi) BY <1>4, <2>1, <2>3, <2>9
      <3> QED BY <2>4, <2>7, <2>9, <3>1
    <2>11. audit'.lo <= Reach' + 1
      <3>1. Reach' = Reach BY <2>9 DEF Reach
      <3> QED BY <1>4, <2>1, <2>3, <2>9, <3>1
    <2> QED BY <1>3, <2>1, <2>2, <2>9, <2>10, <2>11 DEF FaithfulRead
  <1>8. CASE PageLost
    <2>1. audit # NoAudit /\ audit' = [audit EXCEPT !.pc = "walk", !.torn = TRUE]
          /\ UNCHANGED <<restores>> /\ checkpoint' = checkpoint /\ chain' = chain /\ Logged' = Logged
      BY <1>8 DEF PageLost, NoAudit, faultvars, logvars, Logged
    <2>2. /\ audit'.seq = audit.seq /\ audit'.truth = audit.truth /\ audit'.torn = TRUE
          /\ audit'.lo = audit.lo /\ audit'.got = audit.got
      BY <1>4, <2>1 DEF Reading
    <2>3. Reach' = Reach BY <2>2 DEF Reach
    <2> QED BY <1>3, <2>1, <2>2, <2>3 DEF FaithfulRead
  <1>9. CASE Attest
    <2>1. /\ audit # NoAudit /\ audit' = NoAudit /\ UNCHANGED <<restores>>
          /\ chain' = chain /\ Logged' = Logged
          /\ checkpoint' = IF Ok THEN Advanced ELSE checkpoint
      BY <1>9 DEF Attest, ReadOver, NoAudit, faultvars, logvars, Logged
    <2>2. CASE Ok
      <3>1. Advanced = [seq |-> audit.seq, hash |-> audit.truth] BY <1>1, <2>1, <2>2, TrustedIsTruth
      <3>2. checkpoint'.seq = audit.seq /\ checkpoint'.hash = audit.truth BY <2>1, <2>2, <3>1
      <3> QED BY <1>3, <2>1, <3>2 DEF FaithfulRead
    <2>3. CASE ~Ok BY <1>3, <2>1, <2>3 DEF FaithfulRead
    <2> QED BY <2>2, <2>3
  <1>10. CASE \E k \in 0..MaxAppends : Restore(k) BY <1>1, <1>10 DEF Restore
  <1>11. CASE CheckpointLost
    <2>1. audit' = audit /\ checkpoint' = NoCheckpoint /\ UNCHANGED <<restores>>
          /\ chain' = chain /\ Logged' = Logged
      BY <1>11 DEF CheckpointLost, logvars, Logged
    <2>2. Reach' = Reach BY <2>1 DEF Reach
    <2> QED BY <1>3, <2>1, <2>2 DEF FaithfulRead
  <1>12. CASE AuditorRestarts BY <1>12 DEF AuditorRestarts, FaithfulRead
  <1>13. ([LogNext]_logvars /\ UNCHANGED <<auditvars, faultvars>>)
         \/ FetchHead \/ FetchPage \/ PageLost \/ Attest
         \/ (\E k \in 0..MaxAppends : Restore(k)) \/ CheckpointLost \/ AuditorRestarts
    BY DEF AuditNext, vars
  <1> QED BY <1>5, <1>6, <1>7, <1>8, <1>9, <1>10, <1>11, <1>12, <1>13

LEMMA AlarmStart == AuditInit => AlarmInv
  <1> SUFFICES ASSUME AuditInit PROVE AlarmInv
    OBVIOUS
  <1>1. FaithfulRead BY DEF AuditInit, FaithfulRead
  <1> QED BY <1>1, AuditStart DEF AlarmInv

\* A chain that is one log, read to its end, is intact.
LEMMA WholeReadIsIntact ==
  ASSUME NEW n \in Nat, NEW t \in Seq(Link), Len(t) = n, \A s \in 1..n : t[s].signer = "pinned",
         NEW got, got = {EntryIn(t, s) : s \in 1..n}
  PROVE  /\ ChainIntact(got, n, t)
         /\ \A s \in 1..n : \E e \in At(got, s) : HashOf(e) = SubSeq(t, 1, s)
  <1>1. \A s : EntryIn(t, s).seq = s /\ EntryIn(t, s).link = t[s]
               /\ EntryIn(t, s).prev = SubSeq(t, 1, s - 1) /\ EntryIn(t, s).hash = SubSeq(t, 1, s)
    BY DEF EntryIn
  <1>2. \A s \in 1..n : At(got, s) = {EntryIn(t, s)}
    <2>1. \A s \in 1..n : EntryIn(t, s) \in got OBVIOUS
    <2>2. \A e \in got : e = EntryIn(t, e.seq) BY <1>1
    <2> SUFFICES ASSUME NEW s \in 1..n PROVE At(got, s) = {EntryIn(t, s)}
      OBVIOUS
    <2>3. EntryIn(t, s) \in At(got, s) BY <1>1, <2>1 DEF At
    <2>4. \A e \in At(got, s) : e = EntryIn(t, s) BY <2>2 DEF At
    <2> QED BY <2>3, <2>4
  <1>3. \A s \in 1..n : Fetched(got, s) = EntryIn(t, s) BY <1>2 DEF Fetched
  <1>4. \A s \in 1..n : HashOf(EntryIn(t, s)) = SubSeq(t, 1, s)
    <2> SUFFICES ASSUME NEW s \in 1..n PROVE HashOf(EntryIn(t, s)) = SubSeq(t, 1, s)
      OBVIOUS
    <2>1. s \in 0..Len(t) /\ s # 0 OBVIOUS
    <2>2. Append(SubSeq(t, 1, s - 1), t[s]) = SubSeq(t, 1, s) BY <2>1, PrefixIs
    <2> QED BY <1>1, <2>2 DEF HashOf
  <1>5. \A e \in got : e.seq \in 1..n BY <1>1
  <1>6. \A s \in 1..(n + 1) : HashBelow(got, s) = SubSeq(t, 1, s - 1)
    <2> SUFFICES ASSUME NEW s \in 1..(n + 1) PROVE HashBelow(got, s) = SubSeq(t, 1, s - 1)
      OBVIOUS
    <2>1. PICK r \in 0..n : r + 1 = s /\ r = s - 1
      <3>1. s - 1 \in 0..n /\ (s - 1) + 1 = s OBVIOUS
      <3> QED BY <3>1
    <2>2. r \in Nat /\ \A u \in 1..r : At(got, u) # {}
      <3>1. r \in Nat /\ \A u \in 1..r : u \in 1..n OBVIOUS
      <3>2. \A u \in 1..n : At(got, u) # {} BY <1>2, Zenon
      <3> QED BY <3>1, <3>2
    <2>3. CASE r = 0
      <3>1. HashBelow(got, r + 1) = <<>> BY <2>2, <2>3, HashBelowIs
      <3>2. SubSeq(t, 1, 0) = <<>> OBVIOUS
      <3> QED BY <2>1, <2>3, <3>1, <3>2
    <2>4. CASE r # 0
      <3>1. HashBelow(got, r + 1) = HashOf(Fetched(got, r)) BY <2>2, <2>4, HashBelowIs
      <3>2. r \in 1..n BY <2>4
      <3> QED BY <1>3, <1>4, <2>1, <3>1, <3>2
    <2> QED BY <2>3, <2>4
  <1>7. Gaps(got, n) = {} BY <1>2 DEF Gaps
  <1>8. Orphans(got, n) = {} BY <1>5 DEF Orphans
  <1>9. Broken(got, n) = {}
    <2>1. \A s \in 1..n : s \in 1..(n + 1) OBVIOUS
    <2>2. ASSUME NEW s \in 1..n PROVE HashOf(Fetched(got, s)) = Fetched(got, s).hash
      <3>1. Fetched(got, s) = EntryIn(t, s) /\ HashOf(EntryIn(t, s)) = SubSeq(t, 1, s)
        BY <1>3, <1>4
      <3> QED BY <1>1, <3>1
    <2>3. \A s \in 1..n : Fetched(got, s).prev = HashBelow(got, s)
      BY <1>1, <1>3, <1>6, <2>1
    <2> QED BY <2>2, <2>3 DEF Broken, Present
  <1>10. SignatureFailures(got, n) = {}
    <2>1. ASSUME NEW s \in 1..n PROVE Fetched(got, s).link.signer = "pinned"
      <3>1. Fetched(got, s) = EntryIn(t, s) BY <1>3
      <3>2. EntryIn(t, s).link = t[s] BY <1>1
      <3> QED BY <3>1, <3>2
    <2> QED BY <2>1 DEF SignatureFailures, Present
  <1>11. HeadFits(got, n, t)
    <2>1. CASE n = 0 BY <1>5, <2>1 DEF HeadFits
    <2>2. CASE n # 0
      <3>1. HashBelow(got, n + 1) = SubSeq(t, 1, n) BY <1>6
      <3>2. SubSeq(t, 1, n) = t BY SubSeqFull
      <3> QED BY <1>7, <2>2, <3>1, <3>2 DEF HeadFits
    <2> QED BY <2>1, <2>2
  <1>12. \A s \in 1..n : \E e \in At(got, s) : HashOf(e) = SubSeq(t, 1, s) BY <1>2, <1>4
  <1> QED BY <1>7, <1>8, <1>9, <1>10, <1>11, <1>12 DEF ChainIntact

\* Until the store is first restored, what an audit has read is part of the log as it is:
\* page after page, each from the log of its moment, the entries are those of the head
\* that was read first, and nothing is missing unless a page was lost or the log is
\* longer than max_entries; and what the auditor trusts is an earlier part of it.
THEOREM ReadsAreFaithful == AuditSpec => []FaithfulRead
  <1>1. AlarmInv /\ [AuditNext]_vars => AlarmInv' BY AuditStep, FaithfulStep DEF AlarmInv
  <1>2. AlarmInv => FaithfulRead BY DEF AlarmInv
  <1> QED BY <1>1, <1>2, AlarmStart, PTL DEF AuditSpec

\* No false alarm: what was read of a log that only grew is judged good.
LEMMA FaithfulIsOk ==
  ASSUME AlarmInv, ReadOver, ~audit.torn, restores = 0, ~reset, ~TooLong, ~OtherKey
  PROVE  Ok
  <1>1. audit # NoAudit BY DEF ReadOver, NoAudit
  <1>2. AuditInv /\ LogInv BY DEF AlarmInv, AuditInv
  <1>3. /\ audit \in Reading /\ audit.hash = audit.truth /\ Len(audit.truth) = audit.seq
        /\ audit.truth \in Seq(Link) /\ audit.seq \in Nat /\ audit.lo \in Nat
    BY <1>1, <1>2, LogAssumption DEF AuditInv, AuditOK, Reading
  <1>4. /\ checkpoint # NoCheckpoint =>
             checkpoint.seq <= chain.seq /\ checkpoint.hash = SubSeq(Logged, 1, checkpoint.seq)
        /\ audit.seq <= chain.seq /\ audit.truth = SubSeq(Logged, 1, audit.seq)
        /\ audit.lo <= Reach + 1
        /\ audit.got = {EntryIn(audit.truth, s) : s \in 1..(audit.lo - 1)}
        /\ audit.pc = "walk" => audit.torn
        /\ checkpoint # NoCheckpoint => checkpoint.seq <= audit.seq
    BY <1>1 DEF AlarmInv, FaithfulRead
  <1>5. Reach = audit.seq BY DEF TooLong, Reach
  <1>6. audit.lo - 1 = audit.seq
    <2>1. audit.lo > audit.seq BY <1>4, <1>5 DEF ReadOver
    <2> QED BY <1>3, <1>4, <1>5, <2>1
  <1>7. Logged \in Seq(Link) /\ Len(Logged) = chain.seq /\ chain.seq \in Nat
    BY <1>2, LoggedIsSeq DEF LogInv, ChainOK
  <1>8. audit.seq \in 0..Len(Logged) BY <1>3, <1>4, <1>7
  <1>9. \A s \in 1..audit.seq : audit.truth[s].signer = "pinned"
    <2>1. \A s \in 1..audit.seq : s \in 1..chain.seq /\ Logged[s].signer # "none"
      BY <1>2, <1>3, <1>4, <1>7, EntryIs
    <2>2. SubSeq(Logged, 1, audit.seq) = [j \in 1..audit.seq |-> Logged[j]] BY <1>7, <1>8, PrefixIs
    <2>3. \A s \in 1..audit.seq : audit.truth[s] \in Link /\ audit.truth[s].signer # "other"
      BY <1>3 DEF OtherKey
    <2>4. \A l \in Link : l.signer \in Signer BY DEF Link
    <2> SUFFICES ASSUME NEW s \in 1..audit.seq PROVE audit.truth[s].signer = "pinned"
      OBVIOUS
    <2>5. audit.truth[s] = Logged[s] BY <1>4, <2>2
    <2>6. audit.truth[s].signer # "none" BY <2>1, <2>5
    <2>7. audit.truth[s].signer \in Signer BY <2>3, <2>4
    <2> QED BY <2>3, <2>6, <2>7 DEF Signer
  <1>10. /\ ChainIntact(audit.got, audit.seq, audit.truth)
         /\ \A s \in 1..audit.seq :
              \E e \in At(audit.got, s) : HashOf(e) = SubSeq(audit.truth, 1, s)
    <2>1. audit.got = {EntryIn(audit.truth, s) : s \in 1..audit.seq} BY <1>4, <1>6
    <2>2. audit.seq \in Nat /\ audit.truth \in Seq(Link) /\ Len(audit.truth) = audit.seq
      BY <1>3
    <2> HIDE <1>3
    <2> QED BY <1>9, <2>1, <2>2, WholeReadIsIntact
  <1>11. Contained(checkpoint, audit.got, audit.seq)
    <2>1. CASE checkpoint = NoCheckpoint BY <2>1 DEF Contained
    <2>2. CASE checkpoint # NoCheckpoint
      <3>1. checkpoint.seq \in Nat /\ checkpoint.seq <= audit.seq
        BY <1>2, <1>4, <2>2, LogAssumption DEF AuditInv, CheckpointOK, Checkpoint
      <3>2. CASE checkpoint.seq = 0 BY <3>1, <3>2 DEF Contained
      <3>3. CASE checkpoint.seq # 0
        <4>1. checkpoint.seq \in 1..audit.seq /\ checkpoint.seq \in 0..audit.seq
          BY <1>3, <3>1, <3>3
        <4>2. SubSeq(audit.truth, 1, checkpoint.seq) = SubSeq(Logged, 1, checkpoint.seq)
          BY <1>4, <1>7, <1>8, <4>1, PrefixIs
        <4>3. \E e \in At(audit.got, checkpoint.seq) : HashOf(e) = checkpoint.hash
          BY <1>4, <1>10, <2>2, <4>1, <4>2
        <4> QED BY <3>1, <4>3 DEF Contained
      <3> QED BY <3>2, <3>3
    <2> QED BY <2>1, <2>2
  <1>12. AntiReset(checkpoint, known) BY <1>2 DEF AuditInv, CheckpointOK, AntiReset
  <1> QED BY <1>3, <1>10, <1>11, <1>12 DEF Ok

\* An alarm is raised only after a restore, the loss of a page on the way or the loss
\* of the checkpoint, or on a log that is longer than max_entries or holds a proof of
\* another key version.
THEOREM AlarmsAreFounded == AuditSpec => []AlarmOnlyBy
  <1>1. AlarmInv /\ [AuditNext]_vars => AlarmInv' BY AuditStep, FaithfulStep DEF AlarmInv
  <1>2. AlarmInv => AlarmOnlyBy
    <2> SUFFICES ASSUME AlarmInv, ReadOver, ~Ok
                 PROVE  audit.torn \/ restores > 0 \/ reset \/ TooLong \/ OtherKey
      BY DEF AlarmOnlyBy
    <2>1. restores \in Nat BY DEF AlarmInv, AuditInv, CheckpointOK
    <2> QED BY <2>1, FaithfulIsOk
  <1> QED BY <1>1, <1>2, AlarmStart, PTL DEF AuditSpec

=================================================================================
