------------------------- MODULE TransparencyLogProofs -------------------------
(***************************************************************************)
(* Proofs about TransparencyLog, for any number of incidents and stamping  *)
(* threads, any cap of the remembered keys and any number of appends: the  *)
(* documents are a whole chain, and they implement AppendOnlyLog.          *)
(***************************************************************************)
EXTENDS TransparencyLog, TLAPS, SequenceTheorems

--------------------------------------------------------------------------------
(* The invariant. *)

Stamp == [pc : {"status", "read", "save", "append"}, inc : Incidents, status : Status,
          signer : Signer]

StampsOK ==
  /\ record \in [Incidents -> Status]
  /\ stamp \in [Stampers -> {Idle} \cup Stamp]
  /\ \A w \in Stampers : stamp[w].pc = "append" => stamp[w].signer # "none"

\* The entry at s says what ChainWhole wants of it.
EntryOK(s) ==
  /\ docs[s] \in Entry /\ docs[s].seq = s
  /\ docs[s].hash = SubSeq(Logged, 1, s)
  /\ docs[s].prev = SubSeq(Logged, 1, s - 1)
  /\ docs[s].link \in Link /\ docs[s].link.signer # "none"

ChainOK ==
  /\ clock \in 0..MaxAppends
  /\ chain.seq \in 0..clock /\ chain.hash = Logged
  /\ docs = [s \in 1..MaxAppends |-> docs[s]]
  /\ \A s \in 1..MaxAppends : IF s > chain.seq THEN docs[s] = NoEntry ELSE EntryOK(s)

\* The head remembers the keys of the last RecentCap links, in their order.
KeyAt(s) == Key(docs[s].link.inc, docs[s].link.status)
Forgotten == IF chain.seq <= RecentCap THEN 0 ELSE chain.seq - RecentCap
Remembers == chain.recent = [j \in 1..(chain.seq - Forgotten) |-> KeyAt(Forgotten + j)]

LogInv == StampsOK /\ ChainOK /\ Remembers

--------------------------------------------------------------------------------
(* Stamping. *)

LEMMA StampKinds ==
  ASSUME StampsOK, NEW w \in Stampers, stamp[w] # Idle \/ stamp[w].pc # "idle"
  PROVE  stamp[w] \in Stamp
  BY DEF StampsOK, Idle

\* A step of a stamp that does not append leaves the chain as it is.
LEMMA StampMoves ==
  ASSUME LogInv, UNCHANGED <<chain, docs, clock>>, StampsOK'
  PROVE  LogInv' /\ Logged' = Logged
  <1>1. Logged' = Logged BY DEF Logged
  <1>2. ChainOK' BY <1>1 DEF LogInv, ChainOK, EntryOK
  <1>3. Remembers' BY DEF LogInv, Remembers, Forgotten, KeyAt
  <1> QED BY <1>1, <1>2, <1>3 DEF LogInv

LEMMA OneStampMoves ==
  ASSUME StampsOK, NEW w \in Stampers, NEW l \in {Idle} \cup Stamp, stamp' = [stamp EXCEPT ![w] = l],
         record' \in [Incidents -> Status], l.pc = "append" => l.signer # "none"
  PROVE  StampsOK'
  BY DEF StampsOK

LEMMA StartKeeps ==
  ASSUME LogInv, NEW w \in Stampers, NEW i \in Incidents, NEW s \in Terminal, Start(w, i, s)
  PROVE  LogInv' /\ Logged' = Logged
  <1> DEFINE l == [pc |-> "status", inc |-> i, status |-> s, signer |-> "none"]
  <1>1. stamp' = [stamp EXCEPT ![w] = l] /\ UNCHANGED <<record, chain, docs, clock>> BY DEF Start
  <1>2. l \in Stamp /\ l.pc = "status" BY DEF Stamp, Status, Signer
  <1> HIDE DEF l
  <1>3. StampsOK' BY <1>1, <1>2, OneStampMoves DEF LogInv, StampsOK
  <1> QED BY <1>1, <1>3, StampMoves

LEMMA SaveStatusKeeps ==
  ASSUME LogInv, NEW w \in Stampers, SaveStatus(w)
  PROVE  LogInv' /\ Logged' = Logged
  <1> DEFINE l == [stamp[w] EXCEPT !.pc = "read"]
  <1>1. /\ stamp[w].pc = "status" /\ stamp' = [stamp EXCEPT ![w] = l]
        /\ record' = [record EXCEPT ![stamp[w].inc] = stamp[w].status]
        /\ UNCHANGED <<chain, docs, clock>>
    BY DEF SaveStatus
  <1>2. stamp[w] \in Stamp BY <1>1, StampKinds DEF LogInv
  <1>3. l \in Stamp /\ l.pc = "read" BY <1>2 DEF Stamp
  <1> HIDE DEF l
  <1>4. record' \in [Incidents -> Status] BY <1>1, <1>2 DEF Stamp, LogInv, StampsOK
  <1>5. StampsOK' BY <1>1, <1>3, <1>4, OneStampMoves DEF LogInv
  <1> QED BY <1>1, <1>5, StampMoves

LEMMA ReadAndSignKeeps ==
  ASSUME LogInv, NEW w \in Stampers, NEW signer \in Signer, ReadAndSign(w, signer)
  PROVE  LogInv' /\ Logged' = Logged
  <1> DEFINE l == [stamp[w] EXCEPT !.pc = "save", !.status = record[stamp[w].inc], !.signer = signer]
  <1>1. stamp[w].pc = "read" /\ UNCHANGED <<record, chain, docs, clock>> BY DEF ReadAndSign
  <1>2. stamp[w] \in Stamp BY <1>1, StampKinds DEF LogInv
  <1>3. record[stamp[w].inc] \in Status BY <1>2 DEF Stamp, LogInv, StampsOK
  <1>4. "save" \in {"status", "read", "save", "append"} OBVIOUS
  <1>5. l \in Stamp /\ l.pc = "save" BY <1>2, <1>3, <1>4 DEF Stamp
  <1>6. stamp' = [stamp EXCEPT ![w] = l] BY DEF ReadAndSign, LogInv, StampsOK
  <1> HIDE DEF l
  <1>7. StampsOK' BY <1>1, <1>5, <1>6, OneStampMoves DEF LogInv, StampsOK
  <1> QED BY <1>1, <1>7, StampMoves

LEMMA SaveProofKeeps ==
  ASSUME LogInv, NEW w \in Stampers, SaveProof(w)
  PROVE  LogInv' /\ Logged' = Logged
  <1> DEFINE l == AfterSave(stamp[w])
  <1>1. stamp[w].pc = "save" /\ stamp' = [stamp EXCEPT ![w] = l]
        /\ UNCHANGED <<record, chain, docs, clock>>
    BY DEF SaveProof
  <1>2. stamp[w] \in Stamp BY <1>1, StampKinds DEF LogInv
  <1>3. l \in {Idle} \cup Stamp /\ (l.pc = "append" => l.signer # "none")
    BY <1>2 DEF AfterSave, Stamp, Idle
  <1> HIDE DEF l
  <1>4. StampsOK' BY <1>1, <1>3, OneStampMoves DEF LogInv, StampsOK
  <1> QED BY <1>1, <1>4, StampMoves

LEMMA StampEnds ==
  ASSUME LogInv, NEW w \in Stampers, AppendNothing(w) \/ StampFails(w)
  PROVE  LogInv' /\ Logged' = Logged
  <1>1. stamp' = [stamp EXCEPT ![w] = Idle] /\ UNCHANGED <<record, chain, docs, clock>>
    BY DEF AppendNothing, StampFails
  <1>2. StampsOK' BY <1>1, OneStampMoves DEF LogInv, StampsOK, Idle
  <1> QED BY <1>1, <1>2, StampMoves

--------------------------------------------------------------------------------
(* Sequences. *)

LEMMA FunctionIsSeq ==
  ASSUME NEW S, NEW n \in Nat, NEW f \in [1..n -> S]
  PROVE  f \in Seq(S) /\ Len(f) = n /\ DOMAIN f = 1..n
  OBVIOUS

LEMMA PrefixOfAppend ==
  ASSUME NEW S, NEW q \in Seq(S), NEW e \in S, NEW k \in 0..Len(q)
  PROVE  SubSeq(Append(q, e), 1, k) = SubSeq(q, 1, k)
  OBVIOUS

LEMMA LoggedIsSeq ==
  ASSUME ChainOK
  PROVE  /\ Logged \in Seq(Link) /\ Len(Logged) = chain.seq
         /\ \A s \in 1..chain.seq : Logged[s] = docs[s].link
  <1>1. chain.seq \in Nat /\ chain.seq <= MaxAppends BY LogAssumption DEF ChainOK
  <1>2. \A s \in 1..chain.seq : docs[s].link \in Link BY <1>1, LogAssumption DEF ChainOK, EntryOK
  <1>3. Logged = [s \in 1..chain.seq |-> docs[s].link] BY <1>1 DEF Logged
  <1>4. Logged \in [1..chain.seq -> Link] BY <1>2, <1>3
  <1> QED BY <1>1, <1>3, <1>4, FunctionIsSeq

--------------------------------------------------------------------------------
(* Appending. *)

LEMMA RecentIsSeq ==
  ASSUME LogInv
  PROVE  /\ Forgotten \in Nat /\ chain.seq - Forgotten \in Nat /\ chain.seq - Forgotten <= RecentCap
         /\ chain.recent \in Seq(Incidents \X Status) /\ Len(chain.recent) = chain.seq - Forgotten
         /\ \A j \in 1..(chain.seq - Forgotten) : chain.recent[j] = KeyAt(Forgotten + j)
  <1>1. chain.seq \in Nat /\ chain.seq <= MaxAppends /\ MaxAppends \in Nat /\ RecentCap \in Nat \ {0}
    BY LogAssumption DEF LogInv, ChainOK
  <1>2. Forgotten \in Nat /\ chain.seq - Forgotten \in Nat /\ chain.seq - Forgotten <= RecentCap
        /\ Forgotten <= chain.seq
    BY <1>1 DEF Forgotten
  <1>3. \A s \in 1..chain.seq : KeyAt(s) \in Incidents \X Status
    BY <1>1 DEF LogInv, ChainOK, EntryOK, Link, KeyAt, Key
  <1>4. \A j \in 1..(chain.seq - Forgotten) : Forgotten + j \in 1..chain.seq BY <1>1, <1>2
  <1>5. chain.recent \in [1..(chain.seq - Forgotten) -> Incidents \X Status]
    BY <1>3, <1>4 DEF LogInv, Remembers
  <1> QED BY <1>2, <1>5, FunctionIsSeq DEF LogInv, Remembers

LEMMA LastOfIs ==
  ASSUME NEW S, NEW q \in Seq(S), NEW n \in Nat, NEW k \in Nat,
         k = IF Len(q) <= n THEN 0 ELSE Len(q) - n
  PROVE  LastOf(q, n) = [j \in 1..(Len(q) - k) |-> q[k + j]]
  BY DEF LastOf

\* What an append does, without the machinery.
LEMMA AppendIs ==
  ASSUME LogInv, NEW w \in Stampers, AppendLink(w)
  PROVE  LET l == NewLink(w)
         IN /\ l \in Link /\ l.signer # "none" /\ clock' = clock + 1 /\ chain.seq + 1 \in 1..MaxAppends
            /\ ~Seen(chain, Key(l.inc, l.status))
            /\ chain' = HeadAfter(chain, l)
            /\ docs' = [docs EXCEPT ![chain.seq + 1] = EntryAfter(chain, l)]
            /\ Logged' = Append(Logged, l)
            /\ StampsOK'
  <1> DEFINE l == NewLink(w)
  <1>1. stamp[w].pc = "append" /\ clock < MaxAppends BY DEF AppendLink
  <1>2. stamp[w] \in Stamp /\ stamp[w].signer # "none" BY <1>1, StampKinds DEF LogInv, StampsOK
  <1>3. /\ clock \in Nat /\ MaxAppends \in Nat /\ clock + 1 \in 1..MaxAppends
        /\ chain.seq \in Nat /\ chain.seq + 1 \in 1..MaxAppends
    BY <1>1, LogAssumption DEF LogInv, ChainOK
  <1>4. l \in Link /\ l.signer # "none" /\ l.inc = stamp[w].inc /\ l.status = stamp[w].status
    BY <1>2, <1>3 DEF NewLink, Stamp, Link
  <1> HIDE DEF l
  <1>5. /\ clock' = clock + 1 /\ chain' = HeadAfter(chain, l)
        /\ docs' = [docs EXCEPT ![chain.seq + 1] = EntryAfter(chain, l)]
        /\ stamp' = [stamp EXCEPT ![w] = Idle] /\ record' = record
        /\ ~Seen(chain, Key(l.inc, l.status))
    BY <1>3, <1>4 DEF AppendLink, l
  <1>6. StampsOK' BY <1>5, OneStampMoves DEF LogInv, StampsOK, Idle
  <1>7. Logged' = Append(Logged, l)
    <2>1. /\ Logged \in Seq(Link) /\ Len(Logged) = chain.seq
          /\ \A s \in 1..chain.seq : Logged[s] = docs[s].link
      BY LoggedIsSeq DEF LogInv
    <2>2. chain'.seq = chain.seq + 1 BY <1>3, <1>5 DEF HeadAfter
    <2>3. Logged' = [s \in 1..(chain.seq + 1) |-> docs'[s].link] BY <2>2 DEF Logged
    <2>4. docs'[chain.seq + 1].link = l
      BY <1>3, <1>5 DEF LogInv, ChainOK, EntryAfter
    <2>5. \A s \in 1..chain.seq : docs'[s] = docs[s] BY <1>3, <1>5 DEF LogInv, ChainOK
    <2>6. \A s \in 1..(chain.seq + 1) : docs'[s].link = Append(Logged, l)[s]
      BY <1>3, <1>4, <2>1, <2>4, <2>5, AppendProperties
    <2>7. Append(Logged, l) \in Seq(Link) /\ Len(Append(Logged, l)) = chain.seq + 1
      BY <1>4, <2>1, AppendProperties
    <2>8. Append(Logged, l) = [s \in 1..(chain.seq + 1) |-> Append(Logged, l)[s]]
      BY <2>7, LenProperties
    <2> QED BY <2>3, <2>6, <2>8
  <1> QED BY <1>3, <1>4, <1>5, <1>6, <1>7 DEF l

LEMMA AppendKeepsChain ==
  ASSUME LogInv, NEW w \in Stampers, AppendLink(w)
  PROVE  ChainOK'
  <1>0. PICK n : n = chain.seq + 1 OBVIOUS
  <1>1. PICK l : /\ l \in Link /\ l.signer # "none" /\ clock' = clock + 1 /\ n \in 1..MaxAppends
                 /\ chain' = HeadAfter(chain, l)
                 /\ docs' = [docs EXCEPT ![n] = EntryAfter(chain, l)]
                 /\ Logged' = Append(Logged, l)
    BY <1>0, AppendIs
  <1>2. /\ clock \in Nat /\ chain.seq \in 0..clock /\ clock + 1 \in 0..MaxAppends
        /\ MaxAppends \in Nat /\ chain.hash = Logged
        /\ docs = [s \in 1..MaxAppends |-> docs[s]]
        /\ \A s \in 1..MaxAppends : IF s > chain.seq THEN docs[s] = NoEntry ELSE EntryOK(s)
    BY LogAssumption DEF LogInv, ChainOK, AppendLink
  <1>3. Logged \in Seq(Link) /\ Len(Logged) = chain.seq BY LoggedIsSeq DEF LogInv
  <1>4. chain'.seq = n /\ chain'.hash = Logged' BY <1>0, <1>1, <1>2 DEF HeadAfter
  <1>5. docs'[n] = EntryAfter(chain, l) /\ \A t \in 1..MaxAppends \ {n} : docs'[t] = docs[t]
        /\ docs' = [s \in 1..MaxAppends |-> docs'[s]]
    BY <1>1, <1>2
  <1>6. EntryOK(n)'
    <2>1. /\ docs'[n].seq = n /\ docs'[n].hash = Append(Logged, l) /\ docs'[n].prev = Logged
          /\ docs'[n].link = l
      BY <1>0, <1>2, <1>5 DEF EntryAfter
    <2>2. Append(Logged, l) \in Seq(Link) /\ Len(Append(Logged, l)) = n
      BY <1>0, <1>1, <1>3, AppendProperties
    <2>3. SubSeq(Append(Logged, l), 1, n) = Append(Logged, l) BY <2>2, SubSeqFull
    <2>4. SubSeq(Append(Logged, l), 1, n - 1) = Logged
      <3>1. n - 1 = Len(Logged) /\ n - 1 \in 0..Len(Logged) BY <1>0, <1>2, <1>3
      <3>2. SubSeq(Append(Logged, l), 1, n - 1) = SubSeq(Logged, 1, n - 1)
        BY <1>1, <1>3, <3>1, PrefixOfAppend
      <3> QED BY <1>3, <3>1, <3>2, SubSeqFull
    <2>5. EntryAfter(chain, l) \in Entry
      <3>1. chain.seq + 1 \in 1..MaxAppends BY <1>0, <1>1
      <3>2. chain.hash \in Seq(Link) /\ Append(chain.hash, l) \in Seq(Link)
        BY <1>2, <1>3, <2>2
      <3> QED BY <1>1, <3>1, <3>2 DEF EntryAfter, Entry
    <2> QED BY <1>1, <1>5, <2>1, <2>3, <2>4, <2>5 DEF EntryOK
  <1>7. ASSUME NEW s \in 1..chain.seq PROVE EntryOK(s)'
    <2>1. EntryOK(s) /\ docs'[s] = docs[s] BY <1>0, <1>1, <1>2, <1>5
    <2>2. SubSeq(Logged', 1, s) = SubSeq(Logged, 1, s)
          /\ SubSeq(Logged', 1, s - 1) = SubSeq(Logged, 1, s - 1)
      <3>1. s \in 0..Len(Logged) /\ s - 1 \in 0..Len(Logged) BY <1>2, <1>3
      <3> QED BY <1>1, <1>3, <3>1, PrefixOfAppend
    <2> QED BY <2>1, <2>2 DEF EntryOK
  <1>8. ASSUME NEW s \in 1..MaxAppends, s > n PROVE docs'[s] = NoEntry
    <2>1. s > chain.seq /\ s # n BY <1>0, <1>2, <1>8
    <2>2. docs[s] = NoEntry BY <1>2, <2>1
    <2> QED BY <1>5, <2>1, <2>2
  <1>9. (\A s \in 1..MaxAppends : IF s > chain.seq THEN docs[s] = NoEntry ELSE EntryOK(s))'
    <2>1. SUFFICES ASSUME NEW s \in 1..MaxAppends
                   PROVE  (IF s > chain.seq THEN docs[s] = NoEntry ELSE EntryOK(s))'
      OBVIOUS
    <2>2. chain'.seq = n /\ n = chain.seq + 1 /\ chain.seq \in Nat BY <1>0, <1>2, <1>4
    <2>3. CASE s > n BY <1>8, <2>2, <2>3
    <2>4. CASE s = n BY <1>6, <2>2, <2>4
    <2>5. CASE s < n
      <3>1. s \in 1..chain.seq BY <2>2, <2>5
      <3>2. ~(s > chain'.seq) BY <2>2, <2>5
      <3> QED BY <1>7, <3>1, <3>2
    <2> QED BY <2>2, <2>3, <2>4, <2>5
  <1>10. clock' \in 0..MaxAppends BY <1>0, <1>1, <1>2
  <1>11. chain'.seq \in 0..clock' BY <1>0, <1>1, <1>2, <1>4
  <1>12. (docs = [s \in 1..MaxAppends |-> docs[s]])' BY <1>1, <1>2
  <1>13. (chain.seq \in 0..clock /\ chain.hash = Logged)' BY <1>4, <1>11
  <1> QED BY <1>9, <1>10, <1>12, <1>13 DEF ChainOK

\* Appending shifts the window of remembered keys by one once it is full.
LEMMA AppendKeepsRemembers ==
  ASSUME LogInv, NEW w \in Stampers, AppendLink(w)
  PROVE  Remembers'
  <1>0. PICK n : n = chain.seq + 1 OBVIOUS
  <1>1. PICK l : /\ l \in Link /\ chain'.seq = n /\ n \in 1..MaxAppends
                 /\ chain' = HeadAfter(chain, l)
                 /\ docs' = [docs EXCEPT ![n] = EntryAfter(chain, l)]
    BY <1>0, AppendIs DEF HeadAfter
  <1>2. /\ chain.seq \in Nat /\ MaxAppends \in Nat /\ RecentCap \in Nat \ {0}
        /\ docs = [s \in 1..MaxAppends |-> docs[s]]
    BY LogAssumption DEF LogInv, ChainOK
  <1>3. PICK f \in Nat : /\ f = Forgotten /\ chain.seq - f \in Nat /\ chain.seq - f <= RecentCap
                         /\ chain.recent \in Seq(Incidents \X Status)
                         /\ Len(chain.recent) = chain.seq - f
                         /\ \A j \in 1..(chain.seq - f) : chain.recent[j] = KeyAt(f + j)
    BY RecentIsSeq
  <1>4. PICK q : q = Append(chain.recent, Key(l.inc, l.status)) OBVIOUS
  <1>5. /\ q \in Seq(Incidents \X Status) /\ Len(q) = n - f
        /\ \A j \in 1..(chain.seq - f) : q[j] = KeyAt(f + j)
        /\ q[n - f] = Key(l.inc, l.status)
    <2>1. Key(l.inc, l.status) \in Incidents \X Status BY <1>1 DEF Link, Key
    <2> QED BY <1>0, <1>2, <1>3, <1>4, <2>1, AppendProperties
  <1>6. docs'[n].link = l /\ \A s \in 1..chain.seq : docs'[s] = docs[s]
    BY <1>0, <1>1, <1>2 DEF EntryAfter
  <1>7. ASSUME NEW s \in 1..n, s > f PROVE q[s - f] = KeyAt(s)'
    <2>1. CASE s = n BY <1>5, <1>6, <2>1 DEF KeyAt
    <2>2. CASE s # n
      <3>1. s \in 1..chain.seq /\ s - f \in 1..(chain.seq - f) /\ f + (s - f) = s
        <4>1. n \in Nat /\ f \in Nat /\ n = chain.seq + 1 /\ chain.seq \in Nat
          BY <1>0, <1>2, <1>3
        <4>2. s \in Nat /\ 1 <= s /\ s < n /\ f < s BY <1>7, <2>2, <4>1
        <4> HIDE <1>0
        <4> QED BY <4>1, <4>2
      <3>2. KeyAt(s)' = KeyAt(s) BY <1>6, <3>1 DEF KeyAt
      <3> QED BY <1>5, <3>1, <3>2
    <2> QED BY <2>1, <2>2
  <1>8. PICK k \in Nat : k = IF Len(q) <= RecentCap THEN 0 ELSE Len(q) - RecentCap
    <2>1. Len(q) \in Nat /\ RecentCap \in Nat BY <1>0, <1>2, <1>3, <1>5
    <2>2. CASE Len(q) <= RecentCap BY <2>1, <2>2
    <2>3. CASE ~(Len(q) <= RecentCap) BY <2>1, <2>3
    <2> QED BY <2>2, <2>3
  <1>9. chain'.recent = [j \in 1..(Len(q) - k) |-> q[k + j]]
    <2>1. chain'.recent = LastOf(q, RecentCap) BY <1>1, <1>4 DEF HeadAfter
    <2> QED BY <1>2, <1>5, <1>8, <2>1, LastOfIs
  <1>10. PICK g \in Nat : g = f + k BY <1>3, <1>8
  <1>11. Forgotten' = g /\ Len(q) - k = n - g
    <2>1. f = IF chain.seq <= RecentCap THEN 0 ELSE chain.seq - RecentCap BY <1>3 DEF Forgotten
    <2>2. Forgotten' = IF n <= RecentCap THEN 0 ELSE n - RecentCap BY <1>1 DEF Forgotten
    <2>3. k = IF n - f <= RecentCap THEN 0 ELSE n - f - RecentCap BY <1>5, <1>8
    <2>4. RecentCap \in Nat /\ n \in Nat /\ RecentCap # 0 BY <1>0, <1>2
    <2>5. CASE chain.seq < RecentCap BY <1>0, <1>2, <1>5, <1>10, <2>1, <2>2, <2>3, <2>4, <2>5
    <2>6. CASE ~(chain.seq < RecentCap)
      <3>1. f = chain.seq - RecentCap BY <1>2, <2>1, <2>4, <2>6
      <3>2. n - f = RecentCap + 1 /\ k = 1 BY <1>0, <1>2, <2>3, <2>4, <3>1
      <3>3. Forgotten' = n - RecentCap BY <1>0, <1>2, <2>2, <2>4, <2>6
      <3>4. g = n - RecentCap BY <1>0, <1>2, <1>10, <2>4, <3>1, <3>2
      <3>5. Len(q) - k = n - f - k BY <1>5
      <3>6. f + k = g /\ f \in Nat /\ k \in Nat /\ g \in Nat BY <1>3, <1>8, <1>10
      <3>7. n - f - k = n - g BY <2>4, <3>6
      <3> QED BY <3>3, <3>4, <3>5, <3>7
    <2> QED BY <2>5, <2>6
  <1>12. \A j \in 1..(n - g) : q[k + j] = KeyAt(g + j)'
    <2>1. n \in Nat /\ f \in Nat /\ k \in Nat /\ g = f + k BY <1>0, <1>2, <1>3, <1>8, <1>10
    <2>2. SUFFICES ASSUME NEW j \in 1..(n - g) PROVE q[k + j] = KeyAt(g + j)' OBVIOUS
    <2>3. g + j \in 1..n /\ g + j > f /\ (g + j) - f = k + j BY <2>1
    <2>4. PICK s \in 1..n : s = g + j BY <2>3
    <2> QED BY <1>7, <2>3, <2>4
  <1>13. chain'.recent = [j \in 1..(n - g) |-> KeyAt(g + j)'] BY <1>9, <1>11, <1>12
  <1> QED BY <1>1, <1>11, <1>13 DEF Remembers

--------------------------------------------------------------------------------
(* The whole next-state relation. *)

LEMMA AppendKeeps ==
  ASSUME LogInv, NEW w \in Stampers, AppendLink(w)
  PROVE  LogInv'
  BY AppendIs, AppendKeepsChain, AppendKeepsRemembers DEF LogInv

\* Every step keeps the invariant, and what it does to the logged links is
\* nothing, or the append of one.
LEMMA LogStep ==
  ASSUME LogInv, [LogNext]_logvars
  PROVE  LogInv' /\ (Logged' = Logged \/ \E w \in Stampers : AppendLink(w))
  <1>1. CASE UNCHANGED logvars
    <2>1. StampsOK' BY <1>1 DEF LogInv, StampsOK, logvars
    <2> QED BY <1>1, <2>1, StampMoves DEF logvars
  <1>2. ASSUME NEW w \in Stampers, StampStep(w)
        PROVE  LogInv' /\ (Logged' = Logged \/ AppendLink(w))
    <2>1. CASE SaveStatus(w) BY <2>1, SaveStatusKeeps
    <2>2. CASE SaveProof(w) BY <2>2, SaveProofKeeps
    <2>3. CASE AppendLink(w) BY <2>3, AppendKeeps
    <2>4. CASE AppendNothing(w) \/ StampFails(w) BY <2>4, StampEnds
    <2>5. CASE \E signer \in Signer : ReadAndSign(w, signer) BY <2>5, ReadAndSignKeeps
    <2>6. ASSUME NEW i \in Incidents, Mitigated(w, i) \/ Closed(w, i)
          PROVE  LogInv' /\ Logged' = Logged
      <3>1. PICK s \in Terminal : Start(w, i, s) BY <2>6 DEF Mitigated, Closed, Terminal
      <3> QED BY <3>1, StartKeeps
    <2> QED BY <1>2, <2>1, <2>2, <2>3, <2>4, <2>5, <2>6 DEF StampStep
  <1> QED BY <1>1, <1>2 DEF LogNext

LEMMA LogStart ==
  ASSUME LogInit
  PROVE  LogInv /\ Logged = <<>>
  <1>1. MaxAppends \in Nat /\ RecentCap \in Nat BY LogAssumption
  <1>2. StampsOK BY DEF LogInit, StampsOK, Status, Idle
  <1>3. chain.seq = 0 /\ chain.hash = <<>> /\ chain.recent = <<>> /\ clock = 0
    BY DEF LogInit, Genesis
  <1>4. Logged = <<>> BY <1>3 DEF Logged
  <1>5. ChainOK BY <1>1, <1>3, <1>4 DEF LogInit, ChainOK
  <1>6. Remembers BY <1>1, <1>3 DEF Remembers, Forgotten
  <1> QED BY <1>2, <1>4, <1>5, <1>6 DEF LogInv

\* Whatever stamps overlap, fail or are retried, the threads' locals, the head
\* and the entries keep the invariant (_persist_proof, transparency.append).
THEOREM LogInvariant == LogSpec => []LogInv
  <1>1. LogInit => LogInv BY LogStart
  <1>2. LogInv /\ [LogNext]_logvars => LogInv' BY LogStep
  <1> QED BY <1>1, <1>2, PTL DEF LogSpec

\* Head and entries agree: no gap, nothing beyond the head, every entry commits
\* to exactly the links below it, and every logged proof was signed
\* (transparency.append over transact_multi).
THEOREM ChainIsWhole == LogSpec => []ChainWhole
  <1>1. LogInv => ChainWhole
    <2> SUFFICES ASSUME LogInv PROVE ChainWhole OBVIOUS
    <2>1. chain.seq \in 0..MaxAppends BY LogAssumption DEF LogInv, ChainOK
    <2> QED BY <2>1 DEF LogInv, ChainOK, EntryOK, ChainWhole
  <1> QED BY <1>1, LogInvariant, PTL

--------------------------------------------------------------------------------
(* The documents implement the append-only log. *)

\* A key the head does not remember is not among the last RecentCap logged.
LEMMA UnseenIsNew ==
  ASSUME LogInv, NEW l \in Link, ~Seen(chain, Key(l.inc, l.status))
  PROVE  Promise!KeyOf(l) \notin Promise!LastKeys(Logged, RecentCap)
  <1>1. SUFFICES ASSUME NEW k \in 1..Len(Logged), k > Len(Logged) - RecentCap,
                        Promise!KeyOf(l) = Promise!KeyOf(Logged[k])
                 PROVE  FALSE
    BY DEF Promise!LastKeys
  <1>2. /\ chain.seq \in Nat /\ RecentCap \in Nat /\ Len(Logged) = chain.seq /\ k \in 1..chain.seq
        /\ Logged[k] = docs[k].link
    <2>1. chain.seq \in Nat /\ RecentCap \in Nat BY LogAssumption DEF LogInv, ChainOK
    <2>2. Len(Logged) = chain.seq /\ \A s \in 1..chain.seq : Logged[s] = docs[s].link
      BY LoggedIsSeq DEF LogInv
    <2> QED BY <2>1, <2>2
  <1>3. PICK j \in 1..(chain.seq - Forgotten) : Forgotten + j = k
    <2>1. Forgotten \in Nat /\ Forgotten < k BY <1>1, <1>2 DEF Forgotten
    <2>2. k - Forgotten \in 1..(chain.seq - Forgotten) /\ Forgotten + (k - Forgotten) = k
      BY <1>2, <2>1
    <2> QED BY <2>2
  <1>4. chain.recent[j] = KeyAt(k) /\ j \in 1..Len(chain.recent) BY <1>3, RecentIsSeq
  <1>5. KeyAt(k) = Key(l.inc, l.status) BY <1>1, <1>2 DEF KeyAt, Key, Promise!KeyOf
  <1> QED BY <1>4, <1>5 DEF Seen

LEMMA AppendIsLonger ==
  ASSUME LogInv, NEW l \in Link, Logged' = Append(Logged, l)
  PROVE  Len(Logged') > Len(Logged)
  <1>1. Logged \in Seq(Link) BY LoggedIsSeq DEF LogInv
  <1> QED BY <1>1

\* The log as the documents hold it behaves as AppendOnlyLog: each step of any
\* stamp extends it by one link whose key is not among the last RecentCap ones,
\* or leaves it (the refinement LogIsAppendOnly names).
THEOREM LogImplementsAppendOnly == LogSpec => LogIsAppendOnly
  <1>1. LogInit => Promise!Init BY LogStart DEF Promise!Init
  <1>2. ASSUME LogInv, [LogNext]_logvars
        PROVE  [Promise!Grow]_Logged
    <2>1. CASE Logged' = Logged BY <2>1
    <2>2. ASSUME NEW w \in Stampers, AppendLink(w) PROVE Promise!Grow
      <3>1. PICK l \in Link : ~Seen(chain, Key(l.inc, l.status)) /\ Logged' = Append(Logged, l)
        BY <1>2, <2>2, AppendIs
      <3>2. Len(Logged') > Len(Logged) BY <1>2, <3>1, AppendIsLonger
      <3> QED BY <1>2, <3>1, <3>2, UnseenIsNew DEF Promise!Extend, Promise!Grow
    <2> QED BY <1>2, <2>1, <2>2, LogStep
  <1> QED BY <1>1, <1>2, LogInvariant, PTL DEF LogSpec, LogIsAppendOnly, Promise!Spec
--------------------------------------------------------------------------------
(* The served proof. *)

\* Until two stamps of an incident overlap or one is cut short, there is one at most;
\* what it signed, and then what it stored, is of the status on the record.
SnapshotOf(i) ==
  /\ \A v, w \in Stampers : Stamping(v, i) /\ Stamping(w, i) => v = w
  /\ \A w \in Stampers : Stamping(w, i) =>
       /\ stamp[w].pc = "save" => stamp[w].status = record[i]
       /\ stamp[w].pc = "append" => served[i] = record[i]
  /\ record[i] \in Terminal /\ (\A w \in Stampers : ~Stamping(w, i))
       => served[i] = record[i]

ServedInv ==
  /\ served \in [Incidents -> Status \cup {NoProof}]
  /\ \A i \in Incidents \ mixed : SnapshotOf(i)

\* A thread that stamps has the locals of a stamp.
LEMMA StampingIs ==
  ASSUME StampsOK, NEW w \in Stampers
  PROVE  /\ \A i \in Incidents : Stamping(w, i) <=> stamp[w].pc # "idle" /\ stamp[w].inc = i
         /\ stamp[w].pc # "idle" => stamp[w] \in Stamp
  BY StampKinds DEF StampsOK, Stamping, Idle, Stamp

\* The step of thread w that moves its stamp of the incident i to l, when it is not
\* the start of one.
LEMMA StampAlone ==
  ASSUME StampsOK, StampsOK', NEW i \in Incidents, SnapshotOf(i), NEW w \in Stampers, NEW l,
         Stamping(w, i), stamp' = [stamp EXCEPT ![w] = l],
         l.pc # "idle" => l.inc = i,
         l.pc = "save" => l.status = record'[i],
         l.pc \in {"append", "idle"} => served'[i] = record'[i]
  PROVE  SnapshotOf(i)'
  <1>1. stamp'[w] = l /\ \A v \in Stampers \ {w} : stamp'[v] = stamp[v]
    BY DEF StampsOK
  <1>2. \A v \in Stampers \ {w} : ~Stamping(v, i)
    BY DEF SnapshotOf
  <1>3. \A v \in Stampers \ {w} : ~Stamping(v, i)'
    BY <1>1, <1>2 DEF Stamping
  <1>4. Stamping(w, i)' <=> l.pc # "idle"
    <2>1. l \in {Idle} \cup Stamp
      BY <1>1 DEF StampsOK
    <2> QED BY <1>1, <2>1 DEF Stamping, Stamp, Idle
  <1> QED BY <1>1, <1>3, <1>4 DEF SnapshotOf

\* A step of another incident's stamp.
LEMMA StampElsewhere ==
  ASSUME StampsOK, NEW i \in Incidents, SnapshotOf(i), NEW w \in Stampers, NEW l,
         ~Stamping(w, i), stamp' = [stamp EXCEPT ![w] = l], l = Idle \/ l.inc # i,
         record'[i] = record[i], served'[i] = served[i]
  PROVE  SnapshotOf(i)'
  <1>1. stamp'[w] = l /\ \A v \in Stampers \ {w} : stamp'[v] = stamp[v]
    BY DEF StampsOK
  <1>2. ASSUME NEW v \in Stampers
        PROVE  /\ Stamping(v, i)' <=> Stamping(v, i)
               /\ Stamping(v, i) => stamp'[v] = stamp[v]
    BY <1>1 DEF Stamping
  <1> QED BY <1>2 DEF SnapshotOf

LEMMA ServedStep ==
  ASSUME LogInv, ServedInv, [LogNext]_logvars PROVE ServedInv'
  <1>1. StampsOK /\ StampsOK'
    BY LogStep DEF LogInv
  <1>2. CASE UNCHANGED logvars
    BY <1>2 DEF logvars, ServedInv, SnapshotOf, Stamping
  <1>3. ASSUME NEW w \in Stampers, StampStep(w) PROVE ServedInv'
    <2>1. ASSUME NEW i \in Incidents, NEW s \in Terminal, Start(w, i, s) PROVE ServedInv'
      <3> DEFINE l == [pc |-> "status", inc |-> i, status |-> s, signer |-> "none"]
      <3>1. /\ stamp[w] = Idle /\ stamp' = [stamp EXCEPT ![w] = l]
            /\ UNCHANGED <<record, served>>
            /\ mixed' = IF \E v \in Stampers : Stamping(v, i) THEN mixed \cup {i} ELSE mixed
        BY <2>1 DEF Start
      <3>2. l.inc = i /\ l.pc = "status"
        OBVIOUS
      <3> HIDE DEF l
      <3>3. ASSUME NEW j \in Incidents \ mixed', j # i PROVE SnapshotOf(j)'
        <4>1. SnapshotOf(j) /\ ~Stamping(w, j)
          BY <3>1, <3>3 DEF ServedInv, Stamping
        <4> QED BY <1>1, <3>1, <3>2, <3>3, <4>1, StampElsewhere
      <3>4. ASSUME i \notin mixed' PROVE SnapshotOf(i)'
        <4>1. \A v \in Stampers : ~Stamping(v, i)
          BY <3>1, <3>4
        <4>2. stamp'[w] = l /\ \A v \in Stampers \ {w} : stamp'[v] = stamp[v]
          BY <1>1, <3>1 DEF StampsOK
        <4>3. \A v \in Stampers \ {w} : ~Stamping(v, i)'
          BY <4>1, <4>2 DEF Stamping
        <4>4. Stamping(w, i)'
          BY <1>1, <3>2, <4>2 DEF Stamping, Idle
        <4> QED BY <3>2, <4>2, <4>3, <4>4 DEF SnapshotOf
      <3>5. served' \in [Incidents -> Status \cup {NoProof}]
        BY <3>1 DEF ServedInv
      <3> QED BY <3>3, <3>4, <3>5 DEF ServedInv
    <2>2. ASSUME NEW l, NEW label \in {"status", "read", "save", "append"},
                 stamp[w].pc = label, stamp' = [stamp EXCEPT ![w] = l],
                 l = Idle \/ l.inc = stamp[w].inc,
                 mixed \subseteq mixed',
                 served' \in [Incidents -> Status \cup {NoProof}],
                 \A j \in Incidents \ {stamp[w].inc} :
                   record'[j] = record[j] /\ served'[j] = served[j],
                 stamp[w].inc \in Incidents \ mixed' =>
                   /\ l.pc = "save" => l.status = record'[stamp[w].inc]
                   /\ l.pc \in {"append", "idle"} =>
                        served'[stamp[w].inc] = record'[stamp[w].inc]
          PROVE  ServedInv'
      <3>1. /\ stamp[w] \in Stamp /\ stamp[w].inc \in Incidents
            /\ \A j \in Incidents : Stamping(w, j) <=> j = stamp[w].inc
        BY <1>1, <2>2, StampingIs DEF Stamp
      <3>2. ASSUME NEW j \in Incidents \ mixed' PROVE SnapshotOf(j)'
        <4>1. SnapshotOf(j)
          BY <2>2 DEF ServedInv
        <4>2. CASE j = stamp[w].inc
          <5>1. l.pc # "idle" => l.inc = j
            BY <2>2, <4>2 DEF Idle
          <5> QED BY <1>1, <2>2, <3>1, <4>1, <4>2, <5>1, StampAlone
        <4>3. CASE j # stamp[w].inc
          BY <1>1, <2>2, <3>1, <4>1, <4>3, StampElsewhere
        <4> QED BY <4>2, <4>3
      <3> QED BY <2>2, <3>2 DEF ServedInv
    <2>3. ASSUME stamp[w].pc \in {"status", "read", "save", "append"}
          PROVE  stamp[w] \in Stamp /\ stamp[w].inc \in Incidents
      BY <1>1, <2>3, StampingIs DEF Stamp
    <2>4. CASE SaveStatus(w)
      <3> DEFINE l == [stamp[w] EXCEPT !.pc = "read"]
      <3>1. /\ stamp[w].pc = "status" /\ stamp' = [stamp EXCEPT ![w] = l]
            /\ record' = [record EXCEPT ![stamp[w].inc] = stamp[w].status]
            /\ UNCHANGED <<served, mixed>>
        BY <2>4 DEF SaveStatus
      <3>2. l.pc = "read" /\ l.inc = stamp[w].inc
        BY <2>3, <3>1 DEF Stamp
      <3>3. \A j \in Incidents \ {stamp[w].inc} : record'[j] = record[j]
        BY <1>1, <3>1 DEF StampsOK
      <3> HIDE DEF l
      <3> QED BY <2>2, <3>1, <3>2, <3>3 DEF ServedInv
    <2>5. ASSUME NEW signer \in Signer, ReadAndSign(w, signer) PROVE ServedInv'
      <3> DEFINE l == [stamp[w] EXCEPT !.pc = "save", !.status = record[stamp[w].inc],
                                       !.signer = signer]
      <3>1. /\ stamp[w].pc = "read" /\ stamp' = [stamp EXCEPT ![w] = l]
            /\ UNCHANGED <<record, served, mixed>>
        BY <1>1, <2>5 DEF ReadAndSign, StampsOK
      <3>2. l.pc = "save" /\ l.inc = stamp[w].inc /\ l.status = record[stamp[w].inc]
        BY <2>3, <3>1 DEF Stamp
      <3> HIDE DEF l
      <3> QED BY <2>2, <3>1, <3>2 DEF ServedInv
    <2>6. CASE SaveProof(w)
      <3> DEFINE l == AfterSave(stamp[w])
                 i == stamp[w].inc
      <3>1. /\ stamp[w].pc = "save" /\ stamp' = [stamp EXCEPT ![w] = l]
            /\ served' = [served EXCEPT ![i] = stamp[w].status]
            /\ UNCHANGED <<record, mixed>>
        BY <2>6 DEF SaveProof, Snapshot
      <3>2. (l = Idle \/ l.inc = i) /\ l.pc # "save"
        BY <2>3, <3>1 DEF AfterSave, Stamp, Idle
      <3>3. stamp[w].status \in Status
        BY <2>3, <3>1 DEF Stamp
      <3>4. /\ served' \in [Incidents -> Status \cup {NoProof}]
            /\ \A j \in Incidents \ {i} : served'[j] = served[j]
            /\ served'[i] = stamp[w].status
        BY <2>3, <3>1, <3>3 DEF ServedInv
      <3>5. i \in Incidents \ mixed => stamp[w].status = record[i]
        BY <1>1, <2>3, <3>1, StampingIs DEF ServedInv, SnapshotOf
      <3> HIDE DEF l
      <3> QED BY <2>2, <3>1, <3>2, <3>4, <3>5
    <2>7. CASE AppendLink(w) \/ AppendNothing(w)
      <3>1. /\ stamp[w].pc = "append" /\ stamp' = [stamp EXCEPT ![w] = Idle]
            /\ UNCHANGED <<record, served, mixed>>
        BY <2>7 DEF AppendLink, AppendNothing
      <3>2. stamp[w].inc \in Incidents \ mixed =>
              served[stamp[w].inc] = record[stamp[w].inc]
        BY <1>1, <3>1, StampingIs DEF ServedInv, SnapshotOf
      <3> QED BY <2>2, <3>1, <3>2 DEF ServedInv, Idle
    <2>8. CASE StampFails(w)
      <3>1. /\ stamp[w].pc \in {"status", "read", "save"} /\ stamp' = [stamp EXCEPT ![w] = Idle]
            /\ mixed' = mixed \cup {stamp[w].inc} /\ UNCHANGED <<record, served>>
        BY <2>8 DEF StampFails
      <3> QED BY <2>2, <3>1 DEF ServedInv
    <2>9. ASSUME NEW i \in Incidents, Mitigated(w, i) \/ Closed(w, i) PROVE ServedInv'
      <3>1. PICK s \in Terminal : Start(w, i, s) BY <2>9 DEF Mitigated, Closed, Terminal
      <3> QED BY <2>1, <3>1
    <2> QED BY <1>3, <2>4, <2>5, <2>6, <2>7, <2>8, <2>9 DEF StampStep
  <1> QED BY <1>2, <1>3 DEF LogNext

LEMMA ServedStart == LogInit => ServedInv
  BY DEF LogInit, ServedInv, SnapshotOf, Stamping, Idle, Terminal

\* Once the stamps of an incident are over, the proof on its record is a snapshot of
\* its terminal status, unless two stamps overlapped or one was cut short.
THEOREM ServedIsCurrent == LogSpec => []ServedMatchesRecord
  <1>1. LogInv /\ ServedInv => ServedMatchesRecord
    BY DEF ServedInv, SnapshotOf, ServedMatchesRecord
  <1>2. LogInit => LogInv BY LogStart
  <1>3. LogInv /\ [LogNext]_logvars => LogInv' BY LogStep
  <1> QED BY <1>1, <1>2, <1>3, ServedStart, ServedStep, PTL DEF LogSpec
===============================================================================
