--------------------------- MODULE TransparencyLog ---------------------------
(***************************************************************************)
(* The terminal stamp of a heal: _persist_proof of state_machine.py signs  *)
(* a snapshot of the incident record, stores it on the record and appends  *)
(* a link to the hash chain of transparency.py.  A heal stamps when it     *)
(* has mitigated, complete_rollback when it has closed; stamps of one      *)
(* incident may overlap, since the revert is armed before the heal         *)
(* records its status.  The chain is the documents log_head and            *)
(* log_entries, written together by transact_multi.                        *)
(*                                                                         *)
(* A hash commits to everything below it, so it is modelled by what it     *)
(* commits to: the sequence of links up to the entry.                      *)
(***************************************************************************)
EXTENDS Integers, Sequences, FiniteSets

CONSTANTS
  Incidents,
  Stampers,    \* threads that may be inside _persist_proof
  RecentCap,   \* RECENT_CAP, the keys remembered on the head
  MaxAppends,  \* bound on the links ever appended
  MaxStamps    \* bound on the stamps of one status of one incident

ASSUME LogAssumption ==
  /\ RecentCap \in Nat \ {0}
  /\ MaxAppends \in Nat
  /\ MaxStamps \in Nat

VARIABLES
  record,  \* the status on the incident record
  served,  \* the proof snapshot on the record, or NoProof
  stamp,   \* the locals of each stamping thread
  begun,   \* stamps begun so far, per incident and status (ghost)
  mixed,   \* incidents of which two stamps overlapped or one was cut short (ghost)
  chain,   \* the log_head document
  docs,    \* the log_entries documents, by seq
  clock    \* links ever appended: the ts of the next one

logvars == <<record, served, stamp, begun, mixed, chain, docs, clock>>

Terminal == {"mitigated", "closed"}
Status == Terminal \cup {"open"}

\* Whose signature a proof carries: the key version the auditor pins, another one (the
\* agent was deployed with a new AIRBAG_KMS_KEY), or none.
Signer == {"pinned", "other", "none"}

\* A proof snapshot is told apart by the status it shows.
NoProof == "none"

Link == [inc : Incidents, status : Status, signer : Signer, at : 1..MaxAppends]

\* The document log_entries/<seq>.
Entry == [seq : 1..MaxAppends, prev : Seq(Link), link : Link, hash : Seq(Link)]
NoEntry == [seq |-> 0, prev |-> <<>>, link |-> <<>>, hash |-> <<>>]

\* What log_head holds before the first append; hash is prev_entry_hash.
Genesis == [seq |-> 0, hash |-> <<>>, recent |-> <<>>]

Idle == [pc |-> "idle"]

Key(i, s) == <<i, s>>

\* The last n elements of s.
LastOf(s, n) ==
  LET k == IF Len(s) <= n THEN 0 ELSE Len(s) - n
  IN  [j \in 1..(Len(s) - k) |-> s[k + j]]

Seen(h, key) == \E j \in 1..Len(h.recent) : h.recent[j] = key

LogInit ==
  /\ record = [i \in Incidents |-> "open"]
  /\ served = [i \in Incidents |-> NoProof]
  /\ stamp = [w \in Stampers |-> Idle]
  /\ begun = [i \in Incidents |-> [s \in Terminal |-> 0]]
  /\ mixed = {}
  /\ chain = Genesis
  /\ docs = [s \in 1..MaxAppends |-> NoEntry]
  /\ clock = 0
------------------------------------------------------------------------------
(* Who stamps. *)

Stamping(w, i) == stamp[w] # Idle /\ stamp[w].inc = i

Start(w, i, s) ==
  /\ stamp[w] = Idle
  /\ begun[i][s] < MaxStamps
  /\ begun' = [begun EXCEPT ![i][s] = @ + 1]
  /\ stamp' = [stamp EXCEPT ![w] = [pc |-> "status", inc |-> i, status |-> s, signer |-> "none"]]
  /\ mixed' = IF \E v \in Stampers : Stamping(v, i) THEN mixed \cup {i} ELSE mixed
  /\ UNCHANGED <<record, served, chain, docs, clock>>

\* A heal (or an approved fix, or the heal's redelivery) has armed the
\* revert and is about to record "mitigated".
Mitigated(w, i) == Start(w, i, "mitigated")

\* A completion of an armed revert is about to record "closed".
Closed(w, i) ==
  /\ begun[i]["closed"] < begun[i]["mitigated"]
  /\ Start(w, i, "closed")
------------------------------------------------------------------------------
(* The stamp. *)

SaveStatus(w) ==
  /\ stamp[w].pc = "status"
  /\ record' = [record EXCEPT ![stamp[w].inc] = stamp[w].status]
  /\ stamp' = [stamp EXCEPT ![w].pc = "read"]
  /\ UNCHANGED <<served, begun, mixed, chain, docs, clock>>

\* incidents.get, then build_signed: what is signed is the record as it is
\* now; a KMS failure leaves a digest without a signature.
ReadAndSign(w, signer) ==
  /\ stamp[w].pc = "read"
  /\ stamp' = [stamp EXCEPT ![w].pc = "save", ![w].status = record[stamp[w].inc],
                              ![w].signer = signer]
  /\ UNCHANGED <<record, served, begun, mixed, chain, docs, clock>>

\* Only a signed snapshot goes on to the chain.
AfterSave(local) == IF local.signer # "none" THEN [local EXCEPT !.pc = "append"] ELSE Idle

\* Mutated form: the first proof is kept, as if a second stamp could add nothing.
SnapshotOnce(local) ==
  IF served[local.inc] # NoProof THEN served
  ELSE [served EXCEPT ![local.inc] = local.status]

\* incidents.record of the new snapshot, whatever one was there.
Snapshot(local) == [served EXCEPT ![local.inc] = local.status]

SaveProof(w) ==
  /\ stamp[w].pc = "save"
  /\ served' = Snapshot(stamp[w])
  /\ stamp' = [stamp EXCEPT ![w] = AfterSave(stamp[w])]
  /\ UNCHANGED <<record, begun, mixed, chain, docs, clock>>

\* Mutated form: the entry is linked to the genesis and not to the head.
EntryUnlinked(h, l) ==
  [seq |-> h.seq + 1, prev |-> <<>>, link |-> l, hash |-> Append(h.hash, l)]

\* The mutator of transparency.append: the entry after h for link l.
EntryAfter(h, l) ==
  [seq |-> h.seq + 1, prev |-> h.hash, link |-> l, hash |-> Append(h.hash, l)]

\* Mutated form: the head forgets the keys it remembered.
HeadForgetful(h, l) ==
  [seq |-> h.seq + 1, hash |-> Append(h.hash, l), recent |-> <<>>]

HeadAfter(h, l) ==
  [seq |-> h.seq + 1, hash |-> Append(h.hash, l),
   recent |-> LastOf(Append(h.recent, Key(l.inc, l.status)), RecentCap)]

NewLink(w) ==
  [inc |-> stamp[w].inc, status |-> stamp[w].status, signer |-> stamp[w].signer, at |-> clock + 1]

\* transact_multi: head and entry in one transaction, re-based on the head
\* as it is at the commit.  A commit whose answer is lost looks the same.
AppendLink(w) ==
  /\ stamp[w].pc = "append"
  /\ clock < MaxAppends
  /\ ~Seen(chain, Key(stamp[w].inc, stamp[w].status))
  /\ chain' = HeadAfter(chain, NewLink(w))
  /\ docs' = [docs EXCEPT ![chain.seq + 1] = EntryAfter(chain, NewLink(w))]
  /\ clock' = clock + 1
  /\ stamp' = [stamp EXCEPT ![w] = Idle]
  /\ UNCHANGED <<record, served, begun, mixed>>

\* The key is remembered (idempotent KEEP), or the store fails and the
\* append is dropped.
AppendNothing(w) ==
  /\ stamp[w].pc = "append"
  /\ stamp' = [stamp EXCEPT ![w] = Idle]
  /\ UNCHANGED <<record, served, begun, mixed, chain, docs, clock>>

\* A store call of the stamp raises (caught), or the instance is recycled.
StampFails(w) ==
  /\ stamp[w].pc \in {"status", "read", "save"}
  /\ stamp' = [stamp EXCEPT ![w] = Idle]
  /\ mixed' = mixed \cup {stamp[w].inc}
  /\ UNCHANGED <<record, served, begun, chain, docs, clock>>
------------------------------------------------------------------------------
StampStep(w) ==
  \/ SaveStatus(w) \/ SaveProof(w)
  \/ AppendLink(w) \/ AppendNothing(w) \/ StampFails(w)
  \/ \E signer \in Signer : ReadAndSign(w, signer)
  \/ \E i \in Incidents : Mitigated(w, i) \/ Closed(w, i)

LogNext == \E w \in Stampers : StampStep(w)

LogSpec == LogInit /\ [][LogNext]_logvars
------------------------------------------------------------------------------
(* What the chain is to its readers. *)

\* The links as the documents hold them, up to the head.
Logged == [s \in 1..chain.seq |-> docs[s].link]

Promise == INSTANCE AppendOnlyLog WITH log <- Logged, Window <- RecentCap, Link <- Link

\* The documents are an append-only log that repeats no recent key
\* (transparency.append with transact_multi): every step adds one link at
\* the end or none, whatever stamps overlap, fail or are retried.
LogIsAppendOnly == Promise!Spec

\* Head and entries agree (transact_multi): there is no gap below the head,
\* nothing beyond it, every entry commits to exactly the links below it, and
\* only signed proofs are logged.
ChainWhole ==
  /\ chain.seq \in 0..MaxAppends
  /\ chain.hash = Logged
  /\ \A s \in 1..MaxAppends :
       IF s > chain.seq
       THEN docs[s] = NoEntry
       ELSE /\ docs[s].seq = s
            /\ docs[s].hash = SubSeq(Logged, 1, s)
            /\ docs[s].prev = SubSeq(Logged, 1, s - 1)
            /\ docs[s].link.signer # "none"

\* The proof served for an incident is a snapshot of its last terminal status
\* once its stamps are over (_persist_proof, called at MITIGATED and again at
\* CLOSED), unless two of them ever overlapped or one was cut short: the one that read
\* the record first may store its snapshot last, and one whose store call raised stores
\* none.
ServedMatchesRecord ==
  \A i \in Incidents \ mixed :
    (record[i] \in Terminal /\ \A w \in Stampers : ~Stamping(w, i))
      => served[i] = record[i]
==============================================================================
