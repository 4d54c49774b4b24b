------------------------------- MODULE LogAudit -------------------------------
(***************************************************************************)
(* The auditor's walk of the transparency log: transparency_audit.py reads *)
(* the head and then the entries, page by page, while heals append;        *)
(* checkpoint.py compares what was read with the last checkpoint the       *)
(* auditor trusted, and trusts the new head only when all is well.  Pages  *)
(* may fail to arrive, the agent's store may be restored from a backup,    *)
(* and the auditor may lose its own store.                                 *)
(***************************************************************************)
EXTENDS TransparencyLog

CONSTANTS
  Page,         \* entries per page of GET /transparency/log
  MaxEntries,   \* max_entries, the entries an audit fetches at most
  MaxRestores,  \* bound on restores of the agent's store
  MaxWipes      \* bound on losses of the auditor's store

ASSUME AuditAssumption ==
  /\ Page \in Nat \ {0} /\ MaxEntries \in Nat
  /\ MaxRestores \in Nat
  /\ MaxWipes \in Nat

VARIABLES
  audit,       \* the audit under way
  checkpoint,  \* the trusted (head_seq, head_entry_hash), or NoCheckpoint
  known,       \* the log has been checkpointed before
  restores,    \* restores so far (ghost)
  wipes,       \* losses of the auditor's store so far (ghost)
  reset        \* the checkpoint was lost, its memory was not (ghost)

auditvars == <<audit, checkpoint, known>>
faultvars == <<restores, wipes, reset>>
vars == <<logvars, auditvars, faultvars>>

NoCheckpoint == [seq |-> -1, hash |-> <<>>]

NoAudit == [pc |-> "idle"]

AuditInit ==
  /\ LogInit
  /\ audit = NoAudit
  /\ checkpoint = NoCheckpoint
  /\ known = FALSE
  /\ restores = 0
  /\ wipes = 0
  /\ reset = FALSE
------------------------------------------------------------------------------
(* Reading the chain: fetch_chain. *)

\* transparency.entries(lo, hi): the documents there are, up to the head.
Served(lo, hi) == {docs[s] : s \in {r \in lo..hi : r <= chain.seq /\ docs[r] # NoEntry}}

\* The head, first of all: if it cannot be fetched there is no verdict and
\* nothing is learnt.  torn (a page was lost) and truth (the log as it is at
\* this moment) are ghosts.
FetchHead ==
  /\ audit = NoAudit
  /\ audit' = [pc |-> "pages", seq |-> chain.seq, hash |-> chain.hash, lo |-> 1,
               got |-> {}, torn |-> FALSE, truth |-> Logged]
  /\ UNCHANGED <<logvars, faultvars, checkpoint, known>>

\* The entries there are to fetch: min(head_seq, max_entries).
Reach == IF audit.seq > MaxEntries THEN MaxEntries ELSE audit.seq

PageEnd == IF audit.lo + Page - 1 > Reach THEN Reach ELSE audit.lo + Page - 1

FetchPage ==
  /\ audit.pc = "pages"
  /\ audit.lo <= Reach
  /\ LET batch == Served(audit.lo, PageEnd)
     IN  audit' = IF batch = {}
                  THEN [audit EXCEPT !.pc = "walk"]
                  ELSE [audit EXCEPT !.got = @ \cup batch, !.lo = PageEnd + 1]
  /\ UNCHANGED <<logvars, faultvars, checkpoint, known>>

\* The page does not arrive, and the loop breaks.
PageLost ==
  /\ audit.pc = "pages"
  /\ audit.lo <= Reach
  /\ audit' = [audit EXCEPT !.pc = "walk", !.torn = TRUE]
  /\ UNCHANGED <<logvars, faultvars, checkpoint, known>>
------------------------------------------------------------------------------
(* Judging it: walk. *)

\* entry_hash, recomputed from the core of the entry.
HashOf(e) == Append(e.prev, e.link)

At(got, s) == {e \in got : e.seq = s}
Present(got, n) == {s \in 1..n : At(got, s) # {}}
Fetched(got, s) == CHOOSE e \in At(got, s) : TRUE

\* The hash of the last entry present below s, GENESIS if there is none.
HashBelow(got, s) ==
  LET below == Present(got, s - 1)
  IN  IF below = {} THEN <<>>
      ELSE HashOf(Fetched(got, CHOOSE t \in below : \A u \in below : u <= t))

Gaps(got, n) == {s \in 1..n : At(got, s) = {}}

Broken(got, n) ==
  {s \in Present(got, n) :
     LET e == Fetched(got, s)
     IN  HashOf(e) # e.hash \/ e.prev # HashBelow(got, s)}

\* Unsigned while a key is pinned, or signed by another one.
SignatureFailures(got, n) ==
  {s \in Present(got, n) : Fetched(got, s).link.signer # "pinned"}

\* Mutated form: the entry at the head counts as one beyond it.
OrphansFromHead(got, n) == {e.seq : e \in {d \in got : d.seq >= n}}

Orphans(got, n) == {e.seq : e \in {d \in got : d.seq > n}}

\* Mutated form: the head's hash is not compared with the last entry's.
HeadFitsBySize(got, n, hash) == n = 0 => got = {}

HeadFits(got, n, hash) ==
  IF n = 0 THEN got = {} ELSE Gaps(got, n) = {} /\ hash = HashBelow(got, n + 1)

ChainIntact(got, n, hash) ==
  /\ Gaps(got, n) = {}
  /\ Broken(got, n) = {}
  /\ SignatureFailures(got, n) = {}
  /\ Orphans(got, n) = {}
  /\ HeadFits(got, n, hash)

\* Mutated form: a log that is no shorter contains the checkpoint.
ContainedBySize(prior, got, n) == prior.seq <= n

\* _containment: the entry at the prior checkpoint still hashes to it.
Contained(prior, got, n) ==
  \/ prior = NoCheckpoint
  \/ /\ prior.seq <= n
     /\ \/ prior.seq = 0
        \/ \E e \in At(got, prior.seq) : HashOf(e) = prior.hash

AntiReset(prior, seen) == ~(seen /\ prior = NoCheckpoint)

\* attest_chain: the verdict, and the checkpoint advanced only if it is good.
Ok == /\ ChainIntact(audit.got, audit.seq, audit.hash)
      /\ Contained(checkpoint, audit.got, audit.seq)
      /\ AntiReset(checkpoint, known)

Advanced == [seq |-> audit.seq, hash |-> HashBelow(audit.got, audit.seq + 1)]

ReadOver == audit.pc = "walk" \/ (audit.pc = "pages" /\ audit.lo > Reach)

Attest ==
  /\ ReadOver
  /\ checkpoint' = IF Ok THEN Advanced ELSE checkpoint
  /\ known' = (known \/ Ok)
  /\ audit' = NoAudit
  /\ UNCHANGED <<logvars, faultvars>>
------------------------------------------------------------------------------
(* Faults. *)

\* The agent's store is restored to a backup of the first k entries.
Restore(k) ==
  /\ restores < MaxRestores
  /\ k < chain.seq
  /\ docs' = [s \in 1..MaxAppends |-> IF s > k THEN NoEntry ELSE docs[s]]
  /\ chain' = [seq |-> k, hash |-> SubSeq(chain.hash, 1, k),
               recent |-> LastOf([s \in 1..k |-> Key(docs[s].link.inc, docs[s].link.status)], RecentCap)]
  /\ restores' = restores + 1
  /\ UNCHANGED <<record, served, stamp, begun, mixed, clock, auditvars, wipes, reset>>

\* The checkpoint document is gone, the memory that there was one is not.
CheckpointLost ==
  /\ wipes < MaxWipes
  /\ checkpoint # NoCheckpoint
  /\ checkpoint' = NoCheckpoint
  /\ wipes' = wipes + 1
  /\ reset' = TRUE
  /\ UNCHANGED <<logvars, audit, known, restores>>

\* The auditor restarts with the in-process store: all is forgotten.
AuditorRestarts ==
  /\ wipes < MaxWipes
  /\ audit' = NoAudit
  /\ checkpoint' = NoCheckpoint
  /\ known' = FALSE
  /\ wipes' = wipes + 1
  /\ reset' = FALSE
  /\ UNCHANGED <<logvars, restores>>
------------------------------------------------------------------------------
AuditNext ==
  \/ LogNext /\ UNCHANGED <<auditvars, faultvars>>
  \/ FetchHead \/ FetchPage \/ PageLost \/ Attest
  \/ \E k \in 0..MaxAppends : Restore(k)
  \/ CheckpointLost \/ AuditorRestarts

AuditSpec == AuditInit /\ [][AuditNext]_vars
------------------------------------------------------------------------------
\* The log a reader sees only grows, but for a restore of the store.
LogGrowsOrIsRestored == Promise!RestorableSpec

\* The chain that is read is longer than an audit fetches, and walk goes through all
\* of it; or a link of it was signed by another key version than the pinned one.
TooLong == audit.seq > MaxEntries
OtherKey == \E s \in 1..audit.seq : audit.truth[s].signer = "other"

\* No false alarm (walk, attest_chain): however appends interleave with the
\* reading of head and pages, the verdict on what was read is "not ok" only
\* when the store was restored, a page was lost on the way, the auditor's
\* checkpoint was, the log has outgrown max_entries, or the agent signed a proof
\* with another key version.  The last two are for good: from then on every audit of
\* a log that nobody touched is an alarm.
AlarmOnlyBy ==
  ReadOver /\ ~Ok => audit.torn \/ restores > 0 \/ reset \/ TooLong \/ OtherKey

\* No false comfort (attest_chain): the chain an auditor trusts is the whole
\* chain as it was when its head was read, never a part or a mix of two.
TrustsWholeChains ==
  [][checkpoint' # checkpoint /\ checkpoint' # NoCheckpoint
       => checkpoint'.hash = audit.truth /\ checkpoint'.seq = Len(audit.truth)]_vars

\* A history that was cut or rewritten is never trusted (_containment): the
\* next trusted head extends the last one; and a checkpoint that vanished is
\* an alarm, not a fresh start (anti-reset): nothing is trusted any more until
\* the auditor's whole store is new.
TrustOnlyExtends ==
  [][checkpoint' # checkpoint /\ checkpoint' # NoCheckpoint
       => /\ ~reset
          /\ checkpoint # NoCheckpoint =>
               /\ checkpoint.seq <= checkpoint'.seq
               /\ SubSeq(checkpoint'.hash, 1, checkpoint.seq) = checkpoint.hash]_vars
==============================================================================
