------------------------------ MODULE ProofPoll ------------------------------
(***************************************************************************)
(* The auditor's poll loop, poller.py and app.py of the auditor: once a    *)
(* cycle it reads the pinned public key from disk, lists the agent's       *)
(* recent incidents, fetches the proof of each, verifies it (verify.py),   *)
(* binds and counter-signs the verdict (attestation.py), and publishes the *)
(* lot.  A verdict is reused while the fetched bytes and the pins it was   *)
(* made with are the same.                                                 *)
(***************************************************************************)
EXTENDS Integers, Sequences

CONSTANTS
  Ids,        \* incidents of the agent
  Late,       \* those after SIGNED_NOT_BEFORE, if that is set
  Limit,      \* MAX_INCIDENTS, the window of a cycle
  MaxFaults   \* bound on everything that goes wrong

ASSUME PollAssumption == Late \subseteq Ids /\ Limit \in Nat \ {0} /\ MaxFaults \in Nat

VARIABLES
  recent,    \* the agent's incidents, last updated first
  proof,     \* what GET /incidents/{id}/proof serves
  readable,  \* the pinned key can be read from disk
  cycle,     \* the locals of the poll loop
  cache,     \* _CACHE: verdicts by incident
  page,      \* _STATE["attestations"], as of the last complete cycle
  faults     \* failures so far

pollvars == <<recent, proof, readable, cycle, cache, page, faults>>

\* A published proof: whose signature it carries, whether its digest still
\* fits its bundle.  Until a heal is over it is built live, without signature.
Proofs == [signer : {"none", "pinned", "other"}, intact : BOOLEAN]
Live == [signer |-> "none", intact |-> TRUE]

\* An answer other than a 200 with a body.
Lost == [signer |-> "none", intact |-> FALSE]

NoEntry == [tri |-> "nothing"]
Waiting == [pc |-> "sleep"]

PollInit ==
  /\ recent = <<>>
  /\ proof = [i \in Ids |-> Live]
  /\ readable \in BOOLEAN
  /\ cycle = Waiting
  /\ cache = [i \in Ids |-> NoEntry]
  /\ page = [i \in Ids |-> NoEntry]
  /\ faults = 0

Fault == faults < MaxFaults /\ faults' = faults + 1
------------------------------------------------------------------------------
(* The agent. *)

Listed(i) == \E k \in DOMAIN recent : recent[k] = i

\* incidents.record puts the incident first in list_recent.
Touched(i) == <<i>> \o SelectSeq(recent, LAMBDA j : j # i)

OpenIncident(i) ==
  /\ ~Listed(i)
  /\ recent' = Touched(i)
  /\ UNCHANGED <<proof, readable, cycle, cache, page, faults>>

\* The terminal stamp: signed, by another version of the key, or, when KMS
\* fails, not at all.
StampProof(i, signer) ==
  /\ Listed(i) /\ proof[i] = Live
  /\ proof' = [proof EXCEPT ![i].signer = signer]
  /\ recent' = Touched(i)
  /\ UNCHANGED <<readable, cycle, cache, page, faults>>

\* The stored snapshot no longer is what was signed.
Altered(i) ==
  /\ Fault
  /\ proof[i].signer # "none"
  /\ proof' = [proof EXCEPT ![i].intact = FALSE]
  /\ UNCHANGED <<recent, readable, cycle, cache, page>>

\* The key file is mounted, or its permissions are lost or fixed.
KeyFile ==
  /\ IF readable THEN Fault ELSE UNCHANGED faults
  /\ readable' = ~readable
  /\ UNCHANGED <<recent, proof, cycle, cache, page>>
------------------------------------------------------------------------------
(* attest and build_attestation. *)

Tri(i, p, pem) ==
  IF ~p.intact THEN "FAIL"
  ELSE IF p.signer # "none"
       THEN IF p.signer = "pinned" /\ pem THEN "SIGNED-VERIFIED" ELSE "FAIL"
       ELSE IF i \in Late THEN "DEGRADED" ELSE "INTEGRITY-ONLY"
------------------------------------------------------------------------------
(* The loop. *)

Window == SubSeq(recent, 1, IF Len(recent) < Limit THEN Len(recent) ELSE Limit)

\* The key is read and the incidents are listed; a failed listing is no work.
ListIncidents(answered) ==
  /\ cycle = Waiting
  /\ IF answered THEN UNCHANGED faults ELSE Fault
  /\ cycle' = [pc |-> "audit", pem |-> readable, todo |-> IF answered THEN Window ELSE <<>>,
               out |-> [i \in Ids |-> NoEntry]]
  /\ UNCHANGED <<recent, proof, readable, cache, page>>

\* Mutated form: only the bytes count.
CacheKeyOfBytes(p, pem) == <<p>>

\* What a verdict depends on: the bytes and the pins.
CacheKey(p, pem) == <<p, pem>>

\* Mutated form: an incident once judged is not judged again.
HitOnce(i, p) == cache[i] # NoEntry

Hit(i, p) == cache[i] # NoEntry /\ cache[i].key = CacheKey(p, cycle.pem)

\* The attestation: the verdict, and whether it could be counter-signed.  saw
\* and pem are what it was made from or reused for (ghosts).
Attestation(tri, signed, p) == [tri |-> tri, signed |-> signed, saw |-> p, pem |-> cycle.pem]

Result(i, p, signed) ==
  IF Hit(i, p) THEN Attestation(cache[i].tri, cache[i].signed, p)
  ELSE Attestation(Tri(i, p, cycle.pem), signed, p)

\* audit_incident: only an answered fetch looks at the cache or enters it; a
\* failed counter-signature leaves the attestation unsigned.
AuditIncident(answered, signed) ==
  /\ cycle.pc = "audit" /\ cycle.todo # <<>>
  /\ IF answered /\ signed THEN UNCHANGED faults ELSE Fault
  /\ LET i == Head(cycle.todo)
         p == IF answered THEN proof[i] ELSE Lost
         result == IF answered THEN Result(i, p, signed) ELSE Attestation(Tri(i, p, cycle.pem), signed, p)
     IN  /\ cycle' = [cycle EXCEPT !.todo = Tail(@), !.out[i] = result]
         /\ cache' = IF answered
                     THEN [cache EXCEPT ![i] = [tri |-> result.tri, signed |-> result.signed,
                                                key |-> CacheKey(p, cycle.pem)]]
                     ELSE cache
  /\ UNCHANGED <<recent, proof, readable, page>>

\* The cache is cut to this cycle's incidents, and the page is replaced.
EndCycle ==
  /\ cycle.pc = "audit" /\ cycle.todo = <<>>
  /\ page' = cycle.out
  /\ cache' = [i \in Ids |-> IF cycle.out[i] = NoEntry THEN NoEntry ELSE cache[i]]
  /\ cycle' = Waiting
  /\ UNCHANGED <<recent, proof, readable, faults>>

\* The loop catches whatever is raised and sleeps; or the auditor restarts.
CycleFails ==
  /\ Fault
  /\ cycle' = Waiting
  /\ UNCHANGED <<recent, proof, readable, cache, page>>

AuditorRestart ==
  /\ Fault
  /\ cycle' = Waiting
  /\ cache' = [i \in Ids |-> NoEntry]
  /\ page' = [i \in Ids |-> NoEntry]
  /\ UNCHANGED <<recent, proof, readable>>
------------------------------------------------------------------------------
PollStep == ListIncidents(TRUE) \/ AuditIncident(TRUE, TRUE) \/ EndCycle

PollNext ==
  \/ PollStep
  \/ ListIncidents(FALSE) \/ AuditIncident(FALSE, TRUE) \/ AuditIncident(TRUE, FALSE)
  \/ CycleFails \/ AuditorRestart
  \/ \E i \in Ids :
       \/ OpenIncident(i) \/ Altered(i)
       \/ \E signer \in {"pinned", "other"} : StampProof(i, signer)
  \/ KeyFile

PollSpec == PollInit /\ [][PollNext]_pollvars /\ WF_pollvars(PollStep)
------------------------------------------------------------------------------
\* A cached verdict is the one a fresh verification of the same cycle would
\* give (audit_incident): the page never shows the verdict on other bytes, or
\* the one made with a key that has since become readable or been lost.
VerdictIsFresh ==
  \A i \in Ids :
    /\ page[i] # NoEntry => page[i].tri = Tri(i, page[i].saw, page[i].pem)
    /\ cycle # Waiting /\ cycle.out[i] # NoEntry =>
         cycle.out[i].tri = Tri(i, cycle.out[i].saw, cycle.pem)

\* Once nothing more happens or fails, the page comes to show, for every
\* incident in the window, the verdict on the proof the agent serves with the
\* key as it is on disk (_poll_loop: "must degrade + retry"): no failed fetch,
\* listing or reading of the key is remembered for ever.  (A failed
\* counter-signature is: the unsigned attestation stays in the cache.)
Shows(i) == page[i] # NoEntry /\ page[i].tri = Tri(i, proof[i], readable)
PageCatchesUp ==
  \A i \in Ids : <>[](\E k \in DOMAIN Window : Window[k] = i) => <>[]Shows(i)
==============================================================================
