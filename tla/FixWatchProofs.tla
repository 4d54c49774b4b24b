---------------------------- MODULE FixWatchProofs ----------------------------
(***************************************************************************)
(* Proofs about FixWatch, for any number of instances, threads, classes    *)
(* and branches, whatever fixes are proposed.                              *)
(***************************************************************************)
EXTENDS FixWatch, TLAPS, SequenceTheorems, FiniteSetTheorems

-------------------------------------------------------------------------------
(* Types. *)

Branch == [class : Classes, pr : {"none", "open", "closed"}, ci : {"none", "pending", "red", "green"},
           files : SUBSET Allowed]

BuildJob  == [pc : {"build"}, class : Classes, blind : BOOLEAN]
BranchJob == [pc : {"branch"}, class : Classes, blind : BOOLEAN, todo : Seq(Allowed), path : Allowed]
CommitJob == [pc : {"commit"}, class : Classes, blind : BOOLEAN, todo : Seq(Allowed), path : Allowed,
              branch : Nat]
LockJob   == [pc : {"lock"}, branch : Nat, path : Allowed, reused : BOOLEAN]
PollJob   == [pc : {"poll"}, branch : Nat, path : Allowed, reused : BOOLEAN, attempt : Nat]
PutJob    == [pc : {"put"}, branch : Nat, path : Allowed, reused : BOOLEAN, attempt : Nat,
              beaten : SUBSET (Instances \cup {"human"})]
Job == {Off} \cup BuildJob \cup BranchJob \cup CommitJob \cup LockJob \cup PollJob \cup PutJob

FixTypeOK ==
  /\ branches \in Seq(Branch)
  /\ job \in [Threads -> Job]
  /\ watching \in [Instances -> SUBSET Nat]
  /\ doubled \subseteq Classes

-------------------------------------------------------------------------------
(* The invariant, said of the locals of one thread. *)

Holds(l) == l.pc \in {"poll", "put"}
Writes(l) == l.pc \in {"build", "branch", "commit"}

\* A writer that has not been overtaken has seen no open PR, and there is none.
SeesNone(t) == Writes(job[t]) /\ ~job[t].blind => Open(job[t].class) = {}

\* The path of a fix is committed first, and is what the watcher corrects.
Covers(t) ==
  /\ job[t].pc = "branch" => job[t].todo # <<>> /\ job[t].path = Head(job[t].todo)
  /\ job[t].pc = "commit" =>
       /\ job[t].branch \in DOMAIN branches
       /\ branches[job[t].branch].class = job[t].class
       /\ \/ job[t].path \in branches[job[t].branch].files
          \/ job[t].todo # <<>> /\ job[t].path = Head(job[t].todo)
  /\ job[t].pc \in {"lock", "poll", "put"} =>
       /\ job[t].branch \in DOMAIN branches
       /\ job[t].reused \/ job[t].path \in branches[job[t].branch].files

\* A watcher past the lock is the one of its instance on its branch.
Alone(t) ==
  Holds(job[t]) =>
    /\ job[t].branch \in watching[Home[t]]
    /\ \A u \in Threads : Holds(job[u]) /\ Home[u] = Home[t] /\ job[u].branch = job[t].branch => u = t

Unbeaten(t) == job[t].pc = "put" => Home[t] \notin job[t].beaten

OneOpen(c) == c \notin doubled => \A a, b \in Open(c) : a = b

FixInv ==
  /\ FixTypeOK
  /\ \A t \in Threads : SeesNone(t) /\ Covers(t) /\ Alone(t) /\ Unbeaten(t)
  /\ \A c \in Classes : OneOpen(c)

-------------------------------------------------------------------------------
LEMMA JobKinds ==
  ASSUME FixTypeOK, NEW t \in Threads
  PROVE  /\ job[t] \in Job
         /\ job[t].pc = "build" => job[t] \in BuildJob
         /\ job[t].pc = "branch" => job[t] \in BranchJob
         /\ job[t].pc = "commit" => job[t] \in CommitJob
         /\ job[t].pc = "lock" => job[t] \in LockJob
         /\ job[t].pc = "poll" => job[t] \in PollJob
         /\ job[t].pc = "put" => job[t] \in PutJob
  <1>1. job[t] \in Job BY DEF FixTypeOK
  <1> QED
    BY <1>1 DEF Job, Off, BuildJob, BranchJob, CommitJob, LockJob, PollJob, PutJob

LEMMA Constants ==
  /\ Home \in [Threads -> Instances] /\ "human" \notin Instances
  /\ FixFile \in Allowed /\ MaxCIRetries \in Nat /\ MaxBranches \in Nat
  BY FixAssumption

\* A branch is changed in place.
LEMMA BranchChanged ==
  ASSUME branches \in Seq(Branch), NEW b \in DOMAIN branches, NEW r \in Branch,
         branches' = [branches EXCEPT ![b] = r]
  PROVE  /\ branches' \in Seq(Branch) /\ DOMAIN branches' = DOMAIN branches
         /\ branches'[b] = r /\ \A k \in DOMAIN branches \ {b} : branches'[k] = branches[k]
  <1>1. DOMAIN branches = 1..Len(branches) /\ Len(branches) \in Nat BY LenProperties
  <1>2. /\ branches' \in Seq(Branch) /\ Len(branches') = Len(branches)
        /\ \A j \in 1..Len(branches) : branches'[j] = IF j = b THEN r ELSE branches[j]
    BY <1>1, ExceptSeq
  <1>3. DOMAIN branches' = 1..Len(branches') BY <1>2, LenProperties
  <1> QED BY <1>1, <1>2, <1>3

LEMMA BranchIsOne ==
  ASSUME branches \in Seq(Branch), NEW b \in DOMAIN branches
  PROVE  branches[b] \in Branch
  <1>1. b \in 1..Len(branches) BY LenProperties
  <1> QED BY <1>1, ElementOfSeq

LEMMA PushedIsChange ==
  ASSUME branches \in Seq(Branch), NEW b \in DOMAIN branches
  PROVE  \E r \in Branch : /\ Pushed(b) = [branches EXCEPT ![b] = r]
                           /\ r.class = branches[b].class /\ r.pr = branches[b].pr
                           /\ r.files = branches[b].files
  <1>1. branches[b] \in Branch BY BranchIsOne
  <1> DEFINE r == [branches[b] EXCEPT !.ci = "pending"]
  <1>2. r \in Branch /\ r.class = branches[b].class /\ r.pr = branches[b].pr
        /\ r.files = branches[b].files
    BY <1>1 DEF Branch
  <1>3. Pushed(b) = [branches EXCEPT ![b] = r] BY DEF Pushed
  <1> HIDE DEF r
  <1> QED BY <1>2, <1>3

-------------------------------------------------------------------------------
(* What a step leaves alone. *)

\* Branches keep their class and lose no file.
Grows ==
  \A b \in DOMAIN branches :
    /\ b \in DOMAIN branches' /\ branches'[b].class = branches[b].class
    /\ branches[b].files \subseteq branches'[b].files

LEMMA CoversStays ==
  ASSUME FixInv, NEW u \in Threads, job'[u] = job[u], Grows
  PROVE  Covers(u)'
  BY DEF FixInv, Covers, Grows

LEMMA SeesNoneStays ==
  ASSUME FixInv, NEW u \in Threads, job'[u] = job[u], \A c \in Classes : Open(c)' \subseteq Open(c)
  PROVE  SeesNone(u)'
  <1>1. Writes(job[u]) => job[u].class \in Classes
    BY JobKinds DEF FixInv, Writes, BuildJob, BranchJob, CommitJob
  <1> QED BY <1>1 DEF FixInv, SeesNone, Writes

LEMMA OneOpenStays ==
  ASSUME FixInv, \A c \in Classes : Open(c)' \subseteq Open(c), doubled' = doubled
  PROVE  \A c \in Classes : OneOpen(c)'
  BY DEF FixInv, OneOpen

\* A thread that moves on without touching GitHub.
LEMMA LocalStep ==
  ASSUME FixInv, NEW t \in Threads, NEW l \in Job, job' = [job EXCEPT ![t] = l],
         UNCHANGED <<branches, doubled>>, SeesNone(t)', Covers(t)',
         watching' \in [Instances -> SUBSET Nat],
         \A u \in Threads \ {t} : Holds(job[u]) => job[u].branch \in watching'[Home[u]],
         Holds(l) =>
           /\ l.branch \in watching'[Home[t]]
           /\ \A u \in Threads \ {t} :
                Holds(job[u]) /\ Home[u] = Home[t] => job[u].branch # l.branch,
         l.pc = "put" => Home[t] \notin l.beaten
  PROVE  FixInv'
  <1>1. job'[t] = l /\ \A u \in Threads \ {t} : job'[u] = job[u] BY DEF FixInv, FixTypeOK
  <1>2. FixTypeOK' BY DEF FixInv, FixTypeOK
  <1>3. Grows /\ \A c \in Classes : Open(c)' \subseteq Open(c) BY DEF Grows, Open
  <1>4. \A u \in Threads : SeesNone(u)' /\ Covers(u)'
    BY <1>1, <1>3, CoversStays, SeesNoneStays
  <1>5. \A u \in Threads : Alone(u)' BY <1>1 DEF FixInv, Alone, Holds
  <1>6. \A u \in Threads : Unbeaten(u)' BY <1>1 DEF FixInv, Unbeaten
  <1> QED BY <1>2, <1>3, <1>4, <1>5, <1>6, OneOpenStays DEF FixInv

LEMMA OffIsFine ==
  ASSUME NEW t \in Threads, job'[t] = Off
  PROVE  SeesNone(t)' /\ Covers(t)' /\ ~Holds(Off) /\ Off \in Job
  BY DEF SeesNone, Covers, Holds, Writes, Off, Job

\* Another thread's hold outlives what becomes of this one's.
LEMMA HoldsStay ==
  ASSUME FixInv, NEW t \in Threads, NEW b,
         \/ watching' = watching
         \/ watching' = [watching EXCEPT ![Home[t]] = @ \cup {b}]
         \/ watching' = [watching EXCEPT ![Home[t]] = @ \ {b}] /\ Holds(job[t]) /\ b = job[t].branch
  PROVE  \A u \in Threads \ {t} : Holds(job[u]) => job[u].branch \in watching'[Home[u]]
  BY Constants DEF FixInv, FixTypeOK, Alone

LEMMA WatchingTypes ==
  ASSUME FixTypeOK, NEW t \in Threads, NEW b,
         \/ watching' = watching
         \/ b \in Nat /\ watching' = [watching EXCEPT ![Home[t]] = @ \cup {b}]
         \/ watching' = [watching EXCEPT ![Home[t]] = @ \ {b}]
  PROVE  watching' \in [Instances -> SUBSET Nat]
  <1>1. Home[t] \in Instances BY Constants
  <1>2. watching[Home[t]] \in SUBSET Nat BY <1>1 DEF FixTypeOK
  <1> QED BY <1>1, <1>2 DEF FixTypeOK

-------------------------------------------------------------------------------
(* open_fix_pr, step by step. *)

LEMMA BranchesAreNat ==
  ASSUME FixTypeOK
  PROVE  DOMAIN branches = 1..Len(branches) /\ Len(branches) \in Nat
  BY LenProperties DEF FixTypeOK

LEMMA WatchJob ==
  ASSUME FixTypeOK, NEW b \in DOMAIN branches, NEW p \in Allowed, NEW reused \in BOOLEAN
  PROVE  WatchOf(b, p, reused) \in Job
  <1>1. b \in Nat BY BranchesAreNat
  <1> QED BY <1>1 DEF WatchOf, Job, LockJob

LEMMA ListOpenKeeps ==
  ASSUME FixInv, NEW t \in Threads, NEW c \in Classes, NEW blind \in BOOLEAN, ListOpen(t, c, blind)
  PROVE  FixInv'
  <1> DEFINE l == [pc |-> "build", class |-> c, blind |-> blind]
  <1>1. UNCHANGED <<branches, watching, doubled>> BY DEF ListOpen
  <1>2. watching' \in [Instances -> SUBSET Nat]
        /\ \A u \in Threads \ {t} : Holds(job[u]) => job[u].branch \in watching'[Home[u]]
    BY <1>1, HoldsStay, WatchingTypes DEF FixInv
  <1>3. job' = [job EXCEPT ![t] = l] => job'[t] = l BY DEF FixInv, FixTypeOK
  <1>4. CASE Reusable(c) # {} /\ ~blind
    <2>1. PICK b \in Reusable(c) : job' = [job EXCEPT ![t] = WatchOf(b, FixFile, TRUE)]
      BY <1>4 DEF ListOpen
    <2>2. b \in DOMAIN branches BY DEF Reusable, Open
    <2>3. WatchOf(b, FixFile, TRUE) \in Job BY <2>2, Constants, WatchJob DEF FixInv
    <2>4. job'[t] = [pc |-> "lock", branch |-> b, path |-> FixFile, reused |-> TRUE]
      BY <2>1 DEF FixInv, FixTypeOK, WatchOf
    <2>5. SeesNone(t)' BY <2>4 DEF SeesNone, Writes
    <2>6. Covers(t)' BY <2>2, <2>4, <1>1 DEF Covers
    <2>7. ~Holds(WatchOf(b, FixFile, TRUE)) /\ WatchOf(b, FixFile, TRUE).pc # "put"
      BY DEF Holds, WatchOf
    <2> QED BY <1>1, <1>2, <2>1, <2>3, <2>5, <2>6, <2>7, LocalStep
  <1>5. CASE ~(Reusable(c) # {} /\ ~blind)
    <2>1. job' = [job EXCEPT ![t] = l] /\ job'[t] = l BY <1>3, <1>5 DEF ListOpen
    <2>2. l \in Job BY DEF Job, BuildJob
    <2>3. l.pc = "build" /\ l.class = c /\ l.blind = blind OBVIOUS
    <2> HIDE DEF l
    <2>4. SeesNone(t)' BY <2>1, <2>3, <1>1, <1>5 DEF SeesNone, Writes, Reusable, Open
    <2>5. Covers(t)' BY <2>1, <2>3 DEF Covers
    <2> QED BY <1>1, <1>2, <2>1, <2>2, <2>3, <2>4, <2>5, LocalStep DEF Holds
  <1> QED BY <1>4, <1>5

LEMMA BuildKeeps ==
  ASSUME FixInv, NEW t \in Threads, NEW files \in Fixes, Build(t, files)
  PROVE  FixInv'
  <1> DEFINE l == [pc |-> "branch", class |-> job[t].class, blind |-> job[t].blind, todo |-> files,
                   path |-> files[1]]
  <1>1. job[t].pc = "build" /\ UNCHANGED <<branches, watching, doubled>>
        /\ job' = [job EXCEPT ![t] = l] /\ GatePassed(files)
    BY DEF Build
  <1>2. watching' \in [Instances -> SUBSET Nat]
        /\ \A u \in Threads \ {t} : Holds(job[u]) => job[u].branch \in watching'[Home[u]]
    BY <1>1, HoldsStay, WatchingTypes DEF FixInv
  <1>3. files \in Seq(Paths) /\ files # <<>> BY FixAssumption
  <1>4. files \in Seq(Allowed) /\ files[1] \in Allowed /\ files[1] = Head(files)
    <2>1. DOMAIN files = 1..Len(files) /\ Len(files) \in Nat /\ Len(files) > 0
      BY <1>3, LenProperties, EmptySeq
    <2>2. \A k \in 1..Len(files) : files[k] \in Allowed BY <1>1, <2>1 DEF GatePassed
    <2>3. files \in [1..Len(files) -> Allowed] BY <1>3, <2>1, <2>2
    <2>4. files \in Seq(Allowed) BY <2>1, <2>3
    <2> QED BY <2>1, <2>2, <2>4
  <1>5. job[t] \in BuildJob BY <1>1, JobKinds DEF FixInv
  <1>6. l \in BranchJob BY <1>4, <1>5 DEF BuildJob, BranchJob
  <1>7. l \in Job BY <1>6 DEF Job
  <1>8. l.pc = "branch" /\ l.class = job[t].class /\ l.blind = job[t].blind /\ l.todo = files
        /\ l.path = files[1]
    OBVIOUS
  <1> HIDE DEF l
  <1>9. job'[t] = l BY <1>1 DEF FixInv, FixTypeOK
  <1>10. SeesNone(t)'
    <2>1. SeesNone(t) BY DEF FixInv
    <2> QED BY <1>1, <1>8, <1>9, <2>1 DEF SeesNone, Writes, Open
  <1>11. Covers(t)' BY <1>3, <1>4, <1>8, <1>9 DEF Covers
  <1> QED BY <1>1, <1>2, <1>7, <1>8, <1>10, <1>11, LocalStep DEF Holds

\* A thread gives its job up, and its hold if it has one.
LEMMA StopKeeps ==
  ASSUME FixInv, NEW t \in Threads, job' = [job EXCEPT ![t] = Off], UNCHANGED <<branches, doubled>>,
         \/ watching' = watching
         \/ watching' = [watching EXCEPT ![Home[t]] = @ \ {job[t].branch}] /\ Holds(job[t])
  PROVE  FixInv'
  <1>1. watching' \in [Instances -> SUBSET Nat]
        /\ \A u \in Threads \ {t} : Holds(job[u]) => job[u].branch \in watching'[Home[u]]
    BY HoldsStay, WatchingTypes DEF FixInv
  <1>2. job'[t] = Off BY DEF FixInv, FixTypeOK
  <1>3. Off.pc # "put" BY DEF Off
  <1> QED BY <1>1, <1>2, <1>3, OffIsFine, LocalStep

LEMMA EndingsKeep ==
  ASSUME FixInv, NEW t \in Threads,
         GiveUp(t) \/ WatchRefused(t) \/ EndWatch(t) \/ Refused409(t)
  PROVE  FixInv'
  <1>1. CASE GiveUp(t) \/ WatchRefused(t)
    BY <1>1, StopKeeps DEF GiveUp, WatchRefused, AfterRefusal
  <1>2. CASE EndWatch(t) \/ Refused409(t)
    <2>1. Holds(job[t]) /\ Finish(t) BY <1>2 DEF EndWatch, Refused409, Holds
    <2> QED BY <2>1, StopKeeps DEF Finish
  <1> QED BY <1>1, <1>2

LEMMA WatchKeeps ==
  ASSUME FixInv, NEW t \in Threads, Watch(t)
  PROVE  FixInv'
  <1> DEFINE l == [pc |-> "poll", branch |-> job[t].branch, path |-> job[t].path,
                   reused |-> job[t].reused, attempt |-> 0]
  <1>1. /\ job[t].pc = "lock" /\ job[t].branch \notin watching[Home[t]]
        /\ watching' = [watching EXCEPT ![Home[t]] = @ \cup {job[t].branch}]
        /\ job' = [job EXCEPT ![t] = l] /\ UNCHANGED <<branches, doubled>>
    BY DEF Watch, Taken, Here
  <1>2. job[t] \in LockJob BY <1>1, JobKinds DEF FixInv
  <1>3. job[t].branch \in Nat BY <1>2 DEF LockJob
  <1>4. watching' \in [Instances -> SUBSET Nat]
        /\ \A u \in Threads \ {t} : Holds(job[u]) => job[u].branch \in watching'[Home[u]]
    BY <1>1, <1>3, HoldsStay, WatchingTypes DEF FixInv
  <1>5. l \in PollJob BY <1>2 DEF LockJob, PollJob
  <1>6. l \in Job BY <1>5 DEF Job
  <1>7. l.pc = "poll" /\ l.branch = job[t].branch /\ l.path = job[t].path
        /\ l.reused = job[t].reused
    OBVIOUS
  <1> HIDE DEF l
  <1>8. job'[t] = l BY <1>1 DEF FixInv, FixTypeOK
  <1>9. SeesNone(t)' BY <1>7, <1>8 DEF SeesNone, Writes
  <1>10. Covers(t)'
    <2>1. Covers(t) BY DEF FixInv
    <2> QED BY <1>1, <1>7, <1>8, <2>1 DEF Covers
  <1>11. l.branch \in watching'[Home[t]]
    BY <1>1, <1>7, Constants DEF FixInv, FixTypeOK
  <1>12. \A u \in Threads \ {t} : Holds(job[u]) /\ Home[u] = Home[t] => job[u].branch # l.branch
    BY <1>1, <1>7 DEF FixInv, Alone
  <1> QED BY <1>1, <1>4, <1>6, <1>7, <1>9, <1>10, <1>11, <1>12, LocalStep

LEMMA ReadRedKeeps ==
  ASSUME FixInv, NEW t \in Threads, ReadRed(t)
  PROVE  FixInv'
  <1> DEFINE l == [pc |-> "put", branch |-> job[t].branch, path |-> job[t].path,
                   reused |-> job[t].reused, attempt |-> job[t].attempt, beaten |-> {}]
  <1>1. /\ job[t].pc = "poll" /\ job' = [job EXCEPT ![t] = l]
        /\ UNCHANGED <<branches, watching, doubled>>
    BY DEF ReadRed
  <1>2. job[t] \in PollJob BY <1>1, JobKinds DEF FixInv
  <1>3. watching' \in [Instances -> SUBSET Nat]
        /\ \A u \in Threads \ {t} : Holds(job[u]) => job[u].branch \in watching'[Home[u]]
    BY <1>1, HoldsStay, WatchingTypes DEF FixInv
  <1>4. l \in PutJob BY <1>2 DEF PollJob, PutJob
  <1>5. l \in Job BY <1>4 DEF Job
  <1>6. l.pc = "put" /\ l.branch = job[t].branch /\ l.path = job[t].path
        /\ l.reused = job[t].reused /\ l.beaten = {}
    OBVIOUS
  <1> HIDE DEF l
  <1>7. job'[t] = l BY <1>1 DEF FixInv, FixTypeOK
  <1>8. SeesNone(t)' BY <1>6, <1>7 DEF SeesNone, Writes
  <1>9. Covers(t)'
    <2>1. Covers(t) BY DEF FixInv
    <2> QED BY <1>1, <1>6, <1>7, <2>1 DEF Covers
  <1>10. /\ l.branch \in watching'[Home[t]]
         /\ \A u \in Threads \ {t} : Holds(job[u]) /\ Home[u] = Home[t] => job[u].branch # l.branch
    BY <1>1, <1>6 DEF FixInv, Alone, Holds
  <1> QED BY <1>1, <1>3, <1>5, <1>6, <1>8, <1>9, <1>10, LocalStep

-------------------------------------------------------------------------------
(* What changes GitHub. *)

\* A branch changes, keeps its class and its files, and opens no PR.
Quiet(b, r) ==
  /\ r.class = branches[b].class /\ branches[b].files \subseteq r.files
  /\ r.pr = branches[b].pr \/ r.pr = "closed"

LEMMA QuietChange ==
  ASSUME FixTypeOK, NEW b \in DOMAIN branches, NEW r \in Branch, Quiet(b, r),
         branches' = [branches EXCEPT ![b] = r]
  PROVE  /\ branches' \in Seq(Branch) /\ DOMAIN branches' = DOMAIN branches /\ Grows
         /\ branches'[b] = r
         /\ \A c \in Classes : Open(c)' \subseteq Open(c)
  <1>1. /\ branches' \in Seq(Branch) /\ DOMAIN branches' = DOMAIN branches
        /\ branches'[b] = r /\ \A k \in DOMAIN branches \ {b} : branches'[k] = branches[k]
    BY BranchChanged DEF FixTypeOK
  <1>2. Grows BY <1>1 DEF Grows, Quiet
  <1>3. \A c \in Classes : Open(c)' \subseteq Open(c) BY <1>1 DEF Open, Quiet
  <1> QED BY <1>1, <1>2, <1>3

\* The locals of all threads but one are kept, and GitHub changes quietly.
LEMMA QuietStep ==
  ASSUME FixInv, Grows, \A c \in Classes : Open(c)' \subseteq Open(c),
         branches' \in Seq(Branch), UNCHANGED <<watching, doubled>>,
         job' \in [Threads -> Job],
         \A u \in Threads :
           /\ SeesNone(u)' /\ Covers(u)' /\ Unbeaten(u)'
           /\ Holds(job'[u]) <=> Holds(job[u])
           /\ Holds(job[u]) => job'[u].branch = job[u].branch
  PROVE  FixInv'
  <1>1. FixTypeOK' BY DEF FixInv, FixTypeOK
  <1>2. \A u \in Threads : Alone(u)' BY DEF FixInv, Alone
  <1> QED BY <1>1, <1>2, OneOpenStays DEF FixInv

LEMMA CIRunsKeeps ==
  ASSUME FixInv, NEW b \in DOMAIN branches, NEW result \in {"red", "green"}, CIRuns(b, result)
  PROVE  FixInv'
  <1> DEFINE r == [branches[b] EXCEPT !.ci = result]
  <1>1. branches' = [branches EXCEPT ![b] = r] /\ UNCHANGED <<job, watching, doubled>>
    BY DEF CIRuns
  <1>2. branches[b] \in Branch BY BranchIsOne DEF FixInv, FixTypeOK
  <1>3. r \in Branch /\ Quiet(b, r) BY <1>2 DEF Branch, Quiet
  <1> HIDE DEF r
  <1>4. branches' \in Seq(Branch) /\ Grows /\ \A c \in Classes : Open(c)' \subseteq Open(c)
    BY <1>1, <1>3, QuietChange DEF FixInv
  <1>5. \A u \in Threads : SeesNone(u)' /\ Covers(u)' BY <1>1, <1>4, SeesNoneStays, CoversStays
  <1>6. \A u \in Threads : Unbeaten(u)' BY <1>1 DEF FixInv, Unbeaten
  <1> QED BY <1>1, <1>4, <1>5, <1>6, QuietStep DEF FixInv, FixTypeOK

LEMMA ClosePrKeeps ==
  ASSUME FixInv, NEW b \in DOMAIN branches, ClosePr(b)
  PROVE  FixInv'
  <1> DEFINE r == [branches[b] EXCEPT !.pr = "closed"]
  <1>1. branches' = [branches EXCEPT ![b] = r] /\ UNCHANGED <<job, watching, doubled>>
    BY DEF ClosePr
  <1>2. branches[b] \in Branch BY BranchIsOne DEF FixInv, FixTypeOK
  <1>3. r \in Branch /\ Quiet(b, r) BY <1>2 DEF Branch, Quiet
  <1> HIDE DEF r
  <1>4. branches' \in Seq(Branch) /\ Grows /\ \A c \in Classes : Open(c)' \subseteq Open(c)
    BY <1>1, <1>3, QuietChange DEF FixInv
  <1>5. \A u \in Threads : SeesNone(u)' /\ Covers(u)' BY <1>1, <1>4, SeesNoneStays, CoversStays
  <1>6. \A u \in Threads : Unbeaten(u)' BY <1>1 DEF FixInv, Unbeaten
  <1> QED BY <1>1, <1>4, <1>5, <1>6, QuietStep DEF FixInv, FixTypeOK

\* Somebody writes the file: a watcher that had read its sha is told of it,
\* and keeps everything else.
LEMMA OutdatedKeeps ==
  ASSUME FixInv, NEW u \in Threads, NEW b, NEW p, NEW who \in Instances \cup {"human"},
         job'[u] = Outdated(b, p, who)[u], Grows, \A c \in Classes : Open(c)' \subseteq Open(c)
  PROVE  /\ job'[u] \in Job /\ SeesNone(u)' /\ Covers(u)'
         /\ Holds(job'[u]) <=> Holds(job[u])
         /\ Holds(job[u]) => job'[u].branch = job[u].branch
         /\ job[u].branch # b \/ Home[u] # who => Unbeaten(u)'
  <1>1. CASE Working(u) /\ job[u].pc = "put" /\ job[u].branch = b /\ job[u].path = p
    <2> DEFINE m == [job[u] EXCEPT !.beaten = @ \cup {who}]
    <2>1. job'[u] = m BY <1>1 DEF Outdated
    <2>2. job[u] \in PutJob BY <1>1, JobKinds DEF FixInv
    <2>3. job[u].beaten \cup {who} \in SUBSET (Instances \cup {"human"}) BY <2>2 DEF PutJob
    <2>4. /\ m \in PutJob /\ m.pc = "put" /\ m.branch = job[u].branch /\ m.path = job[u].path
          /\ m.reused = job[u].reused /\ m.beaten = job[u].beaten \cup {who}
      BY <1>1, <2>2, <2>3 DEF PutJob
    <2> HIDE DEF m
    <2>5. job'[u] \in Job BY <2>1, <2>4 DEF Job
    <2>6. SeesNone(u)' BY <2>1, <2>4 DEF SeesNone, Writes
    <2>7. Covers(u)'
      <3>1. Covers(u) BY DEF FixInv
      <3> QED BY <1>1, <2>1, <2>4, <3>1 DEF Covers, Grows
    <2>8. Holds(job'[u]) /\ Holds(job[u]) BY <1>1, <2>1, <2>4 DEF Holds
    <2>9. Home[u] # who => Unbeaten(u)' BY <1>1, <2>1, <2>4 DEF FixInv, Unbeaten
    <2> QED BY <1>1, <2>1, <2>4, <2>5, <2>6, <2>7, <2>8, <2>9
  <1>2. CASE ~(Working(u) /\ job[u].pc = "put" /\ job[u].branch = b /\ job[u].path = p)
    <2>1. job'[u] = job[u] BY <1>2 DEF Outdated
    <2>2. SeesNone(u)' /\ Covers(u)' BY <2>1, SeesNoneStays, CoversStays
    <2>3. Unbeaten(u)' BY <2>1 DEF FixInv, Unbeaten
    <2> QED BY <2>1, <2>2, <2>3 DEF FixInv, FixTypeOK
  <1> QED BY <1>1, <1>2

LEMMA PushChange ==
  ASSUME FixTypeOK, NEW b \in DOMAIN branches, branches' = Pushed(b)
  PROVE  /\ branches' \in Seq(Branch) /\ Grows /\ DOMAIN branches' = DOMAIN branches
         /\ \A c \in Classes : Open(c)' \subseteq Open(c)
  <1>1. PICK r \in Branch : /\ Pushed(b) = [branches EXCEPT ![b] = r]
                            /\ r.class = branches[b].class /\ r.pr = branches[b].pr
                            /\ r.files = branches[b].files
    BY PushedIsChange DEF FixTypeOK
  <1> QED BY <1>1, QuietChange DEF Quiet

LEMMA HumanPushKeeps ==
  ASSUME FixInv, NEW b \in DOMAIN branches, NEW p \in Paths, HumanPush(b, p)
  PROVE  FixInv'
  <1>1. branches' = Pushed(b) /\ job' = Outdated(b, p, "human") /\ UNCHANGED <<watching, doubled>>
    BY DEF HumanPush
  <1>2. branches' \in Seq(Branch) /\ Grows /\ \A c \in Classes : Open(c)' \subseteq Open(c)
    BY <1>1, PushChange DEF FixInv
  <1>3. \A u \in Threads : Home[u] # "human" BY Constants
  <1>4. \A u \in Threads : job'[u] = Outdated(b, p, "human")[u] BY <1>1
  <1>5. \A u \in Threads :
          /\ job'[u] \in Job /\ SeesNone(u)' /\ Covers(u)' /\ Unbeaten(u)'
          /\ Holds(job'[u]) <=> Holds(job[u])
          /\ Holds(job[u]) => job'[u].branch = job[u].branch
    BY <1>2, <1>3, <1>4, OutdatedKeeps
  <1>6. job' \in [Threads -> Job] BY <1>1, <1>5 DEF Outdated
  <1> QED BY <1>1, <1>2, <1>5, <1>6, QuietStep

LEMMA CorrectKeeps ==
  ASSUME FixInv, NEW t \in Threads, Correct(t)
  PROVE  FixInv'
  <1> DEFINE b == job[t].branch
             p == job[t].path
             l == [pc |-> "poll", branch |-> job[t].branch, path |-> job[t].path,
                   reused |-> job[t].reused, attempt |-> job[t].attempt + 1]
  <1>1. /\ job[t].pc = "put" /\ branches' = Pushed(b) /\ UNCHANGED <<watching, doubled>>
        /\ job' = [Outdated(b, p, Home[t]) EXCEPT ![t] = l]
    BY DEF Correct
  <1>2. job[t] \in PutJob /\ Covers(t) /\ Alone(t) BY <1>1, JobKinds DEF FixInv
  <1>3. b \in DOMAIN branches BY <1>1, <1>2 DEF Covers
  <1>4. branches' \in Seq(Branch) /\ Grows /\ \A c \in Classes : Open(c)' \subseteq Open(c)
    BY <1>1, <1>3, PushChange DEF FixInv
  <1>5. \A u \in Threads \ {t} : job'[u] = Outdated(b, p, Home[t])[u] BY <1>1 DEF Outdated
  <1>6. \A u \in Threads \ {t} : Holds(job[u]) => job[u].branch # b \/ Home[u] # Home[t]
    BY <1>1, <1>2 DEF Alone, Holds
  <1>7. Home[t] \in Instances BY Constants
  <1>8. ASSUME NEW u \in Threads \ {t}
        PROVE  /\ job'[u] \in Job /\ SeesNone(u)' /\ Covers(u)' /\ Unbeaten(u)'
               /\ Holds(job'[u]) <=> Holds(job[u])
               /\ Holds(job[u]) => job'[u].branch = job[u].branch
    <2>1. /\ job'[u] \in Job /\ SeesNone(u)' /\ Covers(u)'
          /\ Holds(job'[u]) <=> Holds(job[u])
          /\ Holds(job[u]) => job'[u].branch = job[u].branch
          /\ job[u].branch # b \/ Home[u] # Home[t] => Unbeaten(u)'
      BY <1>4, <1>5, <1>7, OutdatedKeeps
    <2>2. ~Holds(job[u]) => Unbeaten(u)' BY <2>1 DEF Unbeaten, Holds
    <2> QED BY <1>6, <2>1, <2>2
  <1>9. /\ job'[t] = l /\ l \in PollJob
    <2>1. job'[t] = l BY <1>1 DEF Outdated
    <2>2. job[t].attempt + 1 \in Nat BY <1>2 DEF PutJob
    <2> QED BY <1>2, <2>1, <2>2 DEF PutJob, PollJob
  <1>10. l.pc = "poll" /\ l.branch = b /\ l.path = p /\ l.reused = job[t].reused OBVIOUS
  <1> HIDE DEF l
  <1>11. job'[t] \in Job /\ Holds(job'[t]) /\ Holds(job[t]) /\ job'[t].branch = job[t].branch
    BY <1>1, <1>9, <1>10 DEF Job, Holds
  <1>12. SeesNone(t)' /\ Unbeaten(t)' BY <1>9, <1>10 DEF SeesNone, Writes, Unbeaten
  <1>13. Covers(t)' BY <1>1, <1>2, <1>4, <1>9, <1>10 DEF Covers, Grows
  <1>14. job' \in [Threads -> Job] BY <1>1, <1>8, <1>11 DEF Outdated
  <1> QED BY <1>1, <1>4, <1>8, <1>11, <1>12, <1>13, <1>14, QuietStep

LEMMA CreateBranchKeeps ==
  ASSUME FixInv, NEW t \in Threads, CreateBranch(t)
  PROVE  FixInv'
  <1> DEFINE n == Len(branches) + 1
             l == [pc |-> "commit", class |-> job[t].class, blind |-> job[t].blind,
                   todo |-> job[t].todo, path |-> job[t].path, branch |-> n]
             r == NewBranch(job[t].class)
  <1>1. /\ job[t].pc = "branch" /\ branches' = Append(branches, r)
        /\ job' = [job EXCEPT ![t] = l] /\ UNCHANGED <<watching, doubled>>
    BY DEF CreateBranch
  <1>2. job[t] \in BranchJob /\ Covers(t) /\ SeesNone(t) BY <1>1, JobKinds DEF FixInv
  <1>3. r \in Branch /\ r.class = job[t].class /\ r.pr = "none" BY <1>2 DEF NewBranch, Branch, BranchJob
  <1>4. DOMAIN branches = 1..Len(branches) /\ Len(branches) \in Nat BY BranchesAreNat DEF FixInv
  <1>5. l \in CommitJob BY <1>2, <1>4 DEF BranchJob, CommitJob
  <1>6. l.pc = "commit" /\ l.class = job[t].class /\ l.blind = job[t].blind
        /\ l.todo = job[t].todo /\ l.path = job[t].path /\ l.branch = n
    OBVIOUS
  <1> HIDE DEF l, r
  <1>7. /\ branches' \in Seq(Branch) /\ Len(branches') = n
        /\ \A k \in 1..Len(branches) : branches'[k] = branches[k]
        /\ branches'[n] = r
    BY <1>1, <1>3, AppendProperties DEF FixInv, FixTypeOK
  <1>8. DOMAIN branches' = 1..n BY <1>7, LenProperties
  <1>9. Grows BY <1>4, <1>7, <1>8 DEF Grows
  <1>10. \A c \in Classes : Open(c)' = Open(c)
    <2>1. \A k \in DOMAIN branches' : k \in DOMAIN branches \/ k = n BY <1>4, <1>8
    <2>2. \A k \in DOMAIN branches : k \in DOMAIN branches' BY <1>9 DEF Grows
    <2>3. ~(branches'[n].pr = "open") BY <1>3, <1>7
    <2>4. \A k \in DOMAIN branches : branches'[k] = branches[k] BY <1>4, <1>7
    <2> QED BY <2>1, <2>2, <2>3, <2>4 DEF Open
  <1>11. job'[t] = l /\ \A u \in Threads \ {t} : job'[u] = job[u]
    BY <1>1 DEF FixInv, FixTypeOK
  <1>12. job' \in [Threads -> Job] BY <1>1, <1>5 DEF Job, FixInv, FixTypeOK
  <1>13. \A u \in Threads \ {t} : SeesNone(u)' /\ Covers(u)' /\ Unbeaten(u)'
    BY <1>9, <1>10, <1>11, SeesNoneStays, CoversStays DEF FixInv, Unbeaten
  <1>14. SeesNone(t)'
    <2>1. job[t].class \in Classes BY <1>2 DEF BranchJob
    <2>2. PICK c \in Classes : c = job[t].class BY <2>1
    <2> QED BY <1>1, <1>2, <1>6, <1>10, <1>11, <2>2 DEF SeesNone, Writes, Open
  <1>15. Covers(t)'
    <2>1. n \in DOMAIN branches' BY <1>4, <1>8
    <2> QED BY <1>1, <1>2, <1>3, <1>6, <1>7, <1>11, <2>1 DEF Covers
  <1>16. Unbeaten(t)' /\ ~Holds(job'[t]) /\ ~Holds(job[t])
    BY <1>1, <1>6, <1>11 DEF Unbeaten, Holds
  <1> QED BY <1>1, <1>7, <1>9, <1>10, <1>11, <1>12, <1>13, <1>14, <1>15, <1>16, QuietStep

LEMMA CommitKeeps ==
  ASSUME FixInv, NEW t \in Threads, Commit(t)
  PROVE  FixInv'
  <1> DEFINE b == job[t].branch
             f == Head(job[t].todo)
             l == [job[t] EXCEPT !.todo = Tail(@)]
  <1>1. /\ job[t].pc = "commit" /\ job[t].todo # <<>>
        /\ branches' = [Pushed(b) EXCEPT ![b].files = @ \cup {f}]
        /\ job' = [job EXCEPT ![t] = l] /\ UNCHANGED <<watching, doubled>>
    BY DEF Commit
  <1>2. job[t] \in CommitJob /\ Covers(t) /\ SeesNone(t) BY <1>1, JobKinds DEF FixInv
  <1>3. b \in DOMAIN branches /\ branches[b].class = job[t].class BY <1>1, <1>2 DEF Covers
  <1>4. f \in Allowed /\ Tail(job[t].todo) \in Seq(Allowed)
    <2>1. job[t].todo \in Seq(Allowed) BY <1>2 DEF CommitJob
    <2> QED BY <1>1, <2>1, HeadTailProperties
  <1>5. PICK q \in Branch : /\ Pushed(b) = [branches EXCEPT ![b] = q]
                            /\ q.class = branches[b].class /\ q.pr = branches[b].pr
                            /\ q.files = branches[b].files
    BY <1>3, PushedIsChange DEF FixInv, FixTypeOK
  <1> DEFINE r == [q EXCEPT !.files = @ \cup {f}]
  <1>6. /\ r \in Branch /\ Quiet(b, r) /\ r.class = branches[b].class
        /\ r.files = branches[b].files \cup {f}
    <2>1. q.files \cup {f} \in SUBSET Allowed BY <1>4, <1>5 DEF Branch
    <2> QED BY <1>5, <2>1 DEF Branch, Quiet
  <1>7. branches' = [branches EXCEPT ![b] = r]
    BY <1>1, <1>3, <1>5 DEF FixInv, FixTypeOK
  <1>8. /\ l \in CommitJob /\ l.pc = "commit" /\ l.class = job[t].class /\ l.blind = job[t].blind
        /\ l.path = job[t].path /\ l.branch = b
    BY <1>1, <1>2, <1>4 DEF CommitJob
  <1> HIDE DEF l, r
  <1>9. /\ branches' \in Seq(Branch) /\ DOMAIN branches' = DOMAIN branches /\ Grows
        /\ branches'[b] = r /\ \A c \in Classes : Open(c)' \subseteq Open(c)
    BY <1>3, <1>6, <1>7, QuietChange DEF FixInv
  <1>10. job'[t] = l /\ \A u \in Threads \ {t} : job'[u] = job[u]
    BY <1>1 DEF FixInv, FixTypeOK
  <1>11. job' \in [Threads -> Job] BY <1>1, <1>8 DEF Job, FixInv, FixTypeOK
  <1>12. \A u \in Threads \ {t} : SeesNone(u)' /\ Covers(u)' /\ Unbeaten(u)'
    BY <1>9, <1>10, SeesNoneStays, CoversStays DEF FixInv, Unbeaten
  <1>13. SeesNone(t)'
    <2>1. job[t].class \in Classes BY <1>2 DEF CommitJob
    <2>2. PICK c \in Classes : c = job[t].class BY <2>1
    <2> QED BY <1>1, <1>2, <1>8, <1>9, <1>10, <2>2 DEF SeesNone, Writes, Open
  <1>14. Covers(t)'
    <2>1. job[t].path \in r.files BY <1>1, <1>2, <1>6 DEF Covers
    <2> QED BY <1>3, <1>6, <1>8, <1>9, <1>10, <2>1 DEF Covers
  <1>15. Unbeaten(t)' /\ ~Holds(job'[t]) /\ ~Holds(job[t])
    BY <1>1, <1>8, <1>10 DEF Unbeaten, Holds
  <1> QED BY <1>1, <1>9, <1>10, <1>11, <1>12, <1>13, <1>14, <1>15, QuietStep

LEMMA OpenPrKeeps ==
  ASSUME FixInv, NEW t \in Threads, OpenPr(t)
  PROVE  FixInv'
  <1>0. PICK c \in Classes : c = job[t].class
    <2>1. job[t] \in CommitJob BY JobKinds DEF FixInv, OpenPr
    <2> QED BY <2>1 DEF CommitJob
  <1> DEFINE b == job[t].branch
             l == [pc |-> "lock", branch |-> b, path |-> job[t].path, reused |-> FALSE]
             r == [branches[b] EXCEPT !.pr = "open"]
             overtaken(u) == Working(u) /\ Writes(job[u]) /\ job[u].class = c
  <1>1. /\ job[t].pc = "commit" /\ job[t].todo = <<>>
        /\ branches' = [branches EXCEPT ![b] = r]
        /\ job' = [u \in Threads |-> IF u = t THEN l
                                     ELSE IF overtaken(u) THEN [job[u] EXCEPT !.blind = TRUE]
                                     ELSE job[u]]
        /\ doubled' = IF job[t].blind THEN doubled \cup {c} ELSE doubled
        /\ UNCHANGED watching
    BY <1>0 DEF OpenPr, WatchOf, Writes
  <1>2. job[t] \in CommitJob /\ Covers(t) /\ SeesNone(t) BY <1>1, JobKinds DEF FixInv
  <1>3. /\ b \in DOMAIN branches /\ branches[b].class = c /\ job[t].path \in branches[b].files
        /\ b \in Nat
    BY <1>0, <1>1, <1>2 DEF Covers, CommitJob
  <1>4. /\ r \in Branch /\ r.class = c /\ r.files = branches[b].files /\ r.pr = "open"
    <2>1. branches[b] \in Branch BY <1>3, BranchIsOne DEF FixInv, FixTypeOK
    <2> QED BY <2>1, <1>3 DEF Branch
  <1>5. /\ l \in LockJob /\ l.pc = "lock" /\ l.branch = b /\ l.path = job[t].path
    BY <1>2, <1>3 DEF LockJob, CommitJob
  <1> HIDE DEF l, r
  <1>6. /\ branches' \in Seq(Branch) /\ DOMAIN branches' = DOMAIN branches
        /\ branches'[b] = r /\ \A k \in DOMAIN branches \ {b} : branches'[k] = branches[k]
    BY <1>1, <1>3, <1>4, BranchChanged DEF FixInv, FixTypeOK
  <1>7. Grows BY <1>3, <1>4, <1>6 DEF Grows
  <1>8. Open(c)' \subseteq Open(c) \cup {b} /\ \A d \in Classes \ {c} : Open(d)' \subseteq Open(d)
    BY <1>3, <1>4, <1>6 DEF Open
  <1>9. ASSUME NEW u \in Threads \ {t}
        PROVE  /\ job'[u] \in Job /\ SeesNone(u)' /\ Covers(u)' /\ Unbeaten(u)'
               /\ Holds(job'[u]) <=> Holds(job[u])
               /\ Holds(job[u]) => job'[u].branch = job[u].branch
    <2>1. CASE overtaken(u)
      <3> DEFINE m == [job[u] EXCEPT !.blind = TRUE]
      <3>1. job'[u] = m BY <1>1, <2>1
      <3>2. job[u] \in BuildJob \cup BranchJob \cup CommitJob
        BY <2>1, JobKinds DEF FixInv, Writes
      <3>3. m \in Job /\ m.pc = job[u].pc /\ m.blind
        BY <3>2 DEF Job, BuildJob, BranchJob, CommitJob
      <3>4. job[u].pc = "branch" => m.todo = job[u].todo /\ m.path = job[u].path
        BY <3>2 DEF BuildJob, BranchJob, CommitJob
      <3>5. job[u].pc = "commit" => m.todo = job[u].todo /\ m.path = job[u].path
                                    /\ m.branch = job[u].branch /\ m.class = job[u].class
        BY <3>2 DEF BuildJob, BranchJob, CommitJob
      <3> HIDE DEF m
      <3>6. SeesNone(u)' BY <3>1, <3>3 DEF SeesNone
      <3>7. Covers(u)'
        <4>1. Covers(u) /\ job[u].pc \in {"build", "branch", "commit"} BY <2>1 DEF FixInv, Writes
        <4> QED BY <1>7, <3>1, <3>3, <3>4, <3>5, <4>1 DEF Covers, Grows
      <3>8. Unbeaten(u)' /\ ~Holds(job[u]) /\ ~Holds(job'[u])
        BY <2>1, <3>1, <3>3 DEF Unbeaten, Holds, Writes
      <3> QED BY <3>1, <3>3, <3>6, <3>7, <3>8
    <2>2. CASE ~overtaken(u)
      <3>1. job'[u] = job[u] BY <1>1, <2>2
      <3>2. Covers(u)' BY <3>1, <1>7, CoversStays
      <3>3. SeesNone(u)'
        <4>1. Writes(job[u]) => job[u].class \in Classes \ {c}
          BY <2>2, JobKinds DEF FixInv, Writes, Working, Off, BuildJob, BranchJob, CommitJob
        <4> QED BY <1>8, <3>1, <4>1 DEF FixInv, SeesNone
      <3>4. Unbeaten(u)' BY <3>1 DEF FixInv, Unbeaten
      <3> QED BY <3>1, <3>2, <3>3, <3>4 DEF FixInv, FixTypeOK
    <2> QED BY <2>1, <2>2
  <1>10. job'[t] = l /\ l \in Job BY <1>1, <1>5 DEF Job
  <1>11. SeesNone(t)' /\ Unbeaten(t)' /\ ~Holds(job'[t]) /\ ~Holds(job[t])
    BY <1>1, <1>5, <1>10 DEF SeesNone, Writes, Unbeaten, Holds
  <1>12. Covers(t)' BY <1>3, <1>4, <1>5, <1>6, <1>10 DEF Covers
  <1>13. job' \in [Threads -> Job] BY <1>1, <1>9, <1>10
  <1>14. FixTypeOK' BY <1>1, <1>3, <1>6, <1>13 DEF FixInv, FixTypeOK
  <1>15. \A u \in Threads : Alone(u)'
    BY <1>1, <1>9, <1>11 DEF FixInv, Alone
  <1>16. ASSUME NEW d \in Classes PROVE OneOpen(d)'
    <2>1. CASE d # c BY <1>1, <1>8, <2>1 DEF FixInv, OneOpen
    <2>2. CASE d = c /\ ~job[t].blind
      <3>1. Open(c) = {} BY <1>0, <1>1, <1>2, <2>2 DEF SeesNone, Writes
      <3> QED BY <1>8, <2>2, <3>1 DEF OneOpen
    <2>3. CASE d = c /\ job[t].blind BY <1>1, <2>3 DEF OneOpen
    <2> QED BY <2>1, <2>2, <2>3
  <1> QED BY <1>9, <1>11, <1>12, <1>14, <1>15, <1>16 DEF FixInv

LEMMA InstanceCrashKeeps ==
  ASSUME FixInv, NEW n \in Instances, InstanceCrash(n)
  PROVE  FixInv'
  <1>1. /\ job' = [t \in Threads |-> IF Home[t] = n THEN Off ELSE job[t]]
        /\ watching' = [watching EXCEPT ![n] = {}] /\ UNCHANGED <<branches, doubled>>
    BY DEF InstanceCrash
  <1>2. Grows /\ \A c \in Classes : Open(c)' \subseteq Open(c) BY <1>1 DEF Grows, Open
  <1>3. FixTypeOK' BY <1>1 DEF FixInv, FixTypeOK, Job
  <1>4. ASSUME NEW t \in Threads PROVE SeesNone(t)' /\ Covers(t)' /\ Alone(t)' /\ Unbeaten(t)'
    <2>1. CASE Home[t] = n
      <3>1. job'[t] = Off BY <1>1, <2>1
      <3> QED BY <3>1, OffIsFine DEF Alone, Unbeaten, Off, Holds
    <2>2. CASE Home[t] # n
      <3>1. job'[t] = job[t] BY <1>1, <2>2
      <3>2. \A u \in Threads : Home[u] = Home[t] => job'[u] = job[u] BY <1>1, <2>2
      <3>3. watching'[Home[t]] = watching[Home[t]] BY <1>1, <2>2, Constants DEF FixInv, FixTypeOK
      <3> QED BY <1>2, <3>1, <3>2, <3>3, SeesNoneStays, CoversStays DEF FixInv, Alone, Unbeaten
    <2> QED BY <2>1, <2>2
  <1> QED BY <1>1, <1>2, <1>3, <1>4, OneOpenStays DEF FixInv

-------------------------------------------------------------------------------
(* Theorems. *)

LEMMA FixInitOK == FixInit => FixInv
  <1> SUFFICES ASSUME FixInit PROVE FixInv OBVIOUS
  <1>1. branches = <<>> /\ DOMAIN branches = {} BY DEF FixInit
  <1>2. branches \in Seq(Branch) BY <1>1, EmptySeq
  <1>3. \A t \in Threads : job[t] = Off BY DEF FixInit
  <1>4. FixTypeOK BY <1>2 DEF FixInit, FixTypeOK, Job
  <1>5. \A t \in Threads : SeesNone(t) /\ Covers(t) /\ Alone(t) /\ Unbeaten(t)
    BY <1>3 DEF SeesNone, Covers, Alone, Unbeaten, Holds, Writes, Off
  <1>6. \A c \in Classes : OneOpen(c) BY <1>1 DEF OneOpen, Open
  <1> QED BY <1>4, <1>5, <1>6 DEF FixInv

LEMMA FixStep ==
  ASSUME FixInv, [FixNext]_fixvars
  PROVE  FixInv'
  <1>1. ASSUME NEW t \in Threads, Opening(t) PROVE FixInv'
    BY <1>1, ListOpenKeeps, BuildKeeps, CreateBranchKeeps, CommitKeeps, OpenPrKeeps, EndingsKeep
    DEF Opening
  <1>2. ASSUME NEW t \in Threads, Watching(t) PROVE FixInv'
    BY <1>2, WatchKeeps, EndingsKeep, ReadRedKeeps, CorrectKeeps DEF Watching
  <1>3. ASSUME NEW b \in DOMAIN branches,
               \/ \E result \in {"red", "green"} : CIRuns(b, result)
               \/ \E p \in Paths : HumanPush(b, p)
               \/ ClosePr(b)
        PROVE  FixInv'
    BY <1>3, CIRunsKeeps, HumanPushKeeps, ClosePrKeeps
  <1>4. ASSUME NEW n \in Instances, InstanceCrash(n) PROVE FixInv' BY <1>4, InstanceCrashKeeps
  <1>5. CASE UNCHANGED fixvars
    BY <1>5 DEF fixvars, FixInv, FixTypeOK, SeesNone, Covers, Alone, Unbeaten, OneOpen, Open
  <1> QED BY <1>1, <1>2, <1>3, <1>4, <1>5 DEF FixNext

\* The invariant the theorems below rest on.
THEOREM FixInvariant == FixSpec => []FixInv
  BY FixInitOK, FixStep, PTL DEF FixSpec

\* ConflictOnlyAcrossInstances, for any number of watchers: _watching spares a
\* process every refusal it would bring upon itself (self_correct_ci).
THEOREM NoConflictAtHome == FixSpec => []ConflictOnlyAcrossInstances
  <1>1. FixInv => ConflictOnlyAcrossInstances
    BY DEF FixInv, Unbeaten, ConflictOnlyAcrossInstances
  <1> QED BY <1>1, FixInvariant, PTL

\* DuplicateOnlyBy, for any number of writers and classes: a second open PR of a
\* class takes a thread that opened one blindly (open_fix_pr).
THEOREM DuplicatesAreBlind == FixSpec => []DuplicateOnlyBy
  <1>1. ASSUME FixInv, NEW c \in Classes, c \notin doubled
        PROVE  ~(Cardinality(Open(c)) > 1)
    <2>1. \A a, b \in Open(c) : a = b BY <1>1 DEF FixInv, OneOpen
    <2>2. CASE Open(c) = {} BY <2>2, FS_EmptySet
    <2>3. ASSUME NEW a \in Open(c) PROVE ~(Cardinality(Open(c)) > 1)
      <3>1. Open(c) = {a} BY <2>1
      <3> QED BY <3>1, FS_Singleton
    <2> QED BY <2>2, <2>3
  <1>2. FixInv => DuplicateOnlyBy BY <1>1 DEF DuplicateOnlyBy
  <1> QED BY <1>2, FixInvariant, PTL

\* WritesWhereItMay, for any fix a model proposes: only allowed paths are
\* written, and a watcher corrects the file its PR fixed (fix_path_allowed).
THEOREM WritesAreAllowed == FixSpec => []WritesWhereItMay
  <1>1. ASSUME FixInv PROVE WritesWhereItMay
    <2>1. \A b \in DOMAIN branches : branches[b].files \subseteq Allowed
      BY <1>1, BranchIsOne DEF FixInv, FixTypeOK, Branch
    <2>2. ASSUME NEW t \in Threads, job[t].pc = "put"
          PROVE  /\ job[t].path \in Allowed
                 /\ job[t].reused \/ job[t].path \in branches[job[t].branch].files
      <3>1. job[t] \in PutJob /\ Covers(t) BY <1>1, <2>2, JobKinds DEF FixInv
      <3> QED BY <2>2, <3>1 DEF PutJob, Covers
    <2> QED BY <2>1, <2>2 DEF WritesWhereItMay
  <1> QED BY <1>1, FixInvariant, PTL
===============================================================================
