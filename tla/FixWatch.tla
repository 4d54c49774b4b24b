------------------------------- MODULE FixWatch -------------------------------
(***************************************************************************)
(* The slow half of a heal, github_pr.py and fix_pipeline.py: a thread     *)
(* looks for an open fix PR of its incident class, or writes a fix, makes  *)
(* a branch, commits the files one by one and opens a PR; another thread   *)
(* then watches the branch's CI and pushes corrections while it is red.    *)
(* GitHub is shared by all heals of all instances, the set _watching that  *)
(* keeps a branch to one watcher is not.                                   *)
(***************************************************************************)
EXTENDS Integers, FiniteSets, Sequences

CONSTANTS
  Instances,     \* processes of the agent
  Threads,       \* threads of heals and of their watchers
  Home,          \* the instance of each thread
  Classes,       \* incident classes: _fix_signature
  Paths,         \* repository paths a fix may name
  Allowed,       \* those fix_path_allowed accepts
  FixFile,       \* FIX_FILE, the configured path
  Fixes,         \* what the model may propose: the fixed file, then its test
  MaxCIRetries,  \* MAX_CI_RETRIES
  MaxBranches    \* bound on the branches ever created

ASSUME FixAssumption ==
  /\ Home \in [Threads -> Instances]
  /\ "human" \notin Instances
  /\ Allowed \subseteq Paths
  /\ FixFile \in Allowed
  /\ \A files \in Fixes : files \in Seq(Paths) /\ files # <<>>
  /\ MaxCIRetries \in Nat
  /\ MaxBranches \in Nat

VARIABLES
  branches,  \* the airbag/fix-* branches on GitHub, in order of creation
  job,       \* the locals of each thread
  watching,  \* _watching of each instance
  doubled    \* classes of which a PR was opened blindly (ghost)

fixvars == <<branches, job, watching, doubled>>

\* files are those committed before the PR.
NewBranch(c) == [class |-> c, pr |-> "none", ci |-> "none", files |-> {}]

Off == [pc |-> "off"]
Working(t) == job[t] # Off

FixInit ==
  /\ branches = <<>>
  /\ job = [t \in Threads |-> Off]
  /\ watching = [n \in Instances |-> {}]
  /\ doubled = {}

Open(c) == {b \in DOMAIN branches : branches[b].class = c /\ branches[b].pr = "open"}

\* A commit to branch b: its CI starts over.
Pushed(b) == [branches EXCEPT ![b].ci = "pending"]

\* The sha a watcher has read of the file is old once who committed to it.
Outdated(b, p, who) ==
  [t \in Threads |->
     IF Working(t) /\ job[t].pc = "put" /\ job[t].branch = b /\ job[t].path = p
     THEN [job[t] EXCEPT !.beaten = @ \cup {who}]
     ELSE job[t]]
------------------------------------------------------------------------------
(* open_fix_pr. *)
\* Mutated form: no open PR is ever recognised.
ReusableNone(c) == {}

\* The open PRs that are reused: those whose branch has the class's prefix.
Reusable(c) == Open(c)

\* _watch_emit's thread: the watch of branch b for corrections to path p.
WatchOf(b, p, reused) == [pc |-> "lock", branch |-> b, path |-> p, reused |-> reused]

\* A reused PR is watched for FIX_FILE, whatever file it fixed.  A listing
\* that is not a 200 is taken for an empty one (blind).
ListOpen(t, c, blind) ==
  /\ job[t] = Off
  /\ IF Reusable(c) # {} /\ ~blind
     THEN \E b \in Reusable(c) : job' = [job EXCEPT ![t] = WatchOf(b, FixFile, TRUE)]
     ELSE job' = [job EXCEPT ![t] = [pc |-> "build", class |-> c, blind |-> blind]]
  /\ UNCHANGED <<branches, watching, doubled>>

\* Mutated form: the gate looks at the fixed file and not at the test.
GateFirstOnly(files) == files[1] \in Allowed

\* The hard gate: every file of the fix, the test included.
GatePassed(files) == \A k \in DOMAIN files : files[k] \in Allowed

\* build_fix, or the single-call rewrite: the fixed file and perhaps a test,
\* then the gate; nothing is on GitHub yet.
Build(t, files) ==
  /\ job[t].pc = "build"
  /\ GatePassed(files)
  /\ job' = [job EXCEPT ![t] = [pc |-> "branch", class |-> @.class, blind |-> @.blind, todo |-> files,
                                path |-> files[1]]]
  /\ UNCHANGED <<branches, watching, doubled>>

CreateBranch(t) ==
  /\ job[t].pc = "branch"
  /\ Len(branches) < MaxBranches
  /\ branches' = Append(branches, NewBranch(job[t].class))
  /\ job' = [job EXCEPT ![t] = [pc |-> "commit", class |-> @.class, blind |-> @.blind, todo |-> @.todo,
                                path |-> @.path, branch |-> Len(branches) + 1]]
  /\ UNCHANGED <<watching, doubled>>

Commit(t) ==
  /\ job[t].pc = "commit" /\ job[t].todo # <<>>
  /\ branches' = [Pushed(job[t].branch) EXCEPT ![job[t].branch].files = @ \cup {Head(job[t].todo)}]
  /\ job' = [job EXCEPT ![t].todo = Tail(@)]
  /\ UNCHANGED <<watching, doubled>>

\* The PR is there, and the watcher of the file that was fixed starts.
OpenPr(t) ==
  /\ job[t].pc = "commit" /\ job[t].todo = <<>>
  /\ branches' = [branches EXCEPT ![job[t].branch].pr = "open"]
  /\ job' = [u \in Threads |->
               IF u = t THEN WatchOf(job[t].branch, job[t].path, FALSE)
               ELSE IF Working(u) /\ job[u].pc \in {"build", "branch", "commit"} /\ job[u].class = job[t].class
               THEN [job[u] EXCEPT !.blind = TRUE]
               ELSE job[u]]
  /\ doubled' = IF job[t].blind THEN doubled \cup {job[t].class} ELSE doubled
  /\ UNCHANGED watching

\* No fix was produced, the gate refused it, or a call failed: no PR, and the
\* branch with what was committed to it stays.
GiveUp(t) ==
  /\ job[t].pc \in {"build", "branch", "commit"}
  /\ job' = [job EXCEPT ![t] = Off]
  /\ UNCHANGED <<branches, watching, doubled>>
------------------------------------------------------------------------------
(* self_correct_ci. *)

Here(t) == watching[Home[t]]

\* One watcher per branch and process.
Taken(t) == job[t].branch \in Here(t)

Watch(t) ==
  /\ job[t].pc = "lock" /\ ~Taken(t)
  /\ watching' = [watching EXCEPT ![Home[t]] = @ \cup {job[t].branch}]
  /\ job' = [job EXCEPT ![t] = [pc |-> "poll", branch |-> @.branch, path |-> @.path, reused |-> @.reused,
                                attempt |-> 0]]
  /\ UNCHANGED <<branches, doubled>>

\* Mutated form: the early return passes through the finally clause.
AfterRefusalReleases(t) == [watching EXCEPT ![Home[t]] = @ \ {job[t].branch}]

\* What becomes of _watching when a second watcher is turned away.
AfterRefusal(t) == watching

WatchRefused(t) ==
  /\ job[t].pc = "lock" /\ Taken(t)
  /\ watching' = AfterRefusal(t)
  /\ job' = [job EXCEPT ![t] = Off]
  /\ UNCHANGED <<branches, doubled>>

\* The finally clause.
Finish(t) ==
  /\ watching' = [watching EXCEPT ![Home[t]] = @ \ {job[t].branch}]
  /\ job' = [job EXCEPT ![t] = Off]
  /\ UNCHANGED <<branches, doubled>>

\* _poll_ci found green, timed out or may not read the checks; or the checks
\* are red and the attempts used up, and a human is called; or a call failed.
EndWatch(t) ==
  /\ job[t].pc \in {"poll", "put"}
  /\ Finish(t)

\* _poll_ci found red: the file and its sha are read from the branch.
ReadRed(t) ==
  /\ job[t].pc = "poll"
  /\ branches[job[t].branch].ci = "red"
  /\ job[t].attempt < MaxCIRetries
  /\ job' = [job EXCEPT ![t] = [pc |-> "put", branch |-> @.branch, path |-> @.path, reused |-> @.reused,
                                attempt |-> @.attempt, beaten |-> {}]]
  /\ UNCHANGED <<branches, watching, doubled>>

\* beaten: who committed to the file since its sha was read.
Current(t) == job[t].beaten = {}

\* The correction is committed with the sha that was read, or refused (409)
\* and reported as an escalation.
Correct(t) ==
  /\ job[t].pc = "put" /\ Current(t)
  /\ branches' = Pushed(job[t].branch)
  /\ job' = [Outdated(job[t].branch, job[t].path, Home[t]) EXCEPT
               ![t] = [pc |-> "poll", branch |-> job[t].branch, path |-> job[t].path,
                       reused |-> job[t].reused, attempt |-> job[t].attempt + 1]]
  /\ UNCHANGED <<watching, doubled>>

Refused409(t) == job[t].pc = "put" /\ ~Current(t) /\ Finish(t)
------------------------------------------------------------------------------
(* GitHub, humans, and the platform. *)

CIRuns(b, result) ==
  /\ branches[b].ci = "pending"
  /\ branches' = [branches EXCEPT ![b].ci = result]
  /\ UNCHANGED <<job, watching, doubled>>

HumanPush(b, p) ==
  /\ branches[b].pr = "open"
  /\ branches' = Pushed(b)
  /\ job' = Outdated(b, p, "human")
  /\ UNCHANGED <<watching, doubled>>

ClosePr(b) ==
  /\ branches[b].pr = "open"
  /\ branches' = [branches EXCEPT ![b].pr = "closed"]
  /\ UNCHANGED <<job, watching, doubled>>

\* A recycled instance loses its threads and its _watching.
InstanceCrash(n) ==
  /\ job' = [t \in Threads |-> IF Home[t] = n THEN Off ELSE job[t]]
  /\ watching' = [watching EXCEPT ![n] = {}]
  /\ UNCHANGED <<branches, doubled>>
------------------------------------------------------------------------------
Opening(t) ==
  \/ \E c \in Classes, blind \in BOOLEAN : ListOpen(t, c, blind)
  \/ \E files \in Fixes : Build(t, files)
  \/ CreateBranch(t) \/ Commit(t) \/ OpenPr(t) \/ GiveUp(t)

Watching(t) ==
  Watch(t) \/ WatchRefused(t) \/ ReadRed(t) \/ Correct(t) \/ Refused409(t) \/ EndWatch(t)

FixNext ==
  \/ \E t \in Threads : Opening(t) \/ Watching(t)
  \/ \E b \in DOMAIN branches :
       \/ \E result \in {"red", "green"} : CIRuns(b, result)
       \/ \E p \in Paths : HumanPush(b, p)
       \/ ClosePr(b)
  \/ \E n \in Instances : InstanceCrash(n)

FixSpec == FixInit /\ [][FixNext]_fixvars
------------------------------------------------------------------------------
\* One open fix PR per incident class (open_fix_pr's idempotency), unless the
\* class was opened blindly: the listing failed, or another thread opened its
\* PR after this one had listed.
DuplicateOnlyBy ==
  \A c \in Classes : Cardinality(Open(c)) > 1 => c \in doubled

\* A correction is refused for a stale sha, and the watcher falsely escalates,
\* only when a human or the watcher of another instance wrote the file: within
\* one process _watching keeps the watchers of a branch apart.
ConflictOnlyAcrossInstances ==
  \A t \in Threads : job[t].pc = "put" => Home[t] \notin job[t].beaten

\* The agent commits only to allowed paths (fix_path_allowed), the test and
\* the corrections included; and a watcher corrects the file its PR fixed,
\* unless the PR was reused.
WritesWhereItMay ==
  /\ \A b \in DOMAIN branches : branches[b].files \subseteq Allowed
  /\ \A t \in Threads :
       job[t].pc = "put" =>
         /\ job[t].path \in Allowed
         /\ job[t].reused \/ job[t].path \in branches[job[t].branch].files
==============================================================================
