-------------------------------- MODULE MCFleet --------------------------------
(***************************************************************************)
(* Four components around the heals that share no state with each other:   *)
(* the writers of the traffic block, the fix PRs and their watchers, the   *)
(* event bus, and the auditor's poll of the proofs.  Their interleaving    *)
(* says no more than each of them alone, so a behaviour moves one of them, *)
(* chosen at the start, and leaves the others as they began.               *)
(***************************************************************************)
EXTENDS TrafficBlock, FixWatch, EventBus, ProofPoll

CONSTANTS agentA, agentB, heal1, heal2, main, module, workflow

\* Two heals of one instance: the case _watching is there for.
HealsOfAgentA == [t \in {heal1, heal2} |-> agentA]

\* A fix with its test, and one whose test is a workflow file.
Proposals == {<<module, main>>, <<module, workflow>>}

VARIABLE part

fleetvars == <<trafficvars, fixvars, busvars, pollvars, part>>

FleetInit ==
  /\ TrafficInit /\ FixInit /\ BusInit /\ PollInit
  /\ part \in {"traffic", "fix", "bus", "poll"}
  /\ part # "traffic" => traffic = Whole(1)
  /\ part # "poll" => readable

FleetNext ==
  /\ UNCHANGED part
  /\ \/ part = "traffic" /\ TrafficNext /\ UNCHANGED <<fixvars, busvars, pollvars>>
     \/ part = "fix" /\ FixNext /\ UNCHANGED <<trafficvars, busvars, pollvars>>
     \/ part = "bus" /\ BusNext /\ UNCHANGED <<trafficvars, fixvars, pollvars>>
     \/ part = "poll" /\ PollNext /\ UNCHANGED <<trafficvars, fixvars, busvars>>

FleetSpec == FleetInit /\ [][FleetNext]_fleetvars /\ WF_pollvars(PollStep /\ part = "poll")
================================================================================
