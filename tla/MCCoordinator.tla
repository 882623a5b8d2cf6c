---------------------------- MODULE MCCoordinator ----------------------------
(***************************************************************************)
(* Model-checking instance of the coordinator's structures.  `part' is     *)
(* chosen once: a behaviour exercises the topology alone, the task graph   *)
(* with the dispatcher on top of the topology, the resource control or the *)
(* integration pipeline, whose states are independent of each other.       *)
(***************************************************************************)
EXTENDS Scheduling, Resources, Integration

VARIABLES part, steps

coordinatorVars == <<part, steps, schedulingVars, resourceVars, integrationVars>>

\* Bounds on the number of operations of a behaviour.
MaxSteps ==
  [topology |-> 4, scheduling |-> 7, resources |-> 10, integration |-> 12]

MCInit ==
  /\ part \in {"topology", "scheduling", "resources", "integration"}
  /\ steps = 0
  /\ SchedulingInit /\ ResourcesInit /\ IntegrationInit

MCNext ==
  /\ UNCHANGED part
  /\ steps < MaxSteps[part] /\ steps' = steps + 1
  /\ \/ /\ part = "topology" /\ TopologyNext
        /\ UNCHANGED <<graph, gates, nextWs, resourceVars, integrationVars>>
     \/ /\ part = "scheduling" /\ SchedulingNext
        /\ UNCHANGED <<resourceVars, integrationVars>>
     \/ /\ part = "resources" /\ ResourcesNext
        /\ UNCHANGED <<schedulingVars, integrationVars>>
     \/ /\ part = "integration" /\ IntegrationNext
        /\ UNCHANGED <<schedulingVars, resourceVars>>

MCSpec == MCInit /\ [][MCNext]_coordinatorVars

Symmetry ==
  Permutations(Users) \cup Permutations(TaskIds) \cup Permutations(Spaces)
  \cup Permutations(Sources) \cup Permutations(Artifacts)
=============================================================================
