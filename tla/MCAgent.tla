------------------------------- MODULE MCAgent -------------------------------
(***************************************************************************)
(* Model-checking instance of what surrounds an agent: the tool framework, *)
(* the LLM gateway, its answers, and the services of the runtime.  `part'  *)
(* is chosen once.                                                         *)
(***************************************************************************)
EXTENDS Tools, Llm, Services

VARIABLES part, steps

agentVars == <<part, steps, toolVars, llmVars, serviceVars>>

\* A bound on the number of steps of the gateway's users; the other parts are
\* finite without one.
MaxSteps == 9

MCInit ==
  /\ part \in {"tools", "gateway", "answers", "services"}
  /\ steps = 0
  /\ ToolsInit /\ LlmInit /\ ServicesInit

MCNext ==
  /\ UNCHANGED part
  /\ IF part # "gateway" THEN UNCHANGED steps
     ELSE steps < MaxSteps /\ steps' = steps + 1
  /\ \/ part = "tools" /\ ToolsNext /\ UNCHANGED <<llmVars, serviceVars>>
     \/ part = "gateway" /\ GatewayNext /\ UNCHANGED <<toolVars, serviceVars>>
     \/ /\ part = "answers" /\ AnswerNext
        /\ conv' = <<>> \/ stream' = NoStream      \* neither looks at the other
        /\ UNCHANGED <<toolVars, serviceVars>>
     \/ part = "services" /\ ServicesNext /\ UNCHANGED <<toolVars, llmVars>>

MCSpec == MCInit /\ [][MCNext]_agentVars

Symmetry == Permutations(Callers) \cup Permutations(LlmCallers) \cup Permutations(SdkTasks)
=============================================================================
