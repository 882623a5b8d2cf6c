----------------------------- MODULE Integration -----------------------------
(***************************************************************************)
(* The integration pipeline of the coordinator: the sequential queue, the  *)
(* choice of checkpoint and strategy, the merge with conflict detection,   *)
(* the resolution of conflicts and salvage.  The pipeline's functions are  *)
(* stateless; the coordinator calls them in the order Take, Merge,         *)
(* Resolve, Finish for the workspace in progress.                          *)
(***************************************************************************)
EXTENDS Integers, FiniteSets, Sequences

CONSTANTS
  Sources,      \* workspaces that hand in checkpoints
  Artifacts,    \* resources a checkpoint modifies
  NoSource,     \* nothing in progress
  MaxPushes     \* bound on queued integrations

ASSUME IntegrationAssumption ==
  NoSource \notin Sources /\ IsFiniteSet(Artifacts) /\ MaxPushes \in Nat

VARIABLES
  pending,      \* IntegrationQueue::pending
  inProgress,   \* IntegrationQueue::in_progress
  checkpoints,  \* per workspace: its checkpoints, oldest first
  merged,       \* resources modified by prior integrations into the parent
  stage,        \* what the coordinator does next with the one in progress
  conflicts,    \* conflict types found, in order
  pushes        \* number of pushes so far

integrationVars ==
  <<pending, inProgress, checkpoints, merged, stage, conflicts, pushes>>

ConflictTypes == {"ContentOverlap", "SemanticContradiction",
                  "DependencyViolation", "ConstraintBreach"}
Confidences == {"Low", "Medium", "High"}

\* IntegrationPipeline::find_final_checkpoint: the latest final one.
Finals(cps) == {i \in DOMAIN cps : cps[i].final}
FindFinal(cps) == cps[CHOOSE i \in Finals(cps) : \A j \in Finals(cps) : j <= i]

\* SalvageIntegration::select_checkpoint: a final one, or else the last.  Its
\* confidence is then overridden to Low (guardrail 2).
SelectForSalvage(cps) ==
  LET cp == IF Finals(cps) # {} THEN FindFinal(cps) ELSE cps[Len(cps)]
  IN  [cp EXCEPT !.confidence = "Low"]

\* IntegrationPipeline::select_strategy
SelectStrategy(confidence) ==
  [High |-> "Direct", Medium |-> "Layered", Low |-> "Evaluated"][confidence]

\* IntegrationPipeline::decide
Decide(cp) ==
  IF cp.confidence = "Low" THEN "Revise" ELSE SelectStrategy(cp.confidence)

\* Mutant: only Evaluated looks for overlaps.
Mutant_LayeredPasses(strategy, touched) ==
  IF strategy # "Evaluated" THEN << >>
  ELSE [i \in 1..Cardinality(touched \cap merged) |-> "ContentOverlap"]

\* MergeExecutor::execute: Direct passes everything through; Layered and
\* Evaluated report one content overlap per resource both sides modified.
MergeConflicts(strategy, touched) ==
  IF strategy = "Direct" THEN << >>
  ELSE [i \in 1..Cardinality(touched \cap merged) |-> "ContentOverlap"]

\* ConflictResolver::select_strategy
ResolutionFor(type) ==
  [ContentOverlap |-> "CoordinatorResolve", SemanticContradiction |-> "Escalate",
   DependencyViolation |-> "AgentRework", ConstraintBreach |-> "Escalate"][type]

\* Mutant: an escalation does not stop the loop.
Mutant_EscalateAndGoOn(outcome, type) ==
  IF outcome = "Rework" THEN outcome
  ELSE IF ResolutionFor(type) = "AgentRework" THEN "Rework"
  ELSE IF ResolutionFor(type) = "Escalate" THEN "Pending" ELSE outcome

\* One round of resolve_all's loop: an escalation returns at once, a rework
\* ends the loop, so nothing changes the outcome after either.
ResolveNext(outcome, type) ==
  IF outcome # "Resolved" THEN outcome
  ELSE IF ResolutionFor(type) = "Escalate" THEN "Pending"
  ELSE IF ResolutionFor(type) = "AgentRework" THEN "Rework" ELSE outcome

\* ConflictResolver::resolve_all: the outcome after each round, in order.
Outcomes(found) ==
  LET after[i \in 0..Len(found)] ==
        IF i = 0 THEN "Resolved" ELSE ResolveNext(after[i - 1], found[i])
  IN  after

ResolveAll(found) == Outcomes(found)[Len(found)]

IntegrationInit ==
  /\ pending = << >> /\ inProgress = NoSource
  /\ checkpoints = [w \in Sources |-> << >>]
  /\ merged = {} /\ stage = "idle" /\ conflicts = << >>
  /\ pushes = 0

Checkpoint(w, final, confidence, touched) ==
  /\ Len(checkpoints[w]) < 2
  /\ checkpoints' = [checkpoints EXCEPT ![w] = Append(@,
        [final |-> final, confidence |-> confidence, touched |-> touched])]
  /\ UNCHANGED <<pending, inProgress, merged, stage, conflicts, pushes>>

\* IntegrationQueue::push: nothing keeps a workspace from being queued twice.
Push(w) ==
  /\ checkpoints[w] # << >> /\ pushes < MaxPushes
  /\ pushes' = pushes + 1
  /\ pending' = Append(pending, w)
  /\ UNCHANGED <<inProgress, checkpoints, merged, stage, conflicts>>

\* Mutant: the next one is taken while another is in progress.
Mutant_TakeAnyway ==
  /\ pending # << >>
  /\ inProgress' = Head(pending)
  /\ pending' = Tail(pending)
  /\ stage' = "merge"
  /\ UNCHANGED <<checkpoints, merged, conflicts, pushes>>

\* IntegrationQueue::take_next
TakeNext ==
  /\ inProgress = NoSource /\ pending # << >>
  /\ inProgress' = Head(pending)
  /\ pending' = Tail(pending)
  /\ stage' = "merge"
  /\ UNCHANGED <<checkpoints, merged, conflicts, pushes>>

\* Merge the latest final checkpoint as decided, or salvage when there is none.
Merge ==
  LET cps     == checkpoints[inProgress]
      salvage == Finals(cps) = {}
      cp      == IF salvage THEN SelectForSalvage(cps) ELSE FindFinal(cps)
      found   == MergeConflicts(IF salvage THEN "Evaluated" ELSE Decide(cp), cp.touched)
  IN  /\ stage = "merge"
      /\ IF ~salvage /\ Decide(cp) = "Revise"
         THEN stage' = "done" /\ UNCHANGED <<merged, conflicts>>
         ELSE /\ conflicts' = found
              /\ stage' = IF found = << >> THEN "done" ELSE "resolve"
              /\ merged' = IF found = << >> THEN merged \cup cp.touched ELSE merged
      /\ UNCHANGED <<pending, inProgress, checkpoints, pushes>>

\* IntegrationEngine::detect_conflict: the application reports a conflict that
\* no merge detects by itself.
DetectConflict(type) ==
  /\ stage = "resolve" /\ Len(conflicts) < 3
  /\ conflicts' = Append(conflicts, type)
  /\ UNCHANGED <<pending, inProgress, checkpoints, merged, stage, pushes>>

Resolve ==
  /\ stage = "resolve"
  /\ stage' = ResolveAll(conflicts)
  /\ UNCHANGED <<pending, inProgress, checkpoints, merged, conflicts, pushes>>

\* IntegrationQueue::complete
Complete ==
  /\ stage \in {"done", "Resolved", "Pending", "Rework"}
  /\ inProgress' = NoSource /\ stage' = "idle" /\ conflicts' = << >>
  /\ UNCHANGED <<pending, checkpoints, merged, pushes>>

IntegrationNext ==
  \/ \E w \in Sources, final \in BOOLEAN, confidence \in Confidences :
        \E touched \in (SUBSET Artifacts) \ {{}} : Checkpoint(w, final, confidence, touched)
  \/ \E w \in Sources : Push(w)
  \/ TakeNext
  \/ Merge
  \/ \E type \in ConflictTypes : DetectConflict(type)
  \/ Resolve
  \/ Complete

IntegrationSpec == IntegrationInit /\ [][IntegrationNext]_integrationVars

(* ------------------------------- properties ----------------------------- *)
\* Integrations run one at a time: the one in progress is never replaced by the
\* next before it is complete.
OneIntegrationAtATime ==
  [][inProgress # NoSource /\ inProgress' # inProgress
       => inProgress' = NoSource]_integrationVars

\* The outcome of a list of conflicts is that of its first conflict that the
\* coordinator cannot resolve by itself: a person is asked only about what came
\* before any rework, and nothing after an escalation is decided.
FirstBlockerDecides ==
  stage \in {"Resolved", "Pending", "Rework"} =>
    LET blockers == {i \in DOMAIN conflicts :
                       ResolutionFor(conflicts[i]) # "CoordinatorResolve"}
        first    == CHOOSE i \in blockers : \A j \in blockers : i <= j
    IN  stage = IF blockers = {} THEN "Resolved"
                ELSE IF ResolutionFor(conflicts[first]) = "Escalate"
                THEN "Pending" ELSE "Rework"

\* A merge that finishes without a conflict either overlapped with nothing that
\* prior integrations modified, or merged a final checkpoint of high confidence
\* directly, or sent a final checkpoint of low confidence back for revision.
OverlapOnlyDirect ==
  [][stage = "merge" /\ stage' = "done"
     => LET cps == checkpoints[inProgress]
        IN  \E i \in DOMAIN cps :
              \/ cps[i].touched \cap merged = {} /\ merged' = merged \cup cps[i].touched
              \/ cps[i].final /\ cps[i].confidence = "High"
              \/ cps[i].final /\ cps[i].confidence = "Low" /\ merged' = merged]_integrationVars

\* The integration pipeline: one at a time, no unseen overlap, and the first
\* conflict that needs a person or a rework decides.
MergesSafe ==
  /\ []FirstBlockerDecides
  /\ OneIntegrationAtATime
  /\ OverlapOnlyDirect
=============================================================================
