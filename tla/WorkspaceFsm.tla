---------------------------- MODULE WorkspaceFsm ----------------------------
(***************************************************************************)
(* The workspace lifecycle (crate wacp-fsm): the set of legal (state,      *)
(* trigger, state) edges of the match in the code.  A pair without an edge *)
(* is an illegal transition; the terminal states have no edge.             *)
(***************************************************************************)

WorkspaceStates ==
  {"Idle", "Active", "Blocked", "Migrating", "Suspended",
   "Integrating", "Conflicted", "Closed", "Failed"}

TerminalStates == {"Closed", "Failed"}

WorkspaceEdges ==
  LET Edge(from, triggers, to) == {<<from, t, to>> : t \in triggers}
  IN  UNION {
        Edge("Idle", {"ReceiveFirstEnvelope"}, "Active"),
        Edge("Idle", {"CreationError", "TimeoutExceeded", "CoordinatorAbort",
                      "BudgetExceeded"}, "Failed"),
        Edge("Active", {"AgentBlocked"}, "Blocked"),
        Edge("Active", {"CoordinatorMigrate"}, "Migrating"),
        Edge("Active", {"CoordinatorSuspend"}, "Suspended"),
        Edge("Active", {"AgentComplete"}, "Integrating"),
        Edge("Active", {"AgentFailed", "CoordinatorAbort", "TimeoutExceeded",
                        "BudgetExceeded"}, "Failed"),
        Edge("Blocked", {"AgentStarted"}, "Active"),
        Edge("Blocked", {"CoordinatorMigrate"}, "Migrating"),
        Edge("Blocked", {"CoordinatorSuspend"}, "Suspended"),
        Edge("Blocked", {"CoordinatorAbort", "TimeoutExceeded",
                         "BudgetExceeded"}, "Failed"),
        Edge("Migrating", {"MigrationSucceeded"}, "Active"),
        Edge("Migrating", {"MigrationSucceededBlocked"}, "Blocked"),
        Edge("Migrating", {"MigrationFailed", "CoordinatorAbort"}, "Failed"),
        Edge("Suspended", {"CoordinatorResume"}, "Active"),
        Edge("Suspended", {"CoordinatorAbort"}, "Failed"),
        Edge("Integrating", {"IntegrationSucceeded"}, "Closed"),
        Edge("Integrating", {"ConflictDetected"}, "Conflicted"),
        Edge("Integrating", {"IntegrationFailed"}, "Failed"),
        Edge("Conflicted", {"ConflictResolved"}, "Closed"),
        Edge("Conflicted", {"ConflictUnresolvable"}, "Failed") }

\* WorkspaceFsm::transition returns Ok exactly on an edge ...
IsLegal(state, trigger) ==
  \E to \in WorkspaceStates : <<state, trigger, to>> \in WorkspaceEdges

\* ... and then its target; on an error the caller keeps its state.
NextState(state, trigger) ==
  IF IsLegal(state, trigger)
  THEN CHOOSE to \in WorkspaceStates : <<state, trigger, to>> \in WorkspaceEdges
  ELSE state
=============================================================================
