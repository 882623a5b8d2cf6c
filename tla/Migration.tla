------------------------------ MODULE Migration ------------------------------
(***************************************************************************)
(* Agent migration: MigrationCoordinator and the three operations of the   *)
(* coordinator that use it, on top of Runtime.  No code of the runtime     *)
(* calls them yet, so their caller is part of the environment: like a      *)
(* request, a migration operation is taken when no event waits.            *)
(*                                                                         *)
(* The caller follows the documented procedure in one respect: it          *)
(* completes a migration only once the snapshot is there, because the new  *)
(* agent binds after it.  It may fail one at any time, for the timeout of  *)
(* check_timeouts or for any other reason.                                 *)
(***************************************************************************)
EXTENDS Runtime

CONSTANT NoMigration    \* no context in the map

VARIABLE migration      \* MigrationCoordinator.active

migrationVars == <<vars, migration>>

Contexts == [pre : {"Active", "Blocked"}, snapshot : BOOLEAN]

ASSUME NoMigrationAssumption == NoMigration \notin Contexts

Tracked(w) == migration[w] # NoMigration

TakeOperation ==
  /\ pc = "select"
  /\ events = <<>>
  /\ requests < MaxRequests
  /\ requests' = requests + 1
  /\ UNCHANGED <<actorVars, treeVars, taskVars, gateVars, escVars, toAbort>>

\* MigrationCoordinator::start, with the state the tree has for w.
Track(w) ==
  /\ tree[w] \in {"Active", "Blocked"}
  /\ ~Tracked(w)
  /\ migration' = [migration EXCEPT ![w] = [pre |-> tree[w], snapshot |-> FALSE]]

\* MigrationCoordinator::complete and ::fail
Untrack(w) ==
  /\ Tracked(w)
  /\ migration' = [migration EXCEPT ![w] = NoMigration]

\* start_migration
StartMigration(w) ==
  /\ TakeOperation
  /\ Track(w)
  /\ Forward(w, "coordinator", Command("MigrateBegin"))

\* complete_migration: the command says which state to restore, then the
\* context is removed.  Nothing else of the coordinator runs in between.
CompleteMigration(w) ==
  /\ TakeOperation
  /\ Untrack(w)
  /\ migration[w].snapshot
  /\ Forward(w, "coordinator", Command(IF migration[w].pre = "Blocked"
                                       THEN "MigrationCompleteBlocked"
                                       ELSE "MigrationComplete"))

\* Mutant: the actor is not told.
Mutant_FailSilently(w) ==
  /\ TakeOperation
  /\ Untrack(w)
  /\ UNCHANGED <<pc, send>>

\* fail_migration
FailMigration(w) ==
  /\ TakeOperation
  /\ Untrack(w)
  /\ Forward(w, "coordinator", Command("MigrationFailed"))

\* handle_event on a MigrationSnapshot: set_snapshot refuses an unknown
\* workspace and a second snapshot, and the refusal is ignored.
SetSnapshot(e) ==
  migration' = [migration EXCEPT ![e.ws] =
                  IF e.kind = "MigrationSnapshot" /\ @ # NoMigration
                  THEN [@ EXCEPT !.snapshot = TRUE] ELSE @]

-----------------------------------------------------------------------------

MigrationInit ==
  /\ Init
  /\ migration = [w \in Workspaces |-> NoMigration]

\* A step of the runtime; the events it handles include the snapshots.
RuntimeNext ==
  \/ HandleEvent /\ SetSnapshot(Head(events))
  \/ Next /\ ~HandleEvent /\ UNCHANGED migration

MigrationNext ==
  \/ RuntimeNext
  \/ \E w \in Workspaces :
       StartMigration(w) \/ CompleteMigration(w) \/ FailMigration(w)

MigrationSpec == MigrationInit /\ [][MigrationNext]_migrationVars

-----------------------------------------------------------------------------
(* Properties.                                                             *)

EndsMigration(cmd) ==
  cmd.kind \in {"MigrationComplete", "MigrationCompleteBlocked", "MigrationFailed"}

\* The commands on their way to w, the one being sent last.
Underway(w) ==
  IF pc = "sending" /\ send.ws = w /\ send.chan = "coordinator"
  THEN Append(coordQ[w], send.msg) ELSE coordQ[w]

\* No workspace is left frozen: a Migrating workspace is tracked by a context
\* (which the timeout will end), or the command that unfreezes it is underway.
FrozenIsTracked ==
  \A w \in Workspaces : status[w] = "Migrating" /\ ~Tracked(w) =>
    \E i \in DOMAIN Underway(w) : EndsMigration(Underway(w)[i])

\* The snapshot in a context stays true of the workspace: as long as the
\* context is there, the workspace is frozen or has failed.
SnapshotIsFrozen ==
  \A w \in Workspaces :
    Tracked(w) /\ migration[w].snapshot => status[w] \in {"Migrating", "Failed"}

\* "This is the state the workspace will return to on success": the state in
\* the context is the one the workspace leaves when it becomes Migrating.
RecordsPreState ==
  [][\A w \in Workspaces :
       /\ status[w] # "Migrating" /\ status'[w] = "Migrating"
       /\ Tracked(w)
       => migration[w].pre = status[w]]_migrationVars

=============================================================================
