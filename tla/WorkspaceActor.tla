--------------------------- MODULE WorkspaceActor ---------------------------
(***************************************************************************)
(* The workspace actors (crate wacp-workspace).  Each actor is a task that *)
(* owns its lifecycle state and two bounded channels: coordinator commands *)
(* and agent messages.  It takes commands before messages and reports      *)
(* everything it does on one bounded event channel that all actors share.  *)
(*                                                                         *)
(* A handler awaits every event it sends, so a full event channel stops    *)
(* the actor in the middle of a handler: the events it has still to send   *)
(* are its outbox, and it takes no further command before the outbox is    *)
(* empty.  Only the actor itself reads its state, so the state changes at  *)
(* the start of the handler and the sends follow.                          *)
(*                                                                         *)
(* Left out: the payloads, and the commands that touch only visibility or  *)
(* budget data (GrantVisibility, UpdateBudget) or nothing at all           *)
(* (GracefulTermination); no code outside the tests sends them.            *)
(***************************************************************************)
EXTENDS WorkspaceFsm, Naturals, Sequences

CONSTANTS Workspaces,   \* the workspace ids that may be created
          CoordCap,     \* capacity of an actor's command channel (64)
          AgentCap,     \* capacity of an actor's message channel (64)
          EventCap      \* capacity of the shared event channel (256)

ASSUME CapsAssumption ==
  /\ CoordCap \in Nat \ {0}
  /\ AgentCap \in Nat \ {0}
  /\ EventCap \in Nat \ {0}

VARIABLES phase,          \* the actor's task: unborn, running, exiting, exited
          status,         \* WorkspaceState.status
          firstEnvelope,  \* first_envelope_received
          inbox,          \* number of envelopes in the inbox
          checkpoints,    \* length of the checkpoint register
          coordQ,         \* coordinator_rx
          agentQ,         \* agent_rx
          outbox,         \* events of the current handler not yet sent
          events          \* event_rx, the channel all actors share

actorVars == <<phase, status, firstEnvelope, inbox, checkpoints,
               coordQ, agentQ, outbox, events>>

Phases == {"unborn", "running", "exiting", "exited"}

-----------------------------------------------------------------------------
(* Messages and events.  A command names the gate it answers (0: none), an *)
(* event the state, signal or checkpoint number it reports.                *)

\* The commands that only drive one FSM trigger.
CommandTrigger ==
  [Abort                    |-> "CoordinatorAbort",
   Suspend                  |-> "CoordinatorSuspend",
   Resume                   |-> "CoordinatorResume",
   MigrateBegin             |-> "CoordinatorMigrate",
   MigrationComplete        |-> "MigrationSucceeded",
   MigrationCompleteBlocked |-> "MigrationSucceededBlocked",
   MigrationFailed          |-> "MigrationFailed",
   IntegrationSucceeded     |-> "IntegrationSucceeded",
   IntegrationFailed        |-> "IntegrationFailed",
   ConflictDetected         |-> "ConflictDetected",
   ConflictResolved         |-> "ConflictResolved",
   ConflictUnresolvable     |-> "ConflictUnresolvable",
   CheckpointApproved       |-> "AgentStarted",
   CheckpointRejected       |-> "CoordinatorAbort"]

Commands == [kind : DOMAIN CommandTrigger \cup {"DeliverEnvelope"}, gate : Nat]

Command(k) == [kind |-> k, gate |-> 0]

\* The signals that drive a trigger.  Of the others, which only become Signal
\* events, Escalation is the one the runtime treats specially.
SignalTrigger ==
  [Started  |-> "AgentStarted",
   Blocked  |-> "AgentBlocked",
   Complete |-> "AgentComplete",
   Failed   |-> "AgentFailed"]

SignalTypes == DOMAIN SignalTrigger \cup {"Escalation"}

CheckpointStatuses == {"Provisional", "Final"}

AgentMessages ==
  [kind : {"EmitSignal"}, val : SignalTypes]
    \cup [kind : {"CreateCheckpoint"}, val : CheckpointStatuses]

Events ==
  [ws : Workspaces, kind : {"StateChanged", "Terminated"},
   val : WorkspaceStates, cp : Nat]
    \cup
  [ws : Workspaces, kind : {"Signal"},
   val : SignalTypes \cup {"Checkpoint"}, cp : Nat]
    \cup
  [ws : Workspaces, kind : {"CheckpointCreated", "Error", "MigrationSnapshot"},
   val : {""}, cp : Nat]

Event(w, k, v) == [ws |-> w, kind |-> k, val |-> v, cp |-> 0]

\* Mutant: the channel holds one message too many.
Mutant_RoomOffByOne(q, cap) == Len(q) <= cap

\* A bounded channel accepts a message; otherwise the sender waits.
Room(q, cap) == Len(q) < cap

\* Mutant: the event reports the state before the transition.
Mutant_ReportFrom(w, trigger) ==
  IF IsLegal(status[w], trigger)
  THEN Event(w, "StateChanged", status[w])
  ELSE Event(w, "Error", "")

\* transition(): the event that reports a trigger, legal or not.
TransitionEvent(w, trigger) ==
  IF IsLegal(status[w], trigger)
  THEN Event(w, "StateChanged", NextState(status[w], trigger))
  ELSE Event(w, "Error", "")

-----------------------------------------------------------------------------
(* The actor's steps.                                                      *)

\* The loop of run() is at its select: no handler is in progress.
Selecting(w) ==
  /\ phase[w] = "running"
  /\ outbox[w] = <<>>
  /\ status[w] \notin TerminalStates

\* Mutant: the snapshot is emitted even if the transition was refused.
Mutant_SnapshotAlways(w, cmd) ==
  LET trigger == CommandTrigger[cmd.kind]
      ev      == TransitionEvent(w, trigger)
      snap    == Event(w, "MigrationSnapshot", "")
  IN  /\ status' = [status EXCEPT ![w] = NextState(@, trigger)]
      /\ outbox' = [outbox EXCEPT ![w] =
                      IF cmd.kind = "MigrateBegin" THEN <<ev, snap>> ELSE <<ev>>]
      /\ UNCHANGED <<firstEnvelope, inbox>>

\* A command that drives a trigger; MigrateBegin also emits the snapshot
\* whenever the workspace is Migrating afterwards.
TriggerCommand(w, cmd) ==
  LET trigger == CommandTrigger[cmd.kind]
      target  == NextState(status[w], trigger)
      ev      == TransitionEvent(w, trigger)
      snap    == Event(w, "MigrationSnapshot", "")
  IN  /\ status' = [status EXCEPT ![w] = target]
      /\ outbox' = [outbox EXCEPT ![w] =
                      IF cmd.kind = "MigrateBegin" /\ target = "Migrating"
                      THEN <<ev, snap>> ELSE <<ev>>]
      /\ UNCHANGED <<firstEnvelope, inbox>>

\* DeliverEnvelope: the first one activates an Idle workspace.  The
\* duplicate check looks only at envelopes already popped from the inbox,
\* and the actor pops none.
DeliverEnvelope(w) ==
  LET first == ~firstEnvelope[w] /\ status[w] = "Idle"
  IN  /\ firstEnvelope' = [firstEnvelope EXCEPT ![w] = @ \/ first]
      /\ status' = [status EXCEPT ![w] =
                      IF first THEN NextState(@, "ReceiveFirstEnvelope") ELSE @]
      /\ outbox' = [outbox EXCEPT ![w] =
                      IF first THEN <<TransitionEvent(w, "ReceiveFirstEnvelope")>>
                               ELSE <<>>]
      /\ inbox' = [inbox EXCEPT ![w] = @ + 1]

\* handle_coordinator_cmd
HandleCommand(w) ==
  /\ Selecting(w)
  /\ coordQ[w] # <<>>
  /\ coordQ' = [coordQ EXCEPT ![w] = Tail(@)]
  /\ LET cmd == Head(coordQ[w])
     IN  IF cmd.kind = "DeliverEnvelope"
         THEN DeliverEnvelope(w)
         ELSE TriggerCommand(w, cmd)
  /\ UNCHANGED <<phase, checkpoints, agentQ, events>>

\* Mutant: a signal changes the state without reporting it.
Mutant_SilentSignal(w, sig) ==
  /\ status' = [status EXCEPT ![w] =
                  IF sig \in DOMAIN SignalTrigger
                  THEN NextState(@, SignalTrigger[sig]) ELSE @]
  /\ outbox' = [outbox EXCEPT ![w] = <<Event(w, "Signal", sig)>>]
  /\ UNCHANGED checkpoints

\* EmitSignal: the trigger, if the signal has one, then the Signal event.
EmitSignal(w, sig) ==
  LET hasTrigger == sig \in DOMAIN SignalTrigger
      signal     == Event(w, "Signal", sig)
  IN  /\ status' = [status EXCEPT ![w] =
                      IF hasTrigger THEN NextState(@, SignalTrigger[sig]) ELSE @]
      /\ outbox' = [outbox EXCEPT ![w] =
                      IF hasTrigger
                      THEN <<TransitionEvent(w, SignalTrigger[sig]), signal>>
                      ELSE <<signal>>]
      /\ UNCHANGED checkpoints

\* handle_create_checkpoint: register, report, signal, and block when the
\* checkpoint is provisional.  The register numbers its own checkpoints.
CreateCheckpoint(w, st) ==
  LET created == [Event(w, "CheckpointCreated", "") EXCEPT !.cp = checkpoints[w]]
      signal  == Event(w, "Signal", "Checkpoint")
      blocks  == st = "Provisional"
  IN  /\ checkpoints' = [checkpoints EXCEPT ![w] = @ + 1]
      /\ status' = [status EXCEPT ![w] =
                      IF blocks THEN NextState(@, "AgentBlocked") ELSE @]
      /\ outbox' = [outbox EXCEPT ![w] =
                      IF blocks
                      THEN <<created, signal, TransitionEvent(w, "AgentBlocked")>>
                      ELSE <<created, signal>>]

\* Mutant: the select is not biased towards commands.
Mutant_UnbiasedSelect(w) ==
  /\ Selecting(w)
  /\ agentQ[w] # <<>>
  /\ agentQ' = [agentQ EXCEPT ![w] = Tail(@)]
  /\ LET msg == Head(agentQ[w])
     IN  \/ /\ status[w] = "Migrating"
            /\ UNCHANGED <<status, outbox, checkpoints>>
         \/ /\ status[w] # "Migrating"
            /\ msg.kind = "EmitSignal"
            /\ EmitSignal(w, msg.val)
         \/ /\ status[w] # "Migrating"
            /\ msg.kind = "CreateCheckpoint"
            /\ CreateCheckpoint(w, msg.val)
  /\ UNCHANGED <<phase, firstEnvelope, inbox, coordQ, events>>

\* handle_agent_msg: the biased select takes a message only when no command
\* waits, and a Migrating workspace drops it.
HandleAgentMsg(w) ==
  /\ Selecting(w)
  /\ coordQ[w] = <<>>
  /\ agentQ[w] # <<>>
  /\ agentQ' = [agentQ EXCEPT ![w] = Tail(@)]
  /\ LET msg == Head(agentQ[w])
     IN  \/ /\ status[w] = "Migrating"
            /\ UNCHANGED <<status, outbox, checkpoints>>
         \/ /\ status[w] # "Migrating"
            /\ msg.kind = "EmitSignal"
            /\ EmitSignal(w, msg.val)
         \/ /\ status[w] # "Migrating"
            /\ msg.kind = "CreateCheckpoint"
            /\ CreateCheckpoint(w, msg.val)
  /\ UNCHANGED <<phase, firstEnvelope, inbox, coordQ, events>>

\* Mutant: archive() is taken of the tombstone that replaced the state.
Mutant_ArchiveTombstone(w) ==
  /\ phase[w] = "running"
  /\ outbox[w] = <<>>
  /\ status[w] \in TerminalStates
  /\ phase' = [phase EXCEPT ![w] = "exiting"]
  /\ outbox' = [outbox EXCEPT ![w] = <<Event(w, "Terminated", "Idle")>>]
  /\ UNCHANGED <<status, firstEnvelope, inbox, checkpoints, coordQ, agentQ, events>>

\* The top of run()'s loop in a terminal state: archive and report.
Terminate(w) ==
  /\ phase[w] = "running"
  /\ outbox[w] = <<>>
  /\ status[w] \in TerminalStates
  /\ phase' = [phase EXCEPT ![w] = "exiting"]
  /\ outbox' = [outbox EXCEPT ![w] = <<Event(w, "Terminated", status[w])>>]
  /\ UNCHANGED <<status, firstEnvelope, inbox, checkpoints, coordQ, agentQ, events>>

\* One awaited event_tx.send.  After the Terminated event the task returns
\* and drops its receivers, and with them whatever they still held.
SendEvent(w) ==
  LET returns == phase[w] = "exiting"
      Dropped(q) == IF returns THEN [q EXCEPT ![w] = <<>>] ELSE q
  IN  /\ outbox[w] # <<>>
      /\ Room(events, EventCap)
      /\ events' = Append(events, Head(outbox[w]))
      /\ outbox' = [outbox EXCEPT ![w] = Tail(@)]
      /\ phase' = [phase EXCEPT ![w] = IF returns THEN "exited" ELSE @]
      /\ coordQ' = Dropped(coordQ)
      /\ agentQ' = Dropped(agentQ)
      /\ UNCHANGED <<status, firstEnvelope, inbox, checkpoints>>

ActorStep(w) ==
  \/ HandleCommand(w)
  \/ HandleAgentMsg(w)
  \/ Terminate(w)
  \/ SendEvent(w)

-----------------------------------------------------------------------------
(* What the owner of the actors does with them.                            *)

ActorInit ==
  /\ phase = [w \in Workspaces |-> "unborn"]
  /\ status = [w \in Workspaces |-> "Idle"]
  /\ firstEnvelope = [w \in Workspaces |-> FALSE]
  /\ inbox = [w \in Workspaces |-> 0]
  /\ checkpoints = [w \in Workspaces |-> 0]
  /\ coordQ = [w \in Workspaces |-> <<>>]
  /\ agentQ = [w \in Workspaces |-> <<>>]
  /\ outbox = [w \in Workspaces |-> <<>>]
  /\ events = <<>>

\* spawn(): a fresh id gets an Idle actor with empty channels.
Spawn(w) ==
  /\ phase[w] = "unborn"
  /\ phase' = [phase EXCEPT ![w] = "running"]
  /\ UNCHANGED <<status, firstEnvelope, inbox, checkpoints,
                 coordQ, agentQ, outbox, events>>

\* The receiver is gone: a send to either channel returns an error.
Closed(w) == phase[w] = "exited"

ActorTypeOK ==
  /\ phase \in [Workspaces -> Phases]
  /\ status \in [Workspaces -> WorkspaceStates]
  /\ firstEnvelope \in [Workspaces -> BOOLEAN]
  /\ inbox \in [Workspaces -> Nat]
  /\ checkpoints \in [Workspaces -> Nat]
  /\ coordQ \in [Workspaces -> Seq(Commands)]
  /\ agentQ \in [Workspaces -> Seq(AgentMessages)]
  /\ outbox \in [Workspaces -> Seq(Events)]
  /\ events \in Seq(Events)
  /\ Len(events) <= EventCap
  /\ \A w \in Workspaces : Len(coordQ[w]) <= CoordCap /\ Len(agentQ[w]) <= AgentCap
=============================================================================
