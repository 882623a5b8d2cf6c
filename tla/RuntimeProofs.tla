--------------------------- MODULE RuntimeProofs ----------------------------
(***************************************************************************)
(* The runtime loop, the actors and the migrations, for any number of      *)
(* workspaces, tasks and requests and any channel capacities.              *)
(*                                                                         *)
(* Type correctness comes first: one lemma per action, then the induction. *)
(*                                                                         *)
(* What the coordinator knows of the actors: an actor changes its state    *)
(* only with an empty outbox, and whatever it then queues reports that     *)
(* state (Handles). So the newest report always carries the status         *)
(* (MirrorConsistent), a terminal report is only ever repeated             *)
(* (ReportsSettle), and Terminated, sent last, is handled last             *)
(* (ActorLifecycle).                                                       *)
(*                                                                         *)
(* The commands on their way from the loop to the actors are followed from *)
(* the request that starts the send, through the send the loop awaits and  *)
(* the actor's queue, to the actor that takes them. GateInv says that a    *)
(* gate id is in one of those places at most; StopInv that a workspace     *)
(* shutdown() has still to see end has an abort, or the answer of          *)
(* auto_integrate, in one of them.                                         *)
(*                                                                         *)
(* Migrations: no workspace stays frozen without a context or a command    *)
(* that ends it, and a snapshot in a context stays true of the workspace.  *)
(* Both follow from the order of the commands on their way. Balanced says  *)
(* that MigrateBegin and the commands that end a migration alternate       *)
(* there, so that no MigrateBegin reaches a workspace that is Migrating    *)
(* (the actor would emit a second snapshot). OneSnapshot and OneRestore    *)
(* say that there is one snapshot, and later one command that restores the *)
(* state, while the workspace is Migrating or has failed.                  *)
(***************************************************************************)
EXTENDS Migration, SequenceTheorems, TLAPS

\* What is put in an outbox is a short literal sequence.
LEMMA SeqLiterals ==
  ASSUME NEW S, NEW a \in S, NEW b \in S, NEW c \in S
  PROVE  <<a>> \in Seq(S) /\ <<a, b>> \in Seq(S) /\ <<a, b, c>> \in Seq(S)
OBVIOUS

\* A trigger, legal or not, leads to a workspace state.
LEMMA NextStateType ==
  ASSUME NEW s \in WorkspaceStates, NEW t
  PROVE  NextState(s, t) \in WorkspaceStates
BY DEF NextState, IsLegal

\* transition() reports a well-formed event.
LEMMA TransitionEventType ==
  ASSUME ActorTypeOK, NEW w \in Workspaces, NEW t
  PROVE  TransitionEvent(w, t) \in Events
<1>1. NextState(status[w], t) \in WorkspaceStates
  BY NextStateType DEF ActorTypeOK
<1> QED
  BY <1>1 DEF TransitionEvent, Event, Events

\* handle_coordinator_cmd keeps the actors' types.
LEMMA HandleCommandType ==
  ASSUME ActorTypeOK, NEW w \in Workspaces, HandleCommand(w)
  PROVE  ActorTypeOK'
<1> DEFINE cmd == Head(coordQ[w])
<1>1. cmd \in Commands /\ Tail(coordQ[w]) \in Seq(Commands)
      /\ Len(Tail(coordQ[w])) <= CoordCap
  BY CapsAssumption DEF ActorTypeOK, HandleCommand
<1>2. CASE cmd.kind = "DeliverEnvelope"
  <2>1. DeliverEnvelope(w)
    BY <1>2 DEF HandleCommand
  <2>2. NextState(status[w], "ReceiveFirstEnvelope") \in WorkspaceStates
    BY NextStateType DEF ActorTypeOK
  <2>3. TransitionEvent(w, "ReceiveFirstEnvelope") \in Events
    BY TransitionEventType
  <2> QED
    BY <1>1, <2>1, <2>2, <2>3 DEF HandleCommand, DeliverEnvelope, ActorTypeOK
<1>3. CASE cmd.kind # "DeliverEnvelope"
  <2> DEFINE trigger == CommandTrigger[cmd.kind]
  <2>1. TriggerCommand(w, cmd)
    BY <1>3 DEF HandleCommand
  <2>2. NextState(status[w], trigger) \in WorkspaceStates
    BY NextStateType DEF ActorTypeOK
  <2>3. TransitionEvent(w, trigger) \in Events
    BY TransitionEventType
  <2>4. Event(w, "MigrationSnapshot", "") \in Events
    BY DEF Event, Events
  <2>5. status' \in [Workspaces -> WorkspaceStates]
    BY <2>1, <2>2 DEF TriggerCommand, ActorTypeOK
  <2> DEFINE ev   == TransitionEvent(w, trigger)
             snap == Event(w, "MigrationSnapshot", "")
  <2>6. <<ev>> \in Seq(Events) /\ <<ev, snap>> \in Seq(Events)
    BY <2>3, <2>4, SeqLiterals
  <2>7. outbox' \in [Workspaces -> Seq(Events)]
    BY <2>1, <2>6 DEF TriggerCommand, ActorTypeOK
  <2> QED
    BY <1>1, <2>1, <2>5, <2>7 DEF HandleCommand, TriggerCommand, ActorTypeOK
<1> QED
  BY <1>2, <1>3

\* handle_agent_msg keeps the actors' types.
LEMMA HandleAgentMsgType ==
  ASSUME ActorTypeOK, NEW w \in Workspaces, HandleAgentMsg(w)
  PROVE  ActorTypeOK'
<1> DEFINE msg == Head(agentQ[w])
<1>1. msg \in AgentMessages /\ Tail(agentQ[w]) \in Seq(AgentMessages)
      /\ Len(Tail(agentQ[w])) <= AgentCap
  BY CapsAssumption DEF ActorTypeOK, HandleAgentMsg
<1>2. CASE status[w] = "Migrating" /\ UNCHANGED <<status, outbox, checkpoints>>
  BY <1>1, <1>2 DEF HandleAgentMsg, ActorTypeOK
<1>3. CASE msg.kind = "EmitSignal" /\ EmitSignal(w, msg.val)
  <2> DEFINE trigger == SignalTrigger[msg.val]
             signal  == Event(w, "Signal", msg.val)
             ev      == TransitionEvent(w, trigger)
  <2>1. msg.val \in SignalTypes
    BY <1>1, <1>3 DEF AgentMessages
  <2>2. NextState(status[w], trigger) \in WorkspaceStates
    BY NextStateType DEF ActorTypeOK
  <2>3. ev \in Events
    BY TransitionEventType
  <2>4. signal \in Events
    BY <2>1 DEF Event, Events
  <2>5. <<signal>> \in Seq(Events) /\ <<ev, signal>> \in Seq(Events)
    BY <2>3, <2>4, SeqLiterals
  <2>6. status' \in [Workspaces -> WorkspaceStates]
    BY <1>3, <2>2 DEF EmitSignal, ActorTypeOK
  <2>7. outbox' \in [Workspaces -> Seq(Events)]
    BY <1>3, <2>5 DEF EmitSignal, ActorTypeOK
  <2> QED
    BY <1>1, <1>3, <2>6, <2>7 DEF HandleAgentMsg, EmitSignal, ActorTypeOK
<1>4. CASE CreateCheckpoint(w, msg.val)
  <2> DEFINE created == [Event(w, "CheckpointCreated", "") EXCEPT !.cp = checkpoints[w]]
             signal  == Event(w, "Signal", "Checkpoint")
             ev      == TransitionEvent(w, "AgentBlocked")
  <2>1. created \in Events /\ signal \in Events
    BY DEF Event, Events, ActorTypeOK
  <2>2. ev \in Events
    BY TransitionEventType
  <2>3. <<created, signal>> \in Seq(Events) /\ <<created, signal, ev>> \in Seq(Events)
    BY <2>1, <2>2, SeqLiterals
  <2>4. NextState(status[w], "AgentBlocked") \in WorkspaceStates
    BY NextStateType DEF ActorTypeOK
  <2>5. status' \in [Workspaces -> WorkspaceStates]
    BY <1>4, <2>4 DEF CreateCheckpoint, ActorTypeOK
  <2>6. outbox' \in [Workspaces -> Seq(Events)]
    BY <1>4, <2>3 DEF CreateCheckpoint, ActorTypeOK
  <2>7. checkpoints' \in [Workspaces -> Nat]
    <3>1. checkpoints' = [checkpoints EXCEPT ![w] = checkpoints[w] + 1]
      BY <1>4 DEF CreateCheckpoint
    <3> QED
      BY <3>1 DEF ActorTypeOK
  <2> QED
    BY <1>1, <2>5, <2>6, <2>7 DEF HandleAgentMsg, ActorTypeOK
<1> QED
  BY <1>2, <1>3, <1>4 DEF HandleAgentMsg

\* The archiving turn of run() keeps the actors' types.
LEMMA TerminateType ==
  ASSUME ActorTypeOK, NEW w \in Workspaces, Terminate(w)
  PROVE  ActorTypeOK'
<1>1. Event(w, "Terminated", status[w]) \in Events
  BY DEF Event, Events, ActorTypeOK
<1>2. <<Event(w, "Terminated", status[w])>> \in Seq(Events)
  BY <1>1, SeqLiterals
<1> QED
  BY <1>2 DEF Terminate, ActorTypeOK, Phases

\* An event send keeps the types, and the channel within its capacity.
LEMMA SendEventType ==
  ASSUME ActorTypeOK, NEW w \in Workspaces, SendEvent(w)
  PROVE  ActorTypeOK'
<1>1. Head(outbox[w]) \in Events /\ Tail(outbox[w]) \in Seq(Events)
  BY DEF SendEvent, ActorTypeOK
<1>2. events' \in Seq(Events) /\ Len(events') <= EventCap
  BY <1>1, CapsAssumption DEF SendEvent, ActorTypeOK, Room
<1>3. \A v \in Workspaces : coordQ'[v] \in {coordQ[v], <<>>} /\ agentQ'[v] \in {agentQ[v], <<>>}
  BY DEF SendEvent, ActorTypeOK
<1>4. /\ coordQ' \in [Workspaces -> Seq(Commands)]
      /\ agentQ' \in [Workspaces -> Seq(AgentMessages)]
  BY DEF SendEvent, ActorTypeOK
<1>5. \A v \in Workspaces : Len(coordQ'[v]) <= CoordCap /\ Len(agentQ'[v]) <= AgentCap
  BY <1>3, CapsAssumption DEF ActorTypeOK
<1>6. /\ outbox' \in [Workspaces -> Seq(Events)]
      /\ phase' \in [Workspaces -> Phases]
  BY <1>1 DEF SendEvent, ActorTypeOK, Phases
<1> QED
  BY <1>2, <1>4, <1>5, <1>6 DEF SendEvent, ActorTypeOK

\* Every actor step keeps the actors' types.
LEMMA ActorStepType ==
  ASSUME ActorTypeOK, NEW w \in Workspaces, ActorStep(w)
  PROVE  ActorTypeOK'
BY HandleCommandType, HandleAgentMsgType, TerminateType, SendEventType DEF ActorStep

-----------------------------------------------------------------------------
(* Type correctness.                                                       *)

\* A task trigger, legal or not, leads to a task state.
LEMMA TaskNextType ==
  ASSUME NEW s \in TaskStates, NEW t
  PROVE  TaskNext(s, t) \in TaskStates
BY DEF TaskNext, TaskLegal

\* A runtime that has just started is well typed.
LEMMA InitType == Init => TypeOK
BY CapsAssumption
   DEF Init, ActorInit, TypeOK, ActorTypeOK, Phases, WorkspaceStates, Absent, NoSend

\* The send variable when a handler starts a send.
LEMMA StartSendType ==
  ASSUME NEW w \in Workspaces, NEW chan, NEW msg, NEW g \in BOOLEAN, NEW back,
         \/ chan = "coordinator" /\ msg \in Commands
            /\ back \in {"select", "aborting", "draining"}
         \/ chan = "agent" /\ msg \in AgentMessages /\ back = "select",
         StartSend(w, chan, msg, g, back)
  PROVE  pc' = "sending" /\ send' \in SendRecords
BY DEF StartSend, SendRecords

\* A command without a gate is a command.
LEMMA CommandType ==
  ASSUME NEW k \in DOMAIN CommandTrigger \cup {"DeliverEnvelope"}
  PROVE  Command(k) \in Commands
BY DEF Command, Commands

\* A completed send keeps the channels within their capacities.
LEMMA CompleteSendType == TypeOK /\ CompleteSend => TypeOK'
<1> SUFFICES ASSUME TypeOK, CompleteSend PROVE TypeOK'
  OBVIOUS
<1>1. send \in SendRecords /\ send.ws \in Workspaces /\ send.back \in {"select", "aborting", "draining"}
  BY DEF TypeOK, CompleteSend, SendRecords
<1> DEFINE w == send.ws
<1>2. /\ send.chan = "coordinator" => send.msg \in Commands
      /\ send.chan = "agent" => send.msg \in AgentMessages
  BY <1>1 DEF SendRecords
<1>3. /\ coordQ' \in [Workspaces -> Seq(Commands)]
      /\ agentQ' \in [Workspaces -> Seq(AgentMessages)]
      /\ \A v \in Workspaces : Len(coordQ'[v]) <= CoordCap /\ Len(agentQ'[v]) <= AgentCap
  <2>1. CASE UNCHANGED <<coordQ, agentQ>>
    BY <2>1 DEF TypeOK, ActorTypeOK
  <2>2. CASE /\ send.chan = "coordinator"
             /\ Room(coordQ[w], CoordCap)
             /\ coordQ' = [coordQ EXCEPT ![w] = Append(@, send.msg)]
             /\ UNCHANGED agentQ
    <3>1. /\ Append(coordQ[w], send.msg) \in Seq(Commands)
          /\ Len(Append(coordQ[w], send.msg)) = Len(coordQ[w]) + 1
      BY <1>1, <1>2, <2>2 DEF TypeOK, ActorTypeOK
    <3> QED
      BY <1>1, <2>2, <3>1, CapsAssumption DEF TypeOK, ActorTypeOK, Room
  <2>3. CASE /\ send.chan = "agent"
             /\ Room(agentQ[w], AgentCap)
             /\ agentQ' = [agentQ EXCEPT ![w] = Append(@, send.msg)]
             /\ UNCHANGED coordQ
    <3>1. /\ Append(agentQ[w], send.msg) \in Seq(AgentMessages)
          /\ Len(Append(agentQ[w], send.msg)) = Len(agentQ[w]) + 1
      BY <1>1, <1>2, <2>3 DEF TypeOK, ActorTypeOK
    <3> QED
      BY <1>1, <2>3, <3>1, CapsAssumption DEF TypeOK, ActorTypeOK, Room
  <2> QED
    BY <2>1, <2>2, <2>3 DEF CompleteSend
<1>4. gates' \subseteq Gates /\ nextGate' \in Nat
  BY <1>1 DEF TypeOK, CompleteSend, OpenCheckpointGate, Gates
<1>5. pc' = send.back /\ send' = NoSend
  BY DEF CompleteSend
<1> QED
  BY <1>1, <1>3, <1>4, <1>5
     DEF TypeOK, ActorTypeOK, CompleteSend, treeVars, taskVars, escVars

\* Handling an event keeps the types, the send it may start included.
LEMMA HandleEventType == TypeOK /\ HandleEvent => TypeOK'
<1> SUFFICES ASSUME TypeOK, HandleEvent PROVE TypeOK'
  OBVIOUS
<1> DEFINE e == Head(events)
<1>1. e \in Events /\ Tail(events) \in Seq(Events) /\ Len(Tail(events)) <= EventCap
  BY CapsAssumption DEF TypeOK, ActorTypeOK, HandleEvent
<1>2. ActorTypeOK'
  BY <1>1 DEF TypeOK, ActorTypeOK, HandleEvent
<1>3. e.ws \in Workspaces
  BY <1>1 DEF Events
<1>4. pc \in {"select", "draining"} /\ send = NoSend
  BY DEF HandleEvent, TypeOK
<1>5. /\ tree' \in [Workspaces -> WorkspaceStates \cup {Absent}]
      /\ handles' \subseteq Workspaces
      /\ lastCp' \subseteq Workspaces
      /\ escalations' \subseteq Gates
      /\ nextEsc' \in Nat
      /\ pc' \in {"select", "sending", "draining"}
      /\ IF pc' = "sending" THEN send' \in SendRecords ELSE send' = NoSend
  <2>1. CASE OnStateChanged(e)
    <3>1. e.val \in WorkspaceStates
      BY <1>1, <2>1 DEF Events, OnStateChanged
    <3>2. tree' \in [Workspaces -> WorkspaceStates \cup {Absent}]
      BY <1>3, <2>1, <3>1 DEF OnStateChanged, TypeOK
    <3>3. \/ UNCHANGED <<pc, send>>
          \/ StartSend(e.ws, "coordinator", Command("IntegrationSucceeded"), FALSE, pc)
      BY <2>1 DEF OnStateChanged, AutoIntegrate
    <3>4. Command("IntegrationSucceeded") \in Commands
      BY CommandType DEF CommandTrigger
    <3>5. /\ pc' \in {"select", "sending", "draining"}
          /\ IF pc' = "sending" THEN send' \in SendRecords ELSE send' = NoSend
      BY <1>3, <1>4, <3>3, <3>4, StartSendType
    <3> QED
      BY <2>1, <3>2, <3>5 DEF OnStateChanged, TypeOK, escVars
  <2>2. CASE OnCheckpointCreated(e)
    BY <1>3, <1>4, <2>2 DEF OnCheckpointCreated, TypeOK, escVars
  <2>3. CASE OnTerminated(e)
    <3>1. e.val \in WorkspaceStates
      BY <1>1, <2>3 DEF Events, OnTerminated
    <3> QED
      BY <1>3, <1>4, <2>3, <3>1 DEF OnTerminated, TypeOK, escVars
  <2>4. CASE OnSignal(e)
    BY <1>3, <1>4, <2>4 DEF OnSignal, TypeOK, escVars, Gates
  <2>5. CASE OnOther(e)
    BY <1>4, <2>5 DEF OnOther, TypeOK, escVars
  <2> QED
    BY <2>1, <2>2, <2>3, <2>4, <2>5 DEF HandleEvent
<1> QED
  BY <1>2, <1>5 DEF TypeOK, HandleEvent, taskVars, gateVars

\* What Take leaves of the loop's variables.
LEMMA TakeFacts ==
  ASSUME TypeOK, NEW op, Take(op)
  PROVE  /\ pc = "select" /\ send = NoSend
         /\ requests' \in Nat /\ toAbort' = toAbort
BY DEF Take, TypeOK

\* A handler that forwards, if it has a handle.
LEMMA ForwardType ==
  ASSUME TypeOK, pc = "select", send = NoSend,
         NEW w \in Workspaces, NEW chan, NEW msg,
         \/ chan = "coordinator" /\ msg \in Commands
         \/ chan = "agent" /\ msg \in AgentMessages,
         Forward(w, chan, msg)
  PROVE  /\ pc' \in {"select", "sending"}
         /\ IF pc' = "sending" THEN send' \in SendRecords ELSE send' = NoSend
<1>1. CASE w \in handles
  BY <1>1, StartSendType DEF Forward
<1>2. CASE w \notin handles
  BY <1>2 DEF Forward
<1> QED
  BY <1>1, <1>2

\* Coordinator::dispatch keeps the types.
LEMMA DispatchWorkspaceType ==
  ASSUME TypeOK, NEW t \in Tasks, NEW w \in Workspaces, DispatchWorkspace(t, w)
  PROVE  /\ ActorTypeOK'
         /\ tree' \in [Workspaces -> WorkspaceStates \cup {Absent}]
         /\ handles' \subseteq Workspaces
         /\ taskOf' \in [Workspaces -> Tasks \cup {NoTask}]
         /\ lastCp' = lastCp
<1>1. ActorTypeOK'
  BY DEF TypeOK, ActorTypeOK, DispatchWorkspace, Spawn, Phases
<1>2. "Idle" \in WorkspaceStates
  BY DEF WorkspaceStates
<1> QED
  BY <1>1, <1>2 DEF TypeOK, DispatchWorkspace

\* Decompose keeps the types.
LEMMA DecomposeType ==
  ASSUME TypeOK, NEW t \in Tasks, Decompose(t)
  PROVE  TypeOK'
<1>1. TaskNext("Draft", "Approve") \in TaskStates
  BY TaskNextType DEF TaskStates
<1> QED
  BY <1>1, TakeFacts
     DEF Decompose, TypeOK, ActorTypeOK, actorVars, treeVars, gateVars, escVars

\* SubmitGoal and Dispatch keep the types.
LEMMA SpawningRequestsType ==
  ASSUME TypeOK, NEW t \in Tasks, NEW w \in Workspaces,
         SubmitGoal(t, w) \/ Dispatch(t, w)
  PROVE  TypeOK'
<1> DEFINE pending == TaskNext("Draft", "Approve")
<1>1. "Draft" \in TaskStates
  BY DEF TaskStates
<1>2. pending \in TaskStates /\ TaskNext(pending, "Assign") \in TaskStates
  BY <1>1, TaskNextType
<1>3. CASE SubmitGoal(t, w)
  BY <1>2, <1>3, DispatchWorkspaceType, TakeFacts
     DEF SubmitGoal, TypeOK, gateVars, escVars
<1>4. CASE Dispatch(t, w)
  <2>1. task[t] \in TaskStates
    BY <1>4 DEF Dispatch, TypeOK
  <2>2. TaskNext(task[t], "Assign") \in TaskStates
    BY <2>1, TaskNextType
  <2> QED
    BY <1>4, <2>2, DispatchWorkspaceType, TakeFacts
       DEF Dispatch, BindAndAssign, TypeOK, gateVars, escVars
<1> QED
  BY <1>3, <1>4

\* CancelTask keeps the types.
LEMMA CancelTaskType ==
  ASSUME TypeOK, NEW t \in Tasks, CancelTask(t)
  PROVE  TypeOK'
<1>1. pc = "select" /\ send = NoSend /\ requests' \in Nat /\ toAbort' = toAbort
  BY TakeFacts DEF CancelTask
<1>2. task[t] \in TaskStates
  BY DEF CancelTask, TypeOK
<1>3. task' \in [Tasks -> TaskStates \cup {Absent}]
  BY <1>2, TaskNextType DEF CancelTask, TypeOK
<1>4. Command("Abort") \in Commands
  BY CommandType DEF CommandTrigger
<1>5. wsRef[t] # NoWs => wsRef[t] \in Workspaces
  BY DEF TypeOK
<1>6. /\ pc' \in {"select", "sending"}
      /\ IF pc' = "sending" THEN send' \in SendRecords ELSE send' = NoSend
  <2>1. CASE TaskLegal(task[t], "Cancel") /\ wsRef[t] # NoWs
    BY <1>1, <1>4, <1>5, <2>1, ForwardType DEF CancelTask
  <2>2. CASE ~(TaskLegal(task[t], "Cancel") /\ wsRef[t] # NoWs)
    BY <1>1, <2>2 DEF CancelTask
  <2> QED
    BY <2>1, <2>2
<1> QED
  BY <1>1, <1>3, <1>6
     DEF CancelTask, TypeOK, ActorTypeOK, actorVars, treeVars, gateVars, escVars

\* A request that forwards a command keeps the types.
LEMMA CommandRequestType ==
  ASSUME TypeOK, NEW op, NEW w \in Workspaces,
         NEW k \in DOMAIN CommandTrigger \cup {"DeliverEnvelope"},
         CommandRequest(op, w, k)
  PROVE  TypeOK'
<1>1. /\ pc' \in {"select", "sending"}
      /\ IF pc' = "sending" THEN send' \in SendRecords ELSE send' = NoSend
  BY TakeFacts, CommandType, ForwardType DEF CommandRequest
<1> QED
  BY <1>1, TakeFacts
     DEF CommandRequest, TypeOK, ActorTypeOK, actorVars, treeVars, taskVars,
         gateVars, escVars

\* EmitSignal requests keep the types.
LEMMA AgentSignalType ==
  ASSUME TypeOK, NEW w \in Workspaces, NEW sig \in SignalTypes, AgentSignal(w, sig)
  PROVE  TypeOK'
<1>1. [kind |-> "EmitSignal", val |-> sig] \in AgentMessages
  BY DEF AgentMessages
<1>2. /\ pc' \in {"select", "sending"}
      /\ IF pc' = "sending" THEN send' \in SendRecords ELSE send' = NoSend
  BY <1>1, TakeFacts, ForwardType DEF AgentSignal
<1> QED
  BY <1>2, TakeFacts
     DEF AgentSignal, TypeOK, ActorTypeOK, actorVars, treeVars, taskVars,
         gateVars, escVars

\* CreateCheckpoint requests keep the types.
LEMMA AgentCheckpointType ==
  ASSUME TypeOK, NEW w \in Workspaces, NEW wire \in CheckpointStatuses \cup {"Unspecified"},
         AgentCheckpoint(w, wire)
  PROVE  TypeOK'
<1> DEFINE msg   == [kind |-> "CreateCheckpoint", val |-> FromWireStatus(wire)]
           gated == wire = "Provisional" /\ tree[w] # Absent
<1>1. msg \in AgentMessages
  BY DEF AgentMessages, FromWireStatus, CheckpointStatuses
<1>2. pc = "select" /\ send = NoSend /\ requests' \in Nat /\ toAbort' = toAbort
  BY TakeFacts DEF AgentCheckpoint
<1>3. /\ pc' \in {"select", "sending"}
      /\ IF pc' = "sending" THEN send' \in SendRecords ELSE send' = NoSend
  BY <1>1, <1>2, StartSendType DEF AgentCheckpoint
<1>4. gates' \subseteq Gates /\ nextGate' \in Nat
  BY DEF AgentCheckpoint, OpenCheckpointGate, TypeOK, Gates
<1>5. cpIndex' \in Seq(Workspaces)
  BY DEF AgentCheckpoint, TypeOK
<1> QED
  BY <1>2, <1>3, <1>4, <1>5
     DEF AgentCheckpoint, TypeOK, ActorTypeOK, actorVars, treeVars, taskVars, escVars

\* Answering a gate or an escalation keeps the types.
LEMMA RespondType ==
  ASSUME TypeOK
  PROVE  /\ \A g \in gates, op \in {"Approve", "Reject"} : RespondToGate(g, op) => TypeOK'
         /\ \A x \in escalations, op \in {"EscFeedback", "EscAbort", "EscDelegate"} :
              RespondToEscalation(x, op) => TypeOK'
<1>1. ASSUME NEW g \in gates, NEW op \in {"Approve", "Reject"}, RespondToGate(g, op)
      PROVE  TypeOK'
  <2> DEFINE cmd == [kind |-> IF op = "Approve" THEN "CheckpointApproved"
                                                ELSE "CheckpointRejected",
                     gate |-> g.id]
  <2>1. g.ws \in Workspaces /\ g.id \in Nat
    BY DEF TypeOK, Gates
  <2>2. cmd \in Commands
    BY <2>1 DEF Commands, CommandTrigger
  <2>3. pc = "select" /\ send = NoSend /\ requests' \in Nat /\ toAbort' = toAbort
    BY <1>1, TakeFacts DEF RespondToGate
  <2>4. Forward(g.ws, "coordinator", cmd)
    BY <1>1 DEF RespondToGate
  <2>5. /\ pc' \in {"select", "sending"}
        /\ IF pc' = "sending" THEN send' \in SendRecords ELSE send' = NoSend
    BY <2>1, <2>2, <2>3, <2>4, ForwardType
  <2> QED
    BY <1>1, <2>3, <2>5
       DEF RespondToGate, TypeOK, ActorTypeOK, actorVars, treeVars, taskVars, escVars
<1>2. ASSUME NEW x \in escalations, NEW op \in {"EscFeedback", "EscAbort", "EscDelegate"},
             RespondToEscalation(x, op)
      PROVE  TypeOK'
  <2>1. x.ws \in Workspaces
    BY DEF TypeOK, Gates
  <2>2. Command("DeliverEnvelope") \in Commands /\ Command("Abort") \in Commands
    BY CommandType DEF CommandTrigger
  <2>3. pc = "select" /\ send = NoSend /\ requests' \in Nat /\ toAbort' = toAbort
    BY <1>2, TakeFacts DEF RespondToEscalation
  <2>4. \/ Forward(x.ws, "coordinator", Command("DeliverEnvelope"))
        \/ Forward(x.ws, "coordinator", Command("Abort"))
        \/ UNCHANGED <<pc, send>>
    BY <1>2 DEF RespondToEscalation
  <2>5. /\ pc' \in {"select", "sending"}
        /\ IF pc' = "sending" THEN send' \in SendRecords ELSE send' = NoSend
    BY <2>1, <2>2, <2>3, <2>4, ForwardType
  <2> QED
    BY <1>2, <2>3, <2>5
       DEF RespondToEscalation, TypeOK, ActorTypeOK, actorVars, treeVars, taskVars, gateVars
<1> QED
  BY <1>1, <1>2

\* The steps of shutdown() keep the types.
LEMMA ShutdownType ==
  ASSUME TypeOK
  PROVE  /\ Shutdown => TypeOK'
         /\ \A w \in Workspaces : AbortNext(w) => TypeOK'
         /\ BeginDrain \/ DrainTimeout => TypeOK'
<1>1. ASSUME Shutdown PROVE TypeOK'
  BY <1>1 DEF Shutdown, TypeOK, ActorTypeOK, actorVars, treeVars, taskVars, gateVars, escVars
<1>2. ASSUME NEW w \in Workspaces, AbortNext(w) PROVE TypeOK'
  <2>1. Command("Abort") \in Commands
    BY CommandType DEF CommandTrigger
  <2>2. /\ pc' \in {"aborting", "sending"}
        /\ IF pc' = "sending" THEN send' \in SendRecords ELSE send' = NoSend
    BY <1>2, <2>1, StartSendType DEF AbortNext, TypeOK
  <2> QED
    BY <1>2, <2>2
       DEF AbortNext, TypeOK, ActorTypeOK, actorVars, treeVars, taskVars, gateVars, escVars
<1>3. ASSUME BeginDrain \/ DrainTimeout PROVE TypeOK'
  BY <1>3
     DEF BeginDrain, DrainTimeout, TypeOK, ActorTypeOK, actorVars, treeVars, taskVars,
         gateVars, escVars
<1> QED
  BY <1>1, <1>2, <1>3

\* An actor step of the composed system keeps the types.
LEMMA ActorNextType ==
  ASSUME TypeOK, NEW w \in Workspaces, ActorNext(w)
  PROVE  TypeOK'
<1>1. ActorTypeOK'
  BY ActorStepType DEF ActorNext, TypeOK
<1> QED
  BY <1>1 DEF ActorNext, TypeOK, treeVars, taskVars, gateVars, escVars, loopVars

\* Every request keeps the types.
LEMMA RequestType == TypeOK /\ RequestNext => TypeOK'
<1> SUFFICES ASSUME TypeOK, RequestNext PROVE TypeOK'
  OBVIOUS
<1>1. CASE \E t \in Tasks, w \in Workspaces : SubmitGoal(t, w) \/ Dispatch(t, w)
  BY <1>1, SpawningRequestsType
<1>2. CASE \E t \in Tasks : Decompose(t) \/ CancelTask(t)
  BY <1>2, DecomposeType, CancelTaskType
<1>3. ASSUME NEW w \in Workspaces,
             \/ AbortWorkspace(w) \/ SuspendWorkspace(w) \/ ResumeWorkspace(w)
             \/ TriggerIntegration(w)
             \/ SendDirective(w) \/ SendFeedback(w) \/ InjectEnvelope(w) \/ SendEnvelope(w)
      PROVE  TypeOK'
  BY <1>3, CommandRequestType
     DEF CommandTrigger, AbortWorkspace, SuspendWorkspace, ResumeWorkspace,
         TriggerIntegration, SendDirective, SendFeedback, InjectEnvelope, SendEnvelope
<1>4. CASE \E w \in Workspaces : \E sig \in SignalTypes : AgentSignal(w, sig)
  BY <1>4, AgentSignalType
<1>5. CASE \E w \in Workspaces : \E wire \in CheckpointStatuses \cup {"Unspecified"} :
             AgentCheckpoint(w, wire)
  BY <1>5, AgentCheckpointType
<1> QED
  BY <1>1, <1>2, <1>3, <1>4, <1>5, RespondType, ShutdownType DEF RequestNext

\* Every step keeps the types.
LEMMA NextType == TypeOK /\ [Next]_vars => TypeOK'
<1> SUFFICES ASSUME TypeOK, [Next]_vars PROVE TypeOK'
  OBVIOUS
<1>1. CASE UNCHANGED vars
  BY <1>1 DEF TypeOK, ActorTypeOK, vars, actorVars, treeVars, taskVars, gateVars,
              escVars, loopVars
<1>2. CASE Next
  BY <1>2, ActorNextType, HandleEventType, CompleteSendType, RequestType, ShutdownType
     DEF Next, LoopNext
<1> QED
  BY <1>1, <1>2

\* Every variable keeps its type: no channel ever holds more than its
\* capacity, and the awaited send is well formed exactly while the loop is
\* sending.
THEOREM TypeCorrect == Spec => []TypeOK
BY InitType, NextType, PTL DEF Spec

-----------------------------------------------------------------------------
(* What the coordinator knows of the actors                                *)

\* The part of the state these proofs are about.
mirrorVars == <<phase, status, outbox, events, tree, handles, lastCp>>

\* What a turn of an actor's loop that takes w to s may leave to send: events
\* of w, of which the only report, if the state changed, is of s.
Announces(w, s, q) ==
  /\ \A i \in 1..Len(q) : /\ q[i].ws = w
                          /\ q[i].kind # "Terminated"
                          /\ Reports(q[i], w) => q[i].val = s
  /\ \/ s = status[w] /\ NoReport(q, w)
     \/ LastReport(q, w, s)

\* One turn of an actor's loop, as far as its reports go.
Handles(w, s, q) ==
  /\ phase[w] = "running" /\ outbox[w] = <<>> /\ status[w] \notin TerminalStates
  /\ status' = [status EXCEPT ![w] = s]
  /\ outbox' = [outbox EXCEPT ![w] = q]
  /\ UNCHANGED <<phase, events>>
  /\ Announces(w, s, q)

\* A plain event of w: not a report.
Plain(e, w) == e.ws = w /\ e.kind \notin {"StateChanged", "Terminated"}

\* Events that report no state announce an unchanged state.
LEMMA PlainAnnounced ==
  ASSUME NEW w, NEW a, NEW b, Plain(a, w), Plain(b, w)
  PROVE  /\ Announces(w, status[w], <<>>)
         /\ Announces(w, status[w], <<a>>)
         /\ Announces(w, status[w], <<a, b>>)
<1>1. \A i \in 1..Len(<<a, b>>) : (<<a, b>>)[i] \in {a, b}
  OBVIOUS
<1>2. \A i \in 1..Len(<<a>>) : (<<a>>)[i] = a
  OBVIOUS
<1>3. Len(<<>>) = 0
  OBVIOUS
<1> QED
  BY <1>1, <1>2, <1>3 DEF Announces, NoReport, Reports, Plain

\* transition() reports the new state, or an error and keeps the old one.
LEMMA TransitionEventFacts ==
  ASSUME ActorTypeOK, NEW w \in Workspaces, NEW t
  PROVE  /\ TransitionEvent(w, t).ws = w
         /\ \/ /\ TransitionEvent(w, t).kind = "StateChanged"
               /\ TransitionEvent(w, t).val = NextState(status[w], t)
            \/ /\ TransitionEvent(w, t).kind = "Error"
               /\ NextState(status[w], t) = status[w]
BY DEF TransitionEvent, Event, NextState

\* Each of the three outboxes with a transition in it announces its target.
LEMMA TransitionAnnounced ==
  ASSUME ActorTypeOK, NEW w \in Workspaces, NEW t,
         NEW a, NEW b, Plain(a, w), Plain(b, w)
  PROVE  LET te == TransitionEvent(w, t)
             s  == NextState(status[w], t)
         IN  /\ Announces(w, s, <<te>>)
             /\ Announces(w, s, <<te, a>>)
             /\ Announces(w, s, <<a, b, te>>)
<1> DEFINE te == TransitionEvent(w, t)
           s  == NextState(status[w], t)
<1>1. /\ te.ws = w
      /\ \/ te.kind = "StateChanged" /\ te.val = s
         \/ te.kind = "Error" /\ s = status[w]
  BY TransitionEventFacts
<1> HIDE DEF te, s
<1>2. Len(<<te>>) = 1 /\ (<<te>>)[1] = te
  OBVIOUS
<1>3. Len(<<te, a>>) = 2 /\ (<<te, a>>)[1] = te /\ (<<te, a>>)[2] = a
  OBVIOUS
<1>4. /\ Len(<<a, b, te>>) = 3
      /\ (<<a, b, te>>)[1] = a /\ (<<a, b, te>>)[2] = b /\ (<<a, b, te>>)[3] = te
  OBVIOUS
<1>5. Announces(w, s, <<te>>)
  BY <1>1, <1>2 DEF Announces, NoReport, LastReport, Reports
<1>6. Announces(w, s, <<te, a>>)
  BY <1>1, <1>3 DEF Announces, NoReport, LastReport, Reports, Plain
<1>7. Announces(w, s, <<a, b, te>>)
  BY <1>1, <1>4 DEF Announces, NoReport, LastReport, Reports, Plain
<1> QED
  BY <1>5, <1>6, <1>7 DEF te, s

\* handle_coordinator_cmd announces the state it leaves the workspace in.
LEMMA HandleCommandHandles ==
  ASSUME TypeOK, NEW w \in Workspaces, HandleCommand(w)
  PROVE  \E s \in WorkspaceStates : \E q : Handles(w, s, q)
<1> DEFINE cmd  == Head(coordQ[w])
           snap == Event(w, "MigrationSnapshot", "")
<1>1. ActorTypeOK
  BY DEF TypeOK
<1>2. /\ phase[w] = "running" /\ outbox[w] = <<>> /\ status[w] \notin TerminalStates
      /\ UNCHANGED <<phase, events>>
  BY DEF HandleCommand, Selecting
<1>3. Plain(snap, w)
  BY DEF Plain, Event
<1>4. CASE cmd.kind = "DeliverEnvelope"
  <2> DEFINE t  == "ReceiveFirstEnvelope"
  <2>1. DeliverEnvelope(w)
    BY <1>4 DEF HandleCommand
  <2>2. CASE ~firstEnvelope[w] /\ status[w] = "Idle"
    <3>1. NextState(status[w], t) \in WorkspaceStates
      BY <1>1, NextStateType DEF ActorTypeOK
    <3>2. Announces(w, NextState(status[w], t), <<TransitionEvent(w, t)>>)
      BY <1>1, <1>3, TransitionAnnounced
    <3>3. Handles(w, NextState(status[w], t), <<TransitionEvent(w, t)>>)
      BY <1>1, <1>2, <2>1, <2>2, <3>2 DEF Handles, DeliverEnvelope, ActorTypeOK
    <3> QED
      BY <3>1, <3>3
  <2>3. CASE ~(~firstEnvelope[w] /\ status[w] = "Idle")
    <3>1. Announces(w, status[w], <<>>)
      BY <1>3, PlainAnnounced
    <3>2. Handles(w, status[w], <<>>)
      BY <1>1, <1>2, <2>1, <2>3, <3>1 DEF Handles, DeliverEnvelope, ActorTypeOK
    <3> QED
      BY <1>1, <3>2 DEF ActorTypeOK
  <2> QED
    BY <2>2, <2>3
<1>5. CASE cmd.kind # "DeliverEnvelope"
  <2> DEFINE t == CommandTrigger[cmd.kind]
             s == NextState(status[w], t)
             q == IF cmd.kind = "MigrateBegin" /\ s = "Migrating"
                  THEN <<TransitionEvent(w, t), snap>> ELSE <<TransitionEvent(w, t)>>
  <2>1. TriggerCommand(w, cmd)
    BY <1>5 DEF HandleCommand
  <2>2. status' = [status EXCEPT ![w] = s] /\ outbox' = [outbox EXCEPT ![w] = q]
    BY <2>1 DEF TriggerCommand
  <2>3. s \in WorkspaceStates
    BY <1>1, NextStateType DEF ActorTypeOK
  <2>4. Announces(w, s, q)
    BY <1>1, <1>3, TransitionAnnounced
  <2>5. Handles(w, s, q)
    BY <1>2, <2>2, <2>4 DEF Handles
  <2> QED
    BY <2>3, <2>5
<1> QED
  BY <1>4, <1>5

\* handle_agent_msg does so too, whether it drops the message or not.
LEMMA HandleAgentMsgHandles ==
  ASSUME TypeOK, NEW w \in Workspaces, HandleAgentMsg(w)
  PROVE  \E s \in WorkspaceStates : \E q : Handles(w, s, q)
<1> DEFINE msg == Head(agentQ[w])
<1>1. ActorTypeOK
  BY DEF TypeOK
<1>2. /\ phase[w] = "running" /\ outbox[w] = <<>> /\ status[w] \notin TerminalStates
      /\ UNCHANGED <<phase, events>>
  BY DEF HandleAgentMsg, Selecting
<1>3. status[w] \in WorkspaceStates
  BY <1>1 DEF ActorTypeOK
<1>4. CASE UNCHANGED <<status, outbox, checkpoints>>
  <2>1. Announces(w, status[w], <<>>)
    BY PlainAnnounced DEF Announces, NoReport
  <2>2. Handles(w, status[w], <<>>)
    BY <1>1, <1>2, <1>4, <2>1 DEF Handles, ActorTypeOK
  <2> QED
    BY <1>3, <2>2
<1>5. CASE EmitSignal(w, msg.val)
  <2> DEFINE t      == SignalTrigger[msg.val]
             signal == Event(w, "Signal", msg.val)
             te     == TransitionEvent(w, t)
  <2>1. Plain(signal, w)
    BY DEF Plain, Event
  <2>2. CASE msg.val \in DOMAIN SignalTrigger
    <3>1. /\ status' = [status EXCEPT ![w] = NextState(status[w], t)]
          /\ outbox' = [outbox EXCEPT ![w] = <<te, signal>>]
      BY <1>5, <2>2 DEF EmitSignal
    <3>2. Announces(w, NextState(status[w], t), <<te, signal>>)
      BY <1>1, <2>1, TransitionAnnounced
    <3>3. Handles(w, NextState(status[w], t), <<te, signal>>)
      BY <1>2, <3>1, <3>2 DEF Handles
    <3>4. NextState(status[w], t) \in WorkspaceStates
      BY <1>3, NextStateType
    <3> QED
      BY <3>3, <3>4
  <2>3. CASE msg.val \notin DOMAIN SignalTrigger
    <3>1. /\ status' = [status EXCEPT ![w] = status[w]]
          /\ outbox' = [outbox EXCEPT ![w] = <<signal>>]
      BY <1>5, <2>3 DEF EmitSignal
    <3>2. Announces(w, status[w], <<signal>>)
      BY <2>1, PlainAnnounced
    <3>3. Handles(w, status[w], <<signal>>)
      BY <1>2, <3>1, <3>2 DEF Handles
    <3> QED
      BY <1>3, <3>3
  <2> QED
    BY <2>2, <2>3
<1>6. CASE CreateCheckpoint(w, msg.val)
  <2> DEFINE t       == "AgentBlocked"
             created == [Event(w, "CheckpointCreated", "") EXCEPT !.cp = checkpoints[w]]
             signal  == Event(w, "Signal", "Checkpoint")
             te      == TransitionEvent(w, t)
  <2>1. Plain(created, w) /\ Plain(signal, w)
    BY DEF Plain, Event
  <2>2. CASE msg.val = "Provisional"
    <3>1. /\ status' = [status EXCEPT ![w] = NextState(status[w], t)]
          /\ outbox' = [outbox EXCEPT ![w] = <<created, signal, te>>]
      BY <1>6, <2>2 DEF CreateCheckpoint
    <3>2. Announces(w, NextState(status[w], t), <<created, signal, te>>)
      BY <1>1, <2>1, TransitionAnnounced
    <3>3. Handles(w, NextState(status[w], t), <<created, signal, te>>)
      BY <1>2, <3>1, <3>2 DEF Handles
    <3>4. NextState(status[w], t) \in WorkspaceStates
      BY <1>3, NextStateType
    <3> QED
      BY <3>3, <3>4
  <2>3. CASE msg.val # "Provisional"
    <3>1. /\ status' = [status EXCEPT ![w] = status[w]]
          /\ outbox' = [outbox EXCEPT ![w] = <<created, signal>>]
      BY <1>6, <2>3 DEF CreateCheckpoint
    <3>2. Announces(w, status[w], <<created, signal>>)
      BY <2>1, PlainAnnounced
    <3>3. Handles(w, status[w], <<created, signal>>)
      BY <1>2, <3>1, <3>2 DEF Handles
    <3> QED
      BY <1>3, <3>3
  <2> QED
    BY <2>2, <2>3
<1> QED
  BY <1>4, <1>5, <1>6 DEF HandleAgentMsg

\* Every step, as far as mirrorVars go: an actor steps, the loop handles an
\* event or creates a workspace, or nothing happens.
LEMMA StepKinds ==
  ASSUME [Next]_vars
  PROVE  \/ \E w \in Workspaces : ActorNext(w)
         \/ HandleEvent
         \/ events = <<>> /\ \E t \in Tasks, w \in Workspaces : DispatchWorkspace(t, w)
         \/ UNCHANGED mirrorVars
<1>1. CASE \E w \in Workspaces : ActorNext(w)
  BY <1>1
<1>2. CASE LoopNext
  <2>1. CASE HandleEvent
    BY <2>1
  <2>2. CASE CompleteSend
    BY <2>2 DEF CompleteSend, mirrorVars, treeVars
  <2>3. CASE \E w \in Workspaces : AbortNext(w)
    BY <2>3 DEF AbortNext, mirrorVars, actorVars, treeVars
  <2>4. CASE BeginDrain \/ DrainTimeout
    BY <2>4 DEF BeginDrain, DrainTimeout, mirrorVars, actorVars, treeVars
  <2> QED
    BY <1>2, <2>1, <2>2, <2>3, <2>4 DEF LoopNext
<1>3. CASE RequestNext
  <2>1. CASE \E t \in Tasks, w \in Workspaces : SubmitGoal(t, w) \/ Dispatch(t, w)
    BY <2>1 DEF SubmitGoal, Dispatch, Take
  <2>2. ASSUME NEW t \in Tasks, Decompose(t) \/ CancelTask(t)
        PROVE  UNCHANGED mirrorVars
    BY <2>2 DEF Decompose, CancelTask, mirrorVars, actorVars, treeVars
  <2>3. ASSUME NEW w \in Workspaces,
               \/ AbortWorkspace(w) \/ SuspendWorkspace(w) \/ ResumeWorkspace(w)
               \/ TriggerIntegration(w)
               \/ SendDirective(w) \/ SendFeedback(w) \/ InjectEnvelope(w) \/ SendEnvelope(w)
        PROVE  UNCHANGED mirrorVars
    <3>1. \E op, k : CommandRequest(op, w, k)
      BY <2>3 DEF AbortWorkspace, SuspendWorkspace, ResumeWorkspace,
                  TriggerIntegration, SendDirective, SendFeedback, InjectEnvelope, SendEnvelope
    <3> QED
      BY <3>1 DEF CommandRequest, mirrorVars, actorVars, treeVars
  <2>4. ASSUME NEW w \in Workspaces, NEW x, AgentSignal(w, x) \/ AgentCheckpoint(w, x)
        PROVE  UNCHANGED mirrorVars
    BY <2>4 DEF AgentSignal, AgentCheckpoint, mirrorVars, actorVars, treeVars
  <2>5. ASSUME NEW g, NEW op, RespondToGate(g, op) \/ RespondToEscalation(g, op)
        PROVE  UNCHANGED mirrorVars
    BY <2>5 DEF RespondToGate, RespondToEscalation, mirrorVars, actorVars, treeVars
  <2>6. Shutdown => UNCHANGED mirrorVars
    BY DEF Shutdown, mirrorVars, actorVars, treeVars
  <2> QED
    BY <1>3, <2>1, <2>2, <2>3, <2>4, <2>5, <2>6 DEF RequestNext
<1>4. CASE UNCHANGED vars
  BY <1>4 DEF vars, mirrorVars, actorVars, treeVars
<1> QED
  BY <1>1, <1>2, <1>3, <1>4 DEF Next

\* The same, with what an actor does split up: it handles, ends or sends.
LEMMA StepCases ==
  ASSUME TypeOK, [Next]_vars
  PROVE  \/ \E w \in Workspaces :
              /\ UNCHANGED <<tree, handles, lastCp>>
              /\ \/ \E s \in WorkspaceStates : \E q : Handles(w, s, q)
                 \/ Terminate(w)
                 \/ SendEvent(w)
         \/ HandleEvent
         \/ events = <<>> /\ \E t \in Tasks, w \in Workspaces : DispatchWorkspace(t, w)
         \/ UNCHANGED mirrorVars
<1>1. CASE \E w \in Workspaces : ActorNext(w)
  <2>1. PICK w \in Workspaces : ActorNext(w)
    BY <1>1
  <2>2. UNCHANGED <<tree, handles, lastCp>>
    BY <2>1 DEF ActorNext, treeVars
  <2>3. HandleCommand(w) \/ HandleAgentMsg(w) \/ Terminate(w) \/ SendEvent(w)
    BY <2>1 DEF ActorNext, ActorStep
  <2> QED
    BY <2>2, <2>3, HandleCommandHandles, HandleAgentMsgHandles
<1> QED
  BY <1>1, StepKinds

-----------------------------------------------------------------------------
(* Sequence facts, instantiated for the event channel and the outboxes.    *)

\* Append, index by index.
LEMMA AppendFacts ==
  ASSUME NEW S, NEW q \in Seq(S), NEW e \in S
  PROVE  /\ Len(Append(q, e)) = Len(q) + 1 /\ Len(q) \in Nat
         /\ \A i \in 1..Len(q) : Append(q, e)[i] = q[i]
         /\ Append(q, e)[Len(q) + 1] = e
OBVIOUS

\* Tail, index by index.
LEMMA TailFacts ==
  ASSUME NEW S, NEW q \in Seq(S), q # <<>>
  PROVE  /\ Len(Tail(q)) = Len(q) - 1 /\ Len(q) \in Nat \ {0}
         /\ \A i \in 1..Len(Tail(q)) : Tail(q)[i] = q[i + 1]
         /\ Head(q) = q[1] /\ Head(q) \in S
OBVIOUS

\* The event an actor sends, in terms of the sequences it moves between.
LEMMA SendEventFacts ==
  ASSUME TypeOK, NEW w \in Workspaces, SendEvent(w)
  PROVE  /\ Len(outbox[w]) \in Nat \ {0} /\ Len(events) \in Nat
         /\ Len(events') = Len(events) + 1
         /\ \A i \in 1..Len(events) : events'[i] = events[i]
         /\ events'[Len(events) + 1] = outbox[w][1]
         /\ Len(outbox'[w]) = Len(outbox[w]) - 1
         /\ \A i \in 1..Len(outbox'[w]) : outbox'[w][i] = outbox[w][i + 1]
         /\ \A v \in Workspaces \ {w} : outbox'[v] = outbox[v]
         /\ status' = status
         /\ phase' = [phase EXCEPT ![w] = IF phase[w] = "exiting" THEN "exited" ELSE @]
<1>1. /\ events \in Seq(Events) /\ outbox \in [Workspaces -> Seq(Events)]
      /\ outbox[w] \in Seq(Events) /\ outbox[w] # <<>>
      /\ phase \in [Workspaces -> Phases]
  BY DEF TypeOK, ActorTypeOK, SendEvent
<1>2. /\ events' = Append(events, Head(outbox[w]))
      /\ outbox' = [outbox EXCEPT ![w] = Tail(outbox[w])]
      /\ status' = status
      /\ phase' = [phase EXCEPT ![w] = IF phase[w] = "exiting" THEN "exited" ELSE @]
  BY DEF SendEvent
<1>3. outbox'[w] = Tail(outbox[w]) /\ \A v \in Workspaces \ {w} : outbox'[v] = outbox[v]
  BY <1>1, <1>2
<1> QED
  BY <1>1, <1>2, <1>3, AppendFacts, TailFacts

\* The event the loop takes.
LEMMA HandleEventFacts ==
  ASSUME TypeOK, HandleEvent
  PROVE  /\ Len(events) \in Nat \ {0}
         /\ Len(events') = Len(events) - 1
         /\ \A i \in 1..Len(events') : events'[i] = events[i + 1]
         /\ events[1] \in Events
         /\ UNCHANGED <<phase, status, outbox>>
         /\ \/ OnStateChanged(events[1]) \/ OnCheckpointCreated(events[1])
            \/ OnTerminated(events[1]) \/ OnSignal(events[1]) \/ OnOther(events[1])
<1>1. events \in Seq(Events) /\ events # <<>> /\ events' = Tail(events)
  BY DEF TypeOK, ActorTypeOK, HandleEvent
<1>2. /\ UNCHANGED <<phase, status, outbox>>
      /\ \/ OnStateChanged(Head(events)) \/ OnCheckpointCreated(Head(events))
         \/ OnTerminated(Head(events)) \/ OnSignal(Head(events)) \/ OnOther(Head(events))
  BY DEF HandleEvent
<1> QED
  BY <1>1, <1>2, TailFacts

-----------------------------------------------------------------------------
(* A terminal report is final.                                             *)

\* Nothing is in flight at the start.
LEMMA SettleInit == Init => ReportsSettle
BY DEF Init, ActorInit, ReportsSettle, OutboxCurrent, TerminalRepeats, TreeSettled,
       TerminalStates, Absent

\* Every step keeps the reports settled.
LEMMA SettleStep == TypeOK /\ ReportsSettle /\ [Next]_vars => ReportsSettle'
<1> DEFINE Settled(v) == OutboxCurrent(v) /\ TerminalRepeats(v) /\ TreeSettled(v)
<1> SUFFICES ASSUME TypeOK, ReportsSettle, [Next]_vars, NEW v \in Workspaces
             PROVE  Settled(v)'
  BY DEF ReportsSettle
<1>0. Settled(v)
  BY DEF ReportsSettle
<1> USE DEF OutboxCurrent, TerminalRepeats, TreeSettled
<1>1. ASSUME NEW w \in Workspaces, NEW s \in WorkspaceStates, NEW q, Handles(w, s, q),
             UNCHANGED <<tree, handles, lastCp>>
      PROVE  Settled(v)'
  <2>1. status'[v] = (IF v = w THEN s ELSE status[v]) /\ outbox'[v] = (IF v = w THEN q ELSE outbox[v])
    BY <1>1 DEF Handles, TypeOK, ActorTypeOK
  <2>2. CASE v # w
    BY <1>0, <1>1, <2>1, <2>2 DEF Handles, Reports
  <2>3. CASE v = w
    <3>1. OutboxCurrent(v)'
      BY <1>1, <2>1, <2>3 DEF Handles, Announces, Reports
    <3>2. status[v] \notin TerminalStates /\ UNCHANGED events
      BY <1>1, <2>3 DEF Handles
    <3>3. \A i \in 1..Len(events) : Reports(events[i], v) => events[i].val \notin TerminalStates
      <4>1. Len(events) \in Nat
        BY DEF TypeOK, ActorTypeOK
      <4> QED
        BY <1>0, <3>2, <4>1
    <3>4. tree[v] \notin TerminalStates
      BY <1>0, <3>2
    <3> QED
      BY <1>1, <3>1, <3>2, <3>3, <3>4 DEF Reports
  <2> QED
    BY <2>2, <2>3
<1>2. ASSUME NEW w \in Workspaces, Terminate(w), UNCHANGED <<tree, handles, lastCp>>
      PROVE  Settled(v)'
  <2>1. UNCHANGED <<status, events>>
    BY <1>2 DEF Terminate
  <2>2. outbox'[v] = IF v = w THEN <<Event(w, "Terminated", status[w])>> ELSE outbox[v]
    BY <1>2 DEF Terminate, TypeOK, ActorTypeOK
  <2>3. OutboxCurrent(v)'
    BY <1>0, <2>1, <2>2 DEF Event, Reports
  <2> QED
    BY <1>0, <1>2, <2>1, <2>3 DEF Reports
<1>3. ASSUME NEW w \in Workspaces, SendEvent(w), UNCHANGED <<tree, handles, lastCp>>
      PROVE  Settled(v)'
  <2> DEFINE n == Len(events) + 1
  <2>0. /\ Len(outbox[w]) \in Nat \ {0} /\ Len(events) \in Nat
        /\ Len(events') = n
        /\ \A i \in 1..Len(events) : events'[i] = events[i]
        /\ events'[n] = outbox[w][1]
        /\ Len(outbox'[w]) = Len(outbox[w]) - 1
        /\ \A i \in 1..Len(outbox'[w]) : outbox'[w][i] = outbox[w][i + 1]
        /\ v # w => outbox'[v] = outbox[v]
        /\ status' = status
    BY <1>3, SendEventFacts
  <2>1. OutboxCurrent(v)'
    <3>1. CASE v # w
      BY <1>0, <2>0, <3>1 DEF Reports
    <3>2. CASE v = w
      <4> SUFFICES ASSUME NEW i \in 1..Len(outbox'[v])
                   PROVE  /\ outbox'[v][i].ws = v
                          /\ Reports(outbox'[v][i], v) => outbox'[v][i].val = status'[v]
        BY DEF Reports
      <4>1. i + 1 \in 1..Len(outbox[v]) /\ outbox'[v][i] = outbox[v][i + 1]
        BY <2>0, <3>2
      <4> QED
        BY <1>0, <2>0, <4>1
    <3> QED
      BY <3>1, <3>2
  <2>2. Reports(events'[n], v) => events'[n].val = status[v]
    <3>1. OutboxCurrent(w)
      BY DEF ReportsSettle
    <3> QED
      BY <2>0, <3>1 DEF Reports
  <2>3. \A j \in 1..Len(events') : j \in 1..Len(events) \/ j = n
    BY <2>0
  <2>4. TerminalRepeats(v)'
    BY <1>0, <2>0, <2>2, <2>3 DEF Reports
  <2>5. TreeSettled(v)'
    BY <1>0, <1>3, <2>0, <2>2, <2>3 DEF Reports
  <2> QED
    BY <2>1, <2>4, <2>5
<1>4. CASE HandleEvent
  <2> DEFINE e == events[1]
  <2>0. /\ Len(events) \in Nat \ {0}
        /\ Len(events') = Len(events) - 1
        /\ \A i \in 1..Len(events') : events'[i] = events[i + 1]
        /\ UNCHANGED <<status, outbox>>
    BY <1>4, HandleEventFacts
  <2>1. OutboxCurrent(v)'
    BY <1>0, <2>0 DEF Reports
  <2>2. TerminalRepeats(v)'
    <3> SUFFICES ASSUME NEW i \in 1..Len(events'), Reports(events'[i], v),
                        events'[i].val \in TerminalStates,
                        NEW j \in i..Len(events'), Reports(events'[j], v)
                 PROVE  events'[j].val = status'[v]
      BY DEF Reports
    <3>1. /\ i + 1 \in 1..Len(events) /\ events'[i] = events[i + 1]
          /\ j + 1 \in (i + 1)..Len(events) /\ events'[j] = events[j + 1]
      BY <2>0
    <3> QED
      BY <1>0, <2>0, <3>1
  <2>3. tree'[v] = IF Reports(e, v) THEN e.val ELSE tree[v]
    <3>1. tree \in [Workspaces -> WorkspaceStates \cup {Absent}]
      BY DEF TypeOK
    <3> QED
      BY <1>4, <3>1, HandleEventFacts
         DEF OnStateChanged, OnCheckpointCreated, OnTerminated, OnSignal, OnOther, Reports
  <2>4. TreeSettled(v)'
    <3> SUFFICES ASSUME tree'[v] \in TerminalStates
                 PROVE  /\ tree'[v] = status[v]
                        /\ \A j \in 1..Len(events') :
                             Reports(events'[j], v) => events'[j].val = status[v]
      BY <2>0 DEF Reports
    <3>1. 1 \in 1..Len(events)
      BY <2>0
    <3>2. /\ tree'[v] = status[v]
          /\ \A j \in 1..Len(events) : Reports(events[j], v) => events[j].val = status[v]
      <4>1. CASE Reports(e, v)
        <5>1. \A j \in 1..Len(events) : Reports(events[j], v) => events[j].val = status[v]
          BY <1>0, <2>3, <3>1, <4>1
        <5> QED
          BY <2>3, <3>1, <4>1, <5>1
      <4>2. CASE ~Reports(e, v)
        BY <1>0, <2>3, <4>2
      <4> QED
        BY <4>1, <4>2
    <3>3. \A j \in 1..Len(events') : j + 1 \in 1..Len(events)
      BY <2>0
    <3> QED
      BY <2>0, <3>2, <3>3
  <2> QED
    BY <2>1, <2>2, <2>4
<1>5. ASSUME NEW t \in Tasks, NEW w \in Workspaces, events = <<>>, DispatchWorkspace(t, w)
      PROVE  Settled(v)'
  <2>1. UNCHANGED <<status, outbox, events>> /\ Len(events) = 0
    BY <1>5 DEF DispatchWorkspace, Spawn
  <2>2. tree'[v] = IF v = w THEN "Idle" ELSE tree[v]
    BY <1>5 DEF DispatchWorkspace, TypeOK
  <2> QED
    BY <1>0, <2>1, <2>2 DEF TerminalStates, Reports
<1>6. CASE UNCHANGED mirrorVars
  BY <1>0, <1>6 DEF mirrorVars, Reports
<1> QED
  BY <1>1, <1>2, <1>3, <1>4, <1>5, <1>6, StepCases

-----------------------------------------------------------------------------
(* Terminated is an actor's last event, and its handle outlives the others.*)

\* No actor exists at the start.
LEMMA LifecycleInit == Init => ActorLifecycle /\ BookkeepingBounded
BY DEF Init, ActorInit, ActorLifecycle, PhaseShape, TerminatedLast, BookkeepingBounded

\* Every step keeps the shape of the actors' lives and the bookkeeping.
LEMMA LifecycleStep ==
  TypeOK /\ ReportsSettle /\ ActorLifecycle /\ BookkeepingBounded /\ [Next]_vars
    => ActorLifecycle' /\ BookkeepingBounded'
<1> DEFINE Goal == (\A v \in Workspaces : PhaseShape(v)) /\ TerminatedLast /\ BookkeepingBounded
<1> SUFFICES ASSUME TypeOK, ReportsSettle, Goal, [Next]_vars
             PROVE  Goal'
  BY DEF ActorLifecycle
<1>0. /\ phase \in [Workspaces -> Phases] /\ status \in [Workspaces -> WorkspaceStates]
      /\ outbox \in [Workspaces -> Seq(Events)] /\ events \in Seq(Events)
      /\ tree \in [Workspaces -> WorkspaceStates \cup {Absent}]
      /\ Len(events) \in Nat
  BY DEF TypeOK, ActorTypeOK
<1> USE DEF PhaseShape, TerminatedLast, BookkeepingBounded
<1>1. ASSUME NEW w \in Workspaces, NEW s \in WorkspaceStates, NEW q, Handles(w, s, q),
             UNCHANGED <<tree, handles, lastCp>>
      PROVE  Goal'
  <2>1. /\ phase[w] = "running" /\ UNCHANGED <<phase, events>>
        /\ status' = [status EXCEPT ![w] = s]
        /\ outbox' = [outbox EXCEPT ![w] = q]
        /\ \A i \in 1..Len(q) : q[i].kind # "Terminated"
    BY <1>1 DEF Handles, Announces
  <2>2. \A v \in Workspaces : PhaseShape(v)'
    BY <1>0, <1>1, <2>1
  <2> QED
    BY <1>1, <2>1, <2>2
<1>2. ASSUME NEW w \in Workspaces, Terminate(w), UNCHANGED <<tree, handles, lastCp>>
      PROVE  Goal'
  <2> DEFINE q == <<Event(w, "Terminated", status[w])>>
  <2>1. /\ phase[w] = "running" /\ UNCHANGED <<status, events>>
        /\ phase' = [phase EXCEPT ![w] = "exiting"]
        /\ outbox' = [outbox EXCEPT ![w] = q]
        /\ Len(q) = 1
    BY <1>2 DEF Terminate
  <2> HIDE DEF q
  <2>2. \A v \in Workspaces : PhaseShape(v)'
    BY <1>0, <1>2, <2>1
  <2>3. TerminatedLast'
    BY <1>0, <1>2, <2>1
  <2>4. BookkeepingBounded'
    BY <1>0, <1>2, <2>1
  <2> QED
    BY <2>2, <2>3, <2>4
<1>3. ASSUME NEW w \in Workspaces, SendEvent(w), UNCHANGED <<tree, handles, lastCp>>
      PROVE  Goal'
  <2> DEFINE n == Len(events) + 1
  <2>0. /\ Len(outbox[w]) \in Nat \ {0}
        /\ Len(events') = n
        /\ \A i \in 1..Len(events) : events'[i] = events[i]
        /\ events'[n] = outbox[w][1]
        /\ Len(outbox'[w]) = Len(outbox[w]) - 1
        /\ \A i \in 1..Len(outbox'[w]) : outbox'[w][i] = outbox[w][i + 1]
        /\ \A v \in Workspaces \ {w} : outbox'[v] = outbox[v]
        /\ status' = status
        /\ phase' = [phase EXCEPT ![w] = IF phase[w] = "exiting" THEN "exited" ELSE @]
    BY <1>3, SendEventFacts
  <2>1. phase[w] \in {"running", "exiting"} /\ outbox[w][1].ws = w /\ outbox'[w] \in Seq(Events)
    <3>1. OutboxCurrent(w)
      BY DEF ReportsSettle
    <3>2. outbox[w] # <<>> /\ outbox'[w] \in Seq(Events)
      BY <1>3, ActorNextType, SendEventType DEF SendEvent, TypeOK, ActorTypeOK
    <3> QED
      BY <1>0, <2>0, <3>1, <3>2 DEF OutboxCurrent, Phases
  <2>2. ASSUME NEW v \in Workspaces PROVE PhaseShape(v)'
    <3>1. CASE v # w
      BY <1>0, <1>3, <2>0, <3>1
    <3>2. CASE v = w /\ phase[w] = "running"
      <4>1. phase'[w] = "running"
        BY <1>0, <2>0, <3>2
      <4>2. ASSUME NEW i \in 1..Len(outbox'[w])
            PROVE  outbox'[w][i].kind # "Terminated"
        <5>1. i + 1 \in 1..Len(outbox[w]) /\ outbox'[w][i] = outbox[w][i + 1]
          BY <2>0
        <5> QED
          BY <3>2, <5>1
      <4> QED
        BY <3>2, <4>1, <4>2
    <3>3. CASE v = w /\ phase[w] = "exiting"
      <4>1. phase'[w] = "exited" /\ Len(outbox'[w]) = 0
        BY <1>0, <2>0, <3>3
      <4>2. outbox'[w] = <<>>
        BY <2>1, <4>1
      <4> QED
        BY <3>3, <4>1, <4>2
    <3> QED
      BY <2>1, <3>1, <3>2, <3>3
  <2>3. TerminatedLast'
    <3>1. w \in handles
      BY <2>1
    <3>2. \A i \in 1..Len(events) : events[i].kind = "Terminated" => events[i].ws # w
      BY <2>1
    <3>3. events'[n].kind = "Terminated" => phase'[w] = "exited"
      BY <1>0, <2>0, <2>1
    <3>4. \A i \in 1..Len(events') : i \in 1..Len(events) \/ i = n
      BY <1>0, <2>0
    <3>5. \A i \in 1..Len(events) : events[i].kind = "Terminated" => phase'[events[i].ws] = "exited"
      BY <1>0, <2>0, <3>2
    <3>6. ASSUME NEW i \in 1..Len(events')
          PROVE  /\ events'[i].ws \in handles'
                 /\ events'[i].kind = "Terminated" => phase'[events'[i].ws] = "exited"
      <4>1. CASE i \in 1..Len(events)
        BY <1>3, <2>0, <3>5, <4>1
      <4>2. CASE i = n
        BY <1>3, <2>0, <2>1, <3>1, <3>3, <4>2
      <4> QED
        BY <3>4, <4>1, <4>2
    <3>7. ASSUME NEW i \in 1..Len(events'), events'[i].kind = "Terminated",
                 NEW j \in (i + 1)..Len(events')
          PROVE  events'[j].ws # events'[i].ws
      <4>1. i \in 1..Len(events) /\ events'[i] = events[i]
        BY <1>0, <2>0, <3>7
      <4>2. CASE j \in 1..Len(events)
        <5>1. j \in (i + 1)..Len(events) /\ events'[j] = events[j]
          BY <1>0, <2>0, <4>1, <4>2
        <5> QED
          BY <3>7, <4>1, <5>1
      <4>3. CASE j = n
        BY <2>0, <2>1, <3>2, <3>7, <4>1, <4>3
      <4>4. j \in 1..Len(events')
        BY <1>0, <2>0, <4>1
      <4> QED
        BY <3>4, <4>2, <4>3, <4>4
    <3> QED
      BY <3>6, <3>7
  <2>4. BookkeepingBounded'
    BY <1>0, <1>3, <2>0, <2>1
  <2> QED
    BY <2>2, <2>3, <2>4
<1>4. CASE HandleEvent
  <2> DEFINE e == events[1]
  <2>0. /\ Len(events) \in Nat \ {0}
        /\ Len(events') = Len(events) - 1
        /\ \A i \in 1..Len(events') : events'[i] = events[i + 1]
        /\ e \in Events
        /\ UNCHANGED <<phase, status, outbox>>
        /\ \/ OnStateChanged(e) \/ OnCheckpointCreated(e)
           \/ OnTerminated(e) \/ OnSignal(e) \/ OnOther(e)
    BY <1>4, HandleEventFacts
  <2>1. e.ws \in Workspaces /\ e.ws \in handles /\ phase[e.ws] # "unborn"
    <3>1. 1 \in 1..Len(events)
      BY <2>0
    <3>2. e.ws \in Workspaces
      BY <2>0 DEF Events
    <3> QED
      BY <3>1, <3>2
  <2>2. /\ tree' = tree \/ tree' = [tree EXCEPT ![e.ws] = e.val]
        /\ IF e.kind = "Terminated" THEN handles' = handles \ {e.ws} ELSE handles' = handles
        /\ \/ e.kind # "Terminated" /\ lastCp' \subseteq lastCp \cup {e.ws}
           \/ e.kind = "Terminated" /\ lastCp' = lastCp \ {e.ws}
    BY <2>0 DEF OnStateChanged, OnCheckpointCreated, OnTerminated, OnSignal, OnOther
  <2>3. ASSUME NEW v \in Workspaces PROVE PhaseShape(v)'
    <3>1. phase[v] = "unborn" => tree'[v] = tree[v]
      BY <1>0, <2>1, <2>2
    <3> QED
      BY <2>0, <2>2, <3>1
  <2>4. TerminatedLast'
    <3>1. \A i \in 1..Len(events') : i + 1 \in 2..Len(events) /\ events'[i] = events[i + 1]
      BY <2>0
    <3>2. \A i \in 2..Len(events) : e.kind = "Terminated" => events[i].ws # e.ws
      BY <2>0
    <3>4. \A i \in 1..Len(events') : events'[i].ws \in handles'
      BY <2>0, <2>2, <3>1, <3>2
    <3> SUFFICES ASSUME NEW i \in 1..Len(events'), events'[i].kind = "Terminated"
                 PROVE  /\ phase'[events'[i].ws] = "exited"
                        /\ \A j \in (i + 1)..Len(events') : events'[j].ws # events'[i].ws
      BY <3>4
    <3>5. i + 1 \in 1..Len(events) /\ events'[i] = events[i + 1]
      BY <2>0
    <3>6. ASSUME NEW j \in (i + 1)..Len(events')
          PROVE  events'[j].ws # events'[i].ws
      <4>1. /\ j + 1 \in ((i + 1) + 1)..Len(events)
            /\ j \in 1..Len(events') /\ events'[j] = events[j + 1]
        BY <2>0
      <4> QED
        BY <3>5, <4>1
    <3> QED
      BY <2>0, <3>5, <3>6
  <2>5. BookkeepingBounded'
    <3>1. e.kind = "Terminated" => phase[e.ws] = "exited"
      BY <2>0
    <3> QED
      BY <2>0, <2>1, <2>2, <3>1
  <2> QED
    BY <2>3, <2>4, <2>5
<1>5. ASSUME NEW t \in Tasks, NEW w \in Workspaces, events = <<>>, DispatchWorkspace(t, w)
      PROVE  Goal'
  <2>1. /\ UNCHANGED <<status, outbox, events, lastCp>> /\ Len(events) = 0
        /\ phase[w] = "unborn" /\ phase' = [phase EXCEPT ![w] = "running"]
        /\ tree' = [tree EXCEPT ![w] = "Idle"]
        /\ handles' = handles \cup {w}
    BY <1>5 DEF DispatchWorkspace, Spawn
  <2>2. outbox[w] = <<>> /\ Len(<<>>) = 0
    BY <2>1
  <2>3. ASSUME NEW v \in Workspaces PROVE PhaseShape(v)'
    BY <1>0, <2>1, <2>2
  <2>4. BookkeepingBounded'
    BY <1>0, <2>1
  <2> QED
    BY <2>1, <2>3, <2>4
<1>6. CASE UNCHANGED mirrorVars
  BY <1>6 DEF mirrorVars
<1> QED
  BY <1>1, <1>2, <1>3, <1>4, <1>5, <1>6, StepCases

-----------------------------------------------------------------------------
(* The tree only lags behind the actors.                                   *)

\* What a new last event does to the newest report of w.
LEMMA ReportsAfterAppend ==
  ASSUME NEW p, NEW q, NEW w, NEW s, Len(p) \in Nat, Len(q) = Len(p) + 1,
         \A i \in 1..Len(p) : q[i] = p[i]
  PROVE  LET e == q[Len(p) + 1]
         IN  /\ NoReport(p, w) /\ ~Reports(e, w) => NoReport(q, w)
             /\ LastReport(p, w, s) /\ ~Reports(e, w) => LastReport(q, w, s)
             /\ Reports(e, w) /\ e.val = s => LastReport(q, w, s)
<1> DEFINE n == Len(p) + 1
<1>1. \A i \in 1..Len(q) : i \in 1..Len(p) \/ i = n
  OBVIOUS
<1>2. n \in 1..Len(q) /\ \A j \in (n + 1)..Len(q) : FALSE
  OBVIOUS
<1>3. NoReport(p, w) /\ ~Reports(q[n], w) => NoReport(q, w)
  BY <1>1 DEF NoReport
<1>4. Reports(q[n], w) /\ q[n].val = s => LastReport(q, w, s)
  BY <1>2 DEF LastReport
<1>5. ASSUME LastReport(p, w, s), ~Reports(q[n], w) PROVE LastReport(q, w, s)
  <2>1. PICK i \in 1..Len(p) : /\ Reports(p[i], w) /\ p[i].val = s
                               /\ \A j \in (i + 1)..Len(p) : ~Reports(p[j], w)
    BY <1>5 DEF LastReport
  <2>2. i \in 1..Len(q) /\ q[i] = p[i]
    OBVIOUS
  <2>3. ASSUME NEW j \in (i + 1)..Len(q) PROVE ~Reports(q[j], w)
    <3>1. CASE j = n
      BY <1>5, <3>1
    <3>2. CASE j # n
      <4>1. j \in (i + 1)..Len(p) /\ q[j] = p[j]
        BY <3>2
      <4> QED
        BY <2>1, <4>1
    <3> QED
      BY <3>1, <3>2
  <2> QED
    BY <2>1, <2>2, <2>3 DEF LastReport
<1> QED
  BY <1>3, <1>4, <1>5

\* What taking the first event does to the newest report of w.
LEMMA ReportsAfterTail ==
  ASSUME NEW p, NEW q, NEW w, NEW s, Len(p) \in Nat \ {0}, Len(q) = Len(p) - 1,
         \A i \in 1..Len(q) : q[i] = p[i + 1]
  PROVE  /\ NoReport(p, w) => NoReport(q, w) /\ ~Reports(p[1], w)
         /\ LastReport(p, w, s) =>
              \/ LastReport(q, w, s)
              \/ NoReport(q, w) /\ Reports(p[1], w) /\ p[1].val = s
<1>0. 1 \in 1..Len(p) /\ \A i \in 1..Len(q) : i + 1 \in 1..Len(p)
  OBVIOUS
<1>1. ASSUME NoReport(p, w) PROVE NoReport(q, w) /\ ~Reports(p[1], w)
  <2>1. ASSUME NEW i \in 1..Len(q) PROVE ~Reports(q[i], w)
    BY <1>0, <1>1 DEF NoReport
  <2> QED
    BY <1>0, <1>1, <2>1 DEF NoReport
<1>2. ASSUME LastReport(p, w, s)
      PROVE  \/ LastReport(q, w, s)
             \/ NoReport(q, w) /\ Reports(p[1], w) /\ p[1].val = s
  <2>1. PICK i \in 1..Len(p) : /\ Reports(p[i], w) /\ p[i].val = s
                               /\ \A j \in (i + 1)..Len(p) : ~Reports(p[j], w)
    BY <1>2 DEF LastReport
  <2>2. CASE i = 1
    <3>1. ASSUME NEW j \in 1..Len(q) PROVE ~Reports(q[j], w)
      <4>1. j + 1 \in (i + 1)..Len(p) /\ q[j] = p[j + 1]
        BY <2>2
      <4> QED
        BY <2>1, <4>1
    <3> QED
      BY <2>1, <2>2, <3>1 DEF NoReport
  <2>3. CASE i # 1
    <3>1. i - 1 \in 1..Len(q) /\ q[i - 1] = p[i]
      BY <2>3
    <3>2. ASSUME NEW j \in ((i - 1) + 1)..Len(q) PROVE ~Reports(q[j], w)
      <4>1. j + 1 \in (i + 1)..Len(p) /\ j \in 1..Len(q) /\ q[j] = p[j + 1]
        OBVIOUS
      <4> QED
        BY <2>1, <4>1
    <3> QED
      BY <2>1, <3>1, <3>2 DEF LastReport
  <2> QED
    BY <2>2, <2>3
<1> QED
  BY <1>1, <1>2

\* MirrorConsistent, for one workspace.
Mirrored(w) ==
  \/ LastReport(outbox[w], w, status[w])
  \/ NoReport(outbox[w], w) /\ LastReport(events, w, status[w])
  \/ NoReport(outbox[w], w) /\ NoReport(events, w) /\ tree[w] = status[w]

\* No actor exists at the start.
LEMMA MirrorInit == Init => MirrorConsistent
BY DEF Init, ActorInit, MirrorConsistent

\* Every step keeps the tree and the actors consistent.
LEMMA MirrorStep ==
  TypeOK /\ ReportsSettle /\ ActorLifecycle /\ MirrorConsistent /\ [Next]_vars
    => MirrorConsistent'
<1> SUFFICES ASSUME TypeOK, ReportsSettle, ActorLifecycle, MirrorConsistent, [Next]_vars,
                    NEW v \in Workspaces, phase'[v] # "unborn"
             PROVE  Mirrored(v)'
  BY DEF MirrorConsistent, Mirrored, LastReport, NoReport, Reports
<1>0. phase[v] # "unborn" => Mirrored(v)
  BY DEF MirrorConsistent, Mirrored
<1>t. /\ phase \in [Workspaces -> Phases] /\ status \in [Workspaces -> WorkspaceStates]
      /\ outbox \in [Workspaces -> Seq(Events)] /\ events \in Seq(Events)
      /\ tree \in [Workspaces -> WorkspaceStates \cup {Absent}]
      /\ Len(events) \in Nat
  BY DEF TypeOK, ActorTypeOK
<1> SUFFICES \/ LastReport(outbox'[v], v, status'[v])
             \/ NoReport(outbox'[v], v) /\ LastReport(events', v, status'[v])
             \/ NoReport(outbox'[v], v) /\ NoReport(events', v) /\ tree'[v] = status'[v]
  BY DEF Mirrored, LastReport, NoReport, Reports
<1> DEFINE Goal == \/ LastReport(outbox'[v], v, status'[v])
                   \/ NoReport(outbox'[v], v) /\ LastReport(events', v, status'[v])
                   \/ NoReport(outbox'[v], v) /\ NoReport(events', v) /\ tree'[v] = status'[v]
<1>1. ASSUME NEW w \in Workspaces, NEW s \in WorkspaceStates, NEW q, Handles(w, s, q),
             UNCHANGED <<tree, handles, lastCp>>
      PROVE  Goal
  <2>1. /\ status'[v] = (IF v = w THEN s ELSE status[v])
        /\ outbox'[v] = (IF v = w THEN q ELSE outbox[v])
        /\ events' = events /\ tree' = tree /\ phase' = phase
        /\ phase[v] # "unborn"
    BY <1>1, <1>t DEF Handles
  <2>2. CASE v # w
    BY <1>0, <2>1, <2>2 DEF Mirrored
  <2>3. CASE v = w
    <3>1. outbox[v] = <<>> /\ Announces(v, s, q)
      BY <1>1, <2>3 DEF Handles
    <3>2. ~LastReport(<<>>, v, status[v])
      BY DEF LastReport
    <3> QED
      BY <1>0, <2>1, <2>3, <3>1, <3>2 DEF Mirrored, Announces
  <2> QED
    BY <2>2, <2>3
<1>2. ASSUME NEW w \in Workspaces, Terminate(w), UNCHANGED <<tree, handles, lastCp>>
      PROVE  Goal
  <2>1. /\ UNCHANGED <<status, events, tree>>
        /\ phase[w] = "running"
        /\ outbox'[v] = IF v = w THEN <<Event(w, "Terminated", status[w])>> ELSE outbox[v]
        /\ v # w => phase[v] # "unborn"
    BY <1>2, <1>t DEF Terminate
  <2>2. CASE v # w
    BY <1>0, <2>1, <2>2 DEF Mirrored
  <2>3. CASE v = w
    <3>1. LastReport(<<Event(v, "Terminated", status[v])>>, v, status[v])
      BY DEF LastReport, Reports, Event
    <3> QED
      BY <2>1, <2>3, <3>1
  <2> QED
    BY <2>2, <2>3
<1>3. ASSUME NEW w \in Workspaces, SendEvent(w), UNCHANGED <<tree, handles, lastCp>>
      PROVE  Goal
  <2> DEFINE n == Len(events) + 1
  <2>0. /\ Len(outbox[w]) \in Nat \ {0}
        /\ Len(events') = n
        /\ \A i \in 1..Len(events) : events'[i] = events[i]
        /\ events'[n] = outbox[w][1]
        /\ Len(outbox'[w]) = Len(outbox[w]) - 1
        /\ \A i \in 1..Len(outbox'[w]) : outbox'[w][i] = outbox[w][i + 1]
        /\ v # w => outbox'[v] = outbox[v]
        /\ status' = status /\ tree' = tree
        /\ phase' = [phase EXCEPT ![w] = IF phase[w] = "exiting" THEN "exited" ELSE @]
    BY <1>3, SendEventFacts
  <2>1. phase[v] # "unborn"
    BY <1>t, <2>0
  <2>2. /\ NoReport(events, v) /\ ~Reports(events'[n], v) => NoReport(events', v)
        /\ LastReport(events, v, status[v]) /\ ~Reports(events'[n], v)
             => LastReport(events', v, status[v])
        /\ Reports(events'[n], v) /\ events'[n].val = status[v]
             => LastReport(events', v, status[v])
    BY <1>t, <2>0, ReportsAfterAppend
  <2>3. CASE v # w
    <3>1. 1 \in 1..Len(outbox[w])
      BY <2>0
    <3>2. outbox[w][1].ws = w
      BY <3>1 DEF ReportsSettle, OutboxCurrent
    <3>3. ~Reports(events'[n], v)
      BY <2>0, <2>3, <3>2 DEF Reports
    <3> QED
      BY <1>0, <2>0, <2>1, <2>2, <2>3, <3>3 DEF Mirrored
  <2>4. CASE v = w
    <3>1. /\ NoReport(outbox[v], v) => NoReport(outbox'[v], v) /\ ~Reports(outbox[v][1], v)
          /\ LastReport(outbox[v], v, status[v]) =>
               \/ LastReport(outbox'[v], v, status[v])
               \/ /\ NoReport(outbox'[v], v)
                  /\ Reports(outbox[v][1], v) /\ outbox[v][1].val = status[v]
      BY <2>0, <2>4, ReportsAfterTail
    <3> QED
      BY <1>0, <2>0, <2>1, <2>2, <2>4, <3>1 DEF Mirrored
  <2> QED
    BY <2>3, <2>4
<1>4. CASE HandleEvent
  <2> DEFINE e == events[1]
  <2>0. /\ Len(events) \in Nat \ {0}
        /\ Len(events') = Len(events) - 1
        /\ \A i \in 1..Len(events') : events'[i] = events[i + 1]
        /\ UNCHANGED <<phase, status, outbox>>
    BY <1>4, HandleEventFacts
  <2>1. tree'[v] = IF Reports(e, v) THEN e.val ELSE tree[v]
    BY <1>4, <1>t, HandleEventFacts
       DEF OnStateChanged, OnCheckpointCreated, OnTerminated, OnSignal, OnOther, Reports
  <2>2. /\ NoReport(events, v) => NoReport(events', v) /\ ~Reports(e, v)
        /\ LastReport(events, v, status[v]) =>
             \/ LastReport(events', v, status[v])
             \/ NoReport(events', v) /\ Reports(e, v) /\ e.val = status[v]
    BY <2>0, ReportsAfterTail
  <2> QED
    BY <1>0, <2>0, <2>1, <2>2 DEF Mirrored
<1>5. ASSUME NEW t \in Tasks, NEW w \in Workspaces, events = <<>>, DispatchWorkspace(t, w)
      PROVE  Goal
  <2>1. /\ UNCHANGED <<status, outbox, events>>
        /\ phase[w] = "unborn" /\ phase' = [phase EXCEPT ![w] = "running"]
        /\ tree'[v] = IF v = w THEN "Idle" ELSE tree[v]
    BY <1>5, <1>t DEF DispatchWorkspace, Spawn
  <2>2. CASE v # w
    <3>1. phase[v] # "unborn"
      BY <1>t, <2>1, <2>2
    <3> QED
      BY <1>0, <2>1, <2>2, <3>1 DEF Mirrored
  <2>3. CASE v = w
    <3>1. status[v] = "Idle" /\ outbox[v] = <<>>
      BY <2>1, <2>3 DEF ActorLifecycle, PhaseShape
    <3>2. NoReport(<<>>, v)
      BY DEF NoReport
    <3> QED
      BY <1>5, <2>1, <2>3, <3>1, <3>2
  <2> QED
    BY <2>2, <2>3
<1>6. CASE UNCHANGED mirrorVars
  BY <1>0, <1>6 DEF mirrorVars, Mirrored
<1> QED
  BY <1>1, <1>2, <1>3, <1>4, <1>5, <1>6, StepCases

-----------------------------------------------------------------------------
(* Theorems.                                                               *)

\* The inductive invariant.
RuntimeInv ==
  TypeOK /\ ReportsSettle /\ ActorLifecycle /\ BookkeepingBounded /\ MirrorConsistent

\* The inductive invariant holds of every reachable state of the runtime.
THEOREM RuntimeInvariant == Spec => []RuntimeInv
<1>1. Init => RuntimeInv
  BY InitType, SettleInit, LifecycleInit, MirrorInit DEF RuntimeInv
<1>2. RuntimeInv /\ [Next]_vars => RuntimeInv'
  BY NextType, SettleStep, LifecycleStep, MirrorStep DEF RuntimeInv
<1> QED
  BY <1>1, <1>2, PTL DEF Spec

\* The coordinator's tree never diverges from the actors: for any number of
\* workspaces, tasks and requests and any channel capacities, the newest report
\* in flight carries the actor's status, and with none in flight the tree does.
THEOREM MirrorCorrect == Spec => []MirrorConsistent
<1>1. RuntimeInv => MirrorConsistent
  BY DEF RuntimeInv
<1> QED
  BY <1>1, RuntimeInvariant, PTL

\* The checkpoint cache and the handles of the coordinator are exactly as
\* long-lived as the actors' events: no cache entry outlives its handle and no
\* running actor loses its handle.
THEOREM BookkeepingCorrect == Spec => []BookkeepingBounded
<1>1. RuntimeInv => BookkeepingBounded
  BY DEF RuntimeInv
<1> QED
  BY <1>1, RuntimeInvariant, PTL

\* A node recorded as Closed or Failed is never rewritten by a later event.
THEOREM TerminalRecordsStay == Spec => TreeTerminalSticky
<1> DEFINE Sticky == \A w \in Workspaces : tree[w] \in TerminalStates => tree'[w] = tree[w]
<1>1. RuntimeInv /\ [Next]_vars => Sticky
  <2> SUFFICES ASSUME RuntimeInv, [Next]_vars,
                      NEW v \in Workspaces, tree[v] \in TerminalStates
               PROVE  tree'[v] = tree[v]
    OBVIOUS
  <2>0. TypeOK /\ ReportsSettle /\ ActorLifecycle
    BY DEF RuntimeInv
  <2>t. tree \in [Workspaces -> WorkspaceStates \cup {Absent}]
    BY <2>0 DEF TypeOK
  <2>1. CASE UNCHANGED tree
    BY <2>1
  <2>2. CASE HandleEvent
    <3>1. Len(events) \in Nat \ {0}
      BY <2>0, <2>2, HandleEventFacts
    <3>2. tree'[v] = IF Reports(events[1], v) THEN events[1].val ELSE tree[v]
      BY <2>0, <2>t, <2>2, HandleEventFacts
         DEF OnStateChanged, OnCheckpointCreated, OnTerminated, OnSignal, OnOther, Reports
    <3>3. Reports(events[1], v) => events[1].val = tree[v]
      BY <2>0, <3>1 DEF ReportsSettle, TreeSettled
    <3> QED
      BY <3>2, <3>3
  <2>3. CASE \E t \in Tasks, w \in Workspaces : DispatchWorkspace(t, w)
    <3>1. PICK w \in Workspaces : phase[w] = "unborn" /\ tree' = [tree EXCEPT ![w] = "Idle"]
      BY <2>3 DEF DispatchWorkspace, Spawn
    <3>2. tree[w] = Absent
      BY <2>0, <3>1 DEF ActorLifecycle, PhaseShape
    <3> QED
      BY <2>t, <3>1, <3>2 DEF TerminalStates, Absent
  <2> QED
    BY <2>0, <2>1, <2>2, <2>3, StepCases DEF mirrorVars
<1>2. [][Sticky]_vars <=> TreeTerminalSticky
  BY PTL DEF TreeTerminalSticky
<1> QED
  BY <1>1, <1>2, RuntimeInvariant, PTL DEF Spec

\* Only AgentComplete takes a workspace to Integrating.
LEMMA OnlyCompletionIntegrates ==
  ASSUME NEW st \in WorkspaceStates, NEW t, st # "Integrating", t # "AgentComplete"
  PROVE  NextState(st, t) # "Integrating"
<1>1. <<st, t, "Integrating">> \notin WorkspaceEdges
  BY DEF WorkspaceEdges
<1>2. IsLegal(st, t) => <<st, t, NextState(st, t)>> \in WorkspaceEdges
  BY DEF IsLegal, NextState
<1>3. ~IsLegal(st, t) => NextState(st, t) = st
  BY DEF NextState
<1> QED
  BY <1>1, <1>2, <1>3

\* Abort precedence: whatever the agent had queued, a workspace with an abort
\* in its command channel does not become Integrating.
THEOREM AbortWins == Spec => AbortPrecedence
<1> DEFINE Keeps == \A w \in Workspaces :
             AbortQueued(w) /\ status[w] # "Integrating" => status'[w] # "Integrating"
<1>1. TypeOK /\ [Next]_vars => Keeps
  <2> SUFFICES ASSUME TypeOK, [Next]_vars, NEW v \in Workspaces, AbortQueued(v),
                      status[v] # "Integrating"
               PROVE  status'[v] # "Integrating"
    OBVIOUS
  <2>t. status \in [Workspaces -> WorkspaceStates] /\ coordQ \in [Workspaces -> Seq(Commands)]
    BY DEF TypeOK, ActorTypeOK
  <2>1. coordQ[v] # <<>>
    BY DEF AbortQueued
  <2>2. ASSUME NEW w \in Workspaces, HandleCommand(w) PROVE status'[v] # "Integrating"
    <3> DEFINE cmd == Head(coordQ[w])
    <3>1. cmd \in Commands
      BY <2>2, <2>t, TailFacts DEF HandleCommand
    <3>2. CASE cmd.kind = "DeliverEnvelope"
      BY <2>2, <2>t, <3>2, OnlyCompletionIntegrates DEF HandleCommand, DeliverEnvelope
    <3>3. CASE cmd.kind # "DeliverEnvelope"
      <4>1. CommandTrigger[cmd.kind] # "AgentComplete"
        BY <3>1, <3>3 DEF Commands, CommandTrigger
      <4>2. NextState(status[v], CommandTrigger[cmd.kind]) # "Integrating"
        BY <2>t, <4>1, OnlyCompletionIntegrates
      <4> QED
        BY <2>2, <2>t, <3>3, <4>2 DEF HandleCommand, TriggerCommand
    <3> QED
      BY <3>2, <3>3
  <2>3. ASSUME NEW w \in Workspaces, HandleAgentMsg(w) PROVE status'[v] = status[v]
    BY <2>1, <2>3, <2>t DEF HandleAgentMsg, EmitSignal, CreateCheckpoint
  <2>4. CASE \E w \in Workspaces : ActorNext(w)
    BY <2>2, <2>3, <2>4 DEF ActorNext, ActorStep, Terminate, SendEvent
  <2>5. CASE HandleEvent
    BY <2>5 DEF HandleEvent
  <2>6. CASE \E t \in Tasks, w \in Workspaces : DispatchWorkspace(t, w)
    BY <2>6 DEF DispatchWorkspace, Spawn
  <2>7. CASE UNCHANGED status
    BY <2>7
  <2>8. \/ \E w \in Workspaces : ActorNext(w)
        \/ HandleEvent
        \/ \E t \in Tasks, w \in Workspaces : DispatchWorkspace(t, w)
        \/ UNCHANGED status
    BY StepKinds DEF mirrorVars
  <2> QED
    BY <2>4, <2>5, <2>6, <2>7, <2>8
<1>2. [][Keeps]_vars <=> AbortPrecedence
  BY PTL DEF AbortPrecedence
<1> QED
  BY <1>1, <1>2, TypeCorrect, PTL DEF Spec

-----------------------------------------------------------------------------
(* The commands on their way to the actors                                 *)

\* The commands the runtime sends: no migration and no conflict.
RuntimeCommands == {"Abort", "Suspend", "Resume", "IntegrationSucceeded", "DeliverEnvelope"}

\* A request that starts no actor: what it may send and which gates it touches.
Asks ==
  /\ pc = "select" /\ UNCHANGED <<actorVars, treeVars, toAbort>>
  /\ \/ UNCHANGED <<gates, nextGate, pc, send>>
     \/ /\ \E w \in handles, k \in RuntimeCommands : StartSend(w, "coordinator", Command(k), FALSE, "select")
        /\ UNCHANGED <<gates, nextGate>>
     \/ /\ \E w \in handles, msg \in AgentMessages, gate \in BOOLEAN : StartSend(w, "agent", msg, gate, "select")
        /\ UNCHANGED <<gates, nextGate>>
     \/ /\ \E w \in Workspaces : OpenCheckpointGate(w)
        /\ UNCHANGED <<pc, send>>
     \/ /\ \E g \in gates, k \in {"CheckpointApproved", "CheckpointRejected"} :
             /\ gates' = gates \ {g}
             /\ \/ g.ws \in handles /\ StartSend(g.ws, "coordinator", [kind |-> k, gate |-> g.id], FALSE, "select")
                \/ UNCHANGED <<pc, send>>
        /\ UNCHANGED nextGate

\* Forward starts a send or does nothing.
LEMMA ForwardCases ==
  ASSUME NEW w, NEW chan, NEW msg, Forward(w, chan, msg)
  PROVE  \/ w \in handles /\ StartSend(w, chan, msg, FALSE, "select")
         \/ UNCHANGED <<pc, send>>
BY DEF Forward

\* Every request that starts no actor is one of those.
LEMMA RequestsAsk ==
  ASSUME TypeOK, RequestNext,
         ~\E t \in Tasks, w \in Workspaces : SubmitGoal(t, w) \/ Dispatch(t, w), ~Shutdown
  PROVE  Asks
<1>1. ASSUME NEW t \in Tasks, Decompose(t) PROVE Asks
  BY <1>1 DEF Decompose, Asks, Take, gateVars
<1>2. ASSUME NEW t \in Tasks, CancelTask(t) PROVE Asks
  <2>1. /\ pc = "select" /\ UNCHANGED <<actorVars, treeVars, toAbort, gates, nextGate>>
        /\ Forward(wsRef[t], "coordinator", Command("Abort")) \/ UNCHANGED <<pc, send>>
    BY <1>2 DEF CancelTask, Take, gateVars
  <2>2. "Abort" \in RuntimeCommands
    BY DEF RuntimeCommands
  <2>3. \/ wsRef[t] \in handles /\ StartSend(wsRef[t], "coordinator", Command("Abort"), FALSE, "select")
        \/ UNCHANGED <<pc, send>>
    BY <2>1, ForwardCases
  <2> QED BY <2>1, <2>2, <2>3 DEF Asks
<1>3. ASSUME NEW w \in Workspaces, NEW op, NEW k \in RuntimeCommands, CommandRequest(op, w, k) PROVE Asks
  <2>1. /\ pc = "select" /\ UNCHANGED <<actorVars, treeVars, toAbort, gates, nextGate>>
        /\ Forward(w, "coordinator", Command(k))
    BY <1>3 DEF CommandRequest, Take, gateVars
  <2>2. \/ w \in handles /\ StartSend(w, "coordinator", Command(k), FALSE, "select")
        \/ UNCHANGED <<pc, send>>
    BY <2>1, ForwardCases
  <2> QED BY <2>1, <2>2 DEF Asks
<1>4. ASSUME NEW w \in Workspaces,
             \/ AbortWorkspace(w) \/ SuspendWorkspace(w) \/ ResumeWorkspace(w)
             \/ TriggerIntegration(w)
             \/ SendDirective(w) \/ SendFeedback(w) \/ InjectEnvelope(w) \/ SendEnvelope(w)
      PROVE  Asks
  <2>1. \E op : \E k \in RuntimeCommands : CommandRequest(op, w, k)
    BY <1>4 DEF AbortWorkspace, SuspendWorkspace, ResumeWorkspace, TriggerIntegration, SendDirective,
                SendFeedback, InjectEnvelope, SendEnvelope, RuntimeCommands
  <2> QED BY <1>3, <2>1
<1>5. ASSUME NEW w \in Workspaces, NEW sig \in SignalTypes, AgentSignal(w, sig) PROVE Asks
  <2> DEFINE msg == [kind |-> "EmitSignal", val |-> sig]
  <2>1. /\ pc = "select" /\ UNCHANGED <<actorVars, treeVars, toAbort, gates, nextGate>>
        /\ Forward(w, "agent", msg)
    BY <1>5 DEF AgentSignal, Take, gateVars
  <2>2. msg \in AgentMessages
    BY DEF AgentMessages
  <2> HIDE DEF msg
  <2>3. \/ w \in handles /\ StartSend(w, "agent", msg, FALSE, "select")
        \/ UNCHANGED <<pc, send>>
    BY <2>1, ForwardCases
  <2> QED BY <2>1, <2>2, <2>3 DEF Asks
<1>6. ASSUME NEW w \in Workspaces, NEW wire \in CheckpointStatuses \cup {"Unspecified"}, AgentCheckpoint(w, wire)
      PROVE  Asks
  <2> DEFINE msg == [kind |-> "CreateCheckpoint", val |-> FromWireStatus(wire)]
             gated == wire = "Provisional" /\ tree[w] # Absent
  <2>1. msg \in AgentMessages /\ gated \in BOOLEAN
    BY DEF AgentMessages, FromWireStatus, CheckpointStatuses
  <2>2. /\ pc = "select" /\ UNCHANGED <<actorVars, treeVars, toAbort>>
        /\ \/ w \in handles /\ StartSend(w, "agent", msg, gated, "select") /\ UNCHANGED <<gates, nextGate>>
           \/ OpenCheckpointGate(w) /\ UNCHANGED <<pc, send>>
           \/ UNCHANGED <<gates, nextGate, pc, send>>
    BY <1>6 DEF AgentCheckpoint, Take
  <2> HIDE DEF msg, gated
  <2> QED BY <2>1, <2>2 DEF Asks
<1>7. ASSUME NEW g \in gates, NEW op \in {"Approve", "Reject"}, RespondToGate(g, op) PROVE Asks
  <2>1. PICK k \in {"CheckpointApproved", "CheckpointRejected"} : Forward(g.ws, "coordinator", [kind |-> k, gate |-> g.id])
    BY <1>7 DEF RespondToGate
  <2>2. pc = "select" /\ UNCHANGED <<actorVars, treeVars, toAbort, nextGate>> /\ gates' = gates \ {g}
    BY <1>7 DEF RespondToGate, Take
  <2>3. \/ g.ws \in handles /\ StartSend(g.ws, "coordinator", [kind |-> k, gate |-> g.id], FALSE, "select")
        \/ UNCHANGED <<pc, send>>
    BY <2>1, ForwardCases
  <2> QED BY <2>2, <2>3 DEF Asks
<1>8. ASSUME NEW x \in escalations, NEW op \in {"EscFeedback", "EscAbort", "EscDelegate"}, RespondToEscalation(x, op)
      PROVE  Asks
  <2>1. /\ pc = "select" /\ UNCHANGED <<actorVars, treeVars, toAbort, gates, nextGate>>
        /\ \/ Forward(x.ws, "coordinator", Command("DeliverEnvelope"))
           \/ Forward(x.ws, "coordinator", Command("Abort"))
           \/ UNCHANGED <<pc, send>>
    BY <1>8 DEF RespondToEscalation, Take, gateVars
  <2>2. "DeliverEnvelope" \in RuntimeCommands /\ "Abort" \in RuntimeCommands
    BY DEF RuntimeCommands
  <2>3. \/ x.ws \in handles /\ StartSend(x.ws, "coordinator", Command("DeliverEnvelope"), FALSE, "select")
        \/ x.ws \in handles /\ StartSend(x.ws, "coordinator", Command("Abort"), FALSE, "select")
        \/ UNCHANGED <<pc, send>>
    BY <2>1, ForwardCases
  <2> QED BY <2>1, <2>2, <2>3 DEF Asks
<1> QED BY <1>1, <1>2, <1>4, <1>5, <1>6, <1>7, <1>8 DEF RequestNext

-----------------------------------------------------------------------------
(* First response wins.                                                    *)

\* The gate answered by the i-th command queued for w.
Answer(w, i) == coordQ[w][i].gate

\* The loop awaits the send of the answer to gate k.
Answering(k) == pc = "sending" /\ send.chan = "coordinator" /\ send.msg.gate = k

\* Gate ids come from the counter, and no two pending gates share one.
GatesNumbered ==
  /\ 0 < nextGate
  /\ \A g \in gates : g.id < nextGate
  /\ \A g, h \in gates : g.id = h.id => g = h

\* A queued answer is to a gate that is no longer pending, and is the only one.
QueuedAnswers ==
  /\ \A w \in Workspaces : \A i \in DOMAIN coordQ[w] :
       /\ Answer(w, i) < nextGate
       /\ Answer(w, i) # 0 => \A g \in gates : g.id # Answer(w, i)
  /\ \A w, v \in Workspaces : \A i \in DOMAIN coordQ[w], j \in DOMAIN coordQ[v] :
       Answer(w, i) = Answer(v, j) /\ Answer(w, i) # 0 => w = v /\ i = j

\* So is an answer that is still being sent.
SentAnswer ==
  \A k \in Nat : Answering(k) =>
    /\ k < nextGate
    /\ k # 0 => /\ \A g \in gates : g.id # k
                /\ \A w \in Workspaces : \A i \in DOMAIN coordQ[w] : Answer(w, i) # k

GateInv == GatesNumbered /\ QueuedAnswers /\ SentAnswer

\* An actor only shortens the queues, from the front.
LEMMA QueuesShrink ==
  ASSUME TypeOK, NEW w \in Workspaces, ActorNext(w), NEW v \in Workspaces
  PROVE  \E k \in Nat : \A i \in DOMAIN coordQ'[v] : i + k \in DOMAIN coordQ[v] /\ coordQ'[v][i] = coordQ[v][i + k]
<1>t. coordQ \in [Workspaces -> Seq(Commands)] /\ coordQ[v] \in Seq(Commands)
  BY DEF TypeOK, ActorTypeOK
<1>1. CASE coordQ'[v] = coordQ[v]
  <2>1. \A i \in DOMAIN coordQ[v] : i + 0 = i
    BY <1>t
  <2> QED BY <1>1, <2>1
<1>2. CASE coordQ'[v] = <<>>
  BY <1>2
<1>3. CASE coordQ'[v] = Tail(coordQ[v]) /\ coordQ[v] # <<>>
  <2>1. \A i \in DOMAIN Tail(coordQ[v]) : i + 1 \in DOMAIN coordQ[v] /\ Tail(coordQ[v])[i] = coordQ[v][i + 1]
    BY <1>t, <1>3
  <2> QED BY <1>3, <2>1
<1>4. HandleCommand(w) \/ HandleAgentMsg(w) \/ Terminate(w) \/ SendEvent(w)
  BY DEF ActorNext, ActorStep
<1>5. CASE HandleCommand(w)
  BY <1>1, <1>3, <1>5, <1>t DEF HandleCommand
<1>6. CASE HandleAgentMsg(w) \/ Terminate(w)
  BY <1>1, <1>6 DEF HandleAgentMsg, Terminate
<1>7. CASE SendEvent(w)
  BY <1>1, <1>2, <1>7, <1>t DEF SendEvent
<1> QED BY <1>4, <1>5, <1>6, <1>7

\* No gates, no commands.
LEMMA GateInit == Init => GateInv
BY DEF Init, ActorInit, GateInv, GatesNumbered, QueuedAnswers, SentAnswer, Answering, Answer

\* A queued command names a gate, or 0.
LEMMA AnswerType ==
  ASSUME coordQ \in [Workspaces -> Seq(Commands)], NEW v \in Workspaces, NEW i \in DOMAIN coordQ[v]
  PROVE  Answer(v, i) \in Nat
<1>1. coordQ[v] \in Seq(Commands)
  OBVIOUS
<1>2. coordQ[v][i] \in Commands
  BY <1>1
<1> QED BY <1>2 DEF Answer, Commands

\* Opening a gate takes a fresh id.
LEMMA OpeningKeeps ==
  ASSUME TypeOK, GateInv, NEW w \in Workspaces, OpenCheckpointGate(w), UNCHANGED <<coordQ, pc, send>>
  PROVE  GateInv'
<1> DEFINE n == [id |-> nextGate, ws |-> w]
<1>0. /\ coordQ \in [Workspaces -> Seq(Commands)] /\ nextGate \in Nat /\ gates \subseteq Gates
      /\ gates' = gates \cup {n} /\ nextGate' = nextGate + 1 /\ n.id = nextGate
  BY DEF TypeOK, ActorTypeOK, OpenCheckpointGate
<1>1. \A g \in gates : g.id \in Nat
  BY <1>0 DEF Gates
<1>2. \A v \in Workspaces : \A i \in DOMAIN coordQ[v] : Answer(v, i) \in Nat
  BY <1>0, AnswerType
<1> HIDE DEF n
<1>3. GatesNumbered'
  BY <1>0, <1>1 DEF GateInv, GatesNumbered
<1>4. QueuedAnswers'
  <2>1. \A v, i : Answer(v, i)' = Answer(v, i)
    BY DEF Answer
  <2> QED BY <1>0, <1>2, <2>1 DEF GateInv, QueuedAnswers
<1>5. SentAnswer'
  <2>1. \A v, i : Answer(v, i)' = Answer(v, i)
    BY DEF Answer
  <2>2. \A k : Answering(k)' <=> Answering(k)
    BY DEF Answering
  <2> QED BY <1>0, <2>1, <2>2 DEF GateInv, SentAnswer
<1> QED BY <1>3, <1>4, <1>5 DEF GateInv

\* The loop sends nothing afterwards and the rest stands.
LEMMA SilentKeeps ==
  ASSUME GateInv, UNCHANGED <<coordQ, gates, nextGate>>, UNCHANGED <<pc, send>> \/ pc' # "sending"
  PROVE  GateInv'
<1>1. \A v, i : Answer(v, i)' = Answer(v, i)
  BY DEF Answer
<1>2. \A k : Answering(k)' => Answering(k)
  BY DEF Answering
<1> QED BY <1>1, <1>2 DEF GateInv, GatesNumbered, QueuedAnswers, SentAnswer

\* Starting to send an agent message, or a command that answers no gate.
LEMMA PlainSendKeeps ==
  ASSUME GateInv, UNCHANGED <<coordQ, gates, nextGate>>,
         \/ \E w, msg, gate, back : StartSend(w, "agent", msg, gate, back)
         \/ \E w, k, gate, back : StartSend(w, "coordinator", Command(k), gate, back)
  PROVE  GateInv'
<1>1. \A v, i : Answer(v, i)' = Answer(v, i)
  BY DEF Answer
<1>2. \A k : Answering(k)' => k = 0
  BY DEF Answering, StartSend, Command
<1> QED BY <1>1, <1>2 DEF GateInv, GatesNumbered, QueuedAnswers, SentAnswer

\* Answering a gate removes it from the pending ones.
LEMMA AnswerKeeps ==
  ASSUME TypeOK, GateInv, UNCHANGED <<coordQ, nextGate>>, NEW g \in gates, gates' = gates \ {g},
         \/ UNCHANGED <<pc, send>>
         \/ \E w, k : StartSend(w, "coordinator", [kind |-> k, gate |-> g.id], FALSE, "select")
  PROVE  GateInv'
<1>1. \A v, i : Answer(v, i)' = Answer(v, i)
  BY DEF Answer
<1>2. \A k : Answering(k)' => (k = g.id \/ Answering(k))
  BY DEF Answering, StartSend
<1>3. GatesNumbered' /\ QueuedAnswers'
  BY <1>1 DEF GateInv, GatesNumbered, QueuedAnswers
<1>4. SentAnswer'
  <2> SUFFICES ASSUME NEW k \in Nat, Answering(k)'
               PROVE  /\ k < nextGate'
                      /\ k # 0 => /\ \A h \in gates' : h.id # k
                                  /\ \A w \in Workspaces : \A i \in DOMAIN coordQ'[w] : Answer(w, i)' # k
    BY DEF SentAnswer
  <2>1. CASE k = g.id
    BY <1>1, <2>1 DEF GateInv, GatesNumbered, QueuedAnswers
  <2>2. CASE Answering(k)
    BY <1>1, <2>2 DEF GateInv, SentAnswer
  <2> QED BY <1>2, <2>1, <2>2
<1> QED BY <1>3, <1>4 DEF GateInv

\* The completed send moves its answer to the queue.
LEMMA CompletedSendKeeps == TypeOK /\ GateInv /\ CompleteSend => GateInv'
<1> SUFFICES ASSUME TypeOK, GateInv, CompleteSend PROVE GateInv'
  OBVIOUS
<1>w. PICK w \in Workspaces : w = send.ws
  BY DEF TypeOK, CompleteSend, SendRecords
<1>t. /\ coordQ \in [Workspaces -> Seq(Commands)] /\ nextGate \in Nat /\ gates \subseteq Gates
      /\ send \in SendRecords /\ pc = "sending" /\ pc' # "sending"
  BY DEF TypeOK, ActorTypeOK, CompleteSend, SendRecords
<1>0. \A g \in gates : g.id \in Nat
  BY <1>t DEF Gates
<1>1. \/ UNCHANGED coordQ
      \/ send.chan = "coordinator" /\ coordQ' = [coordQ EXCEPT ![w] = Append(@, send.msg)]
  BY <1>w DEF CompleteSend
<1>2. \/ UNCHANGED <<gates, nextGate>>
      \/ gates' = gates \cup {[id |-> nextGate, ws |-> w]} /\ nextGate' = nextGate + 1
  BY <1>w DEF CompleteSend, OpenCheckpointGate
<1>3. \A v \in Workspaces : \A i \in DOMAIN coordQ[v] : Answer(v, i) \in Nat
  BY <1>t, AnswerType
<1>4. \A g \in gates' : g \in gates \/ (g.id = nextGate /\ nextGate' = nextGate + 1)
  BY <1>2
<1>5. nextGate' \in Nat /\ nextGate <= nextGate'
  BY <1>t, <1>2
<1>6. GatesNumbered'
  <2>1. \A g, h \in gates' : g.id = h.id => g = h
    BY <1>t, <1>0, <1>2 DEF GateInv, GatesNumbered
  <2> QED BY <1>t, <1>0, <1>4, <1>5, <2>1 DEF GateInv, GatesNumbered
<1>7. ~\E k : Answering(k)'
  BY <1>t DEF Answering
<1>8. CASE UNCHANGED coordQ
  <2>1. \A v, i : Answer(v, i)' = Answer(v, i)
    BY <1>8 DEF Answer
  <2>2. QueuedAnswers'
    BY <1>t, <1>0, <1>3, <1>4, <1>5, <1>8, <2>1 DEF GateInv, QueuedAnswers
  <2> QED BY <1>6, <1>7, <2>2 DEF GateInv, SentAnswer
<1>9. CASE send.chan = "coordinator" /\ coordQ' = [coordQ EXCEPT ![w] = Append(@, send.msg)]
  <2>k. PICK k \in Nat : k = send.msg.gate
    BY <1>t, <1>9 DEF SendRecords, Commands
  <2>n. PICK n \in Nat : n = Len(coordQ[w]) + 1
    BY <1>t
  <2>1. send.msg \in Commands
    BY <1>t, <1>9 DEF SendRecords
  <2>2. Answering(k)
    BY <1>t, <1>9, <2>k DEF Answering
  <2>3. /\ k < nextGate
        /\ k # 0 => /\ \A g \in gates : g.id # k
                    /\ \A v \in Workspaces : \A i \in DOMAIN coordQ[v] : Answer(v, i) # k
    BY <2>1, <2>2 DEF GateInv, SentAnswer
  <2>4. /\ coordQ[w] \in Seq(Commands) /\ coordQ'[w] = Append(coordQ[w], send.msg)
        /\ \A v \in Workspaces \ {w} : coordQ'[v] = coordQ[v]
    BY <1>t, <1>9
  <2>5. /\ DOMAIN coordQ'[w] = DOMAIN coordQ[w] \cup {n} /\ n \notin DOMAIN coordQ[w]
        /\ coordQ'[w][n] = send.msg
        /\ \A i \in DOMAIN coordQ[w] : coordQ'[w][i] = coordQ[w][i]
    BY <2>1, <2>4, <2>n
  <2>6. /\ \A v \in Workspaces : \A i \in DOMAIN coordQ[v] : Answer(v, i)' = Answer(v, i)
        /\ Answer(w, n)' = k
        /\ \A v \in Workspaces : \A i \in DOMAIN coordQ'[v] : i \in DOMAIN coordQ[v] \/ (v = w /\ i = n)
    BY <2>4, <2>5, <2>k DEF Answer
  <2>7. \A v \in Workspaces : \A i \in DOMAIN coordQ'[v] :
          /\ Answer(v, i)' < nextGate'
          /\ Answer(v, i)' # 0 => \A g \in gates' : g.id # Answer(v, i)'
    <3> SUFFICES ASSUME NEW v \in Workspaces, NEW i \in DOMAIN coordQ'[v]
                 PROVE  /\ Answer(v, i)' < nextGate'
                        /\ Answer(v, i)' # 0 => \A g \in gates' : g.id # Answer(v, i)'
      OBVIOUS
    <3>1. /\ Answer(v, i)' < nextGate /\ Answer(v, i)' \in Nat
          /\ Answer(v, i)' # 0 => \A g \in gates : g.id # Answer(v, i)'
      BY <1>3, <2>1, <2>3, <2>6 DEF GateInv, QueuedAnswers
    <3> QED BY <1>t, <1>4, <1>5, <3>1
  <2>8. ASSUME NEW u \in Workspaces, NEW v \in Workspaces, NEW i \in DOMAIN coordQ'[u], NEW j \in DOMAIN coordQ'[v],
               Answer(u, i)' = Answer(v, j)', Answer(u, i)' # 0
        PROVE  u = v /\ i = j
    <3>1. CASE i \in DOMAIN coordQ[u] /\ j \in DOMAIN coordQ[v]
      BY <2>6, <2>8, <3>1 DEF GateInv, QueuedAnswers
    <3>2. CASE ~(i \in DOMAIN coordQ[u] /\ j \in DOMAIN coordQ[v])
      BY <2>3, <2>6, <2>8, <3>2
    <3> QED BY <3>1, <3>2
  <2>9. QueuedAnswers'
    BY <2>7, <2>8 DEF QueuedAnswers
  <2> QED BY <1>6, <1>7, <2>9 DEF GateInv, SentAnswer
<1> QED BY <1>1, <1>8, <1>9

\* Every step keeps the answers unique.
LEMMA GateStep == TypeOK /\ GateInv /\ [Next]_vars => GateInv'
<1> SUFFICES ASSUME TypeOK, GateInv, [Next]_vars PROVE GateInv'
  OBVIOUS
<1>1. ASSUME NEW w \in Workspaces, ActorNext(w) PROVE GateInv'
  <2>1. UNCHANGED <<gates, nextGate, pc, send>>
    BY <1>1 DEF ActorNext, gateVars, loopVars
  <2>2. \A v \in Workspaces : \E k \in Nat : \A i \in DOMAIN coordQ'[v] :
          i + k \in DOMAIN coordQ[v] /\ Answer(v, i)' = Answer(v, i + k)
    BY <1>1, QueuesShrink DEF Answer
  <2>3. \A k : Answering(k)' <=> Answering(k)
    BY <2>1 DEF Answering
  <2>4. GatesNumbered' /\ SentAnswer'
    BY <2>1, <2>2, <2>3 DEF GateInv, GatesNumbered, SentAnswer
  <2>5. ASSUME NEW u \in Workspaces, NEW v \in Workspaces, NEW i \in DOMAIN coordQ'[u], NEW j \in DOMAIN coordQ'[v],
               Answer(u, i)' = Answer(v, j)', Answer(u, i)' # 0
        PROVE  u = v /\ i = j
    <3>0. coordQ \in [Workspaces -> Seq(Commands)] /\ coordQ' \in [Workspaces -> Seq(Commands)]
      BY NextType DEF TypeOK, ActorTypeOK
    <3>1. PICK k \in Nat : \A x \in DOMAIN coordQ'[u] : x + k \in DOMAIN coordQ[u] /\ Answer(u, x)' = Answer(u, x + k)
      BY <2>2
    <3>2. PICK m \in Nat : \A x \in DOMAIN coordQ'[v] : x + m \in DOMAIN coordQ[v] /\ Answer(v, x)' = Answer(v, x + m)
      BY <2>2
    <3>3. u = v /\ i + k = j + m
      BY <2>5, <3>1, <3>2 DEF GateInv, QueuedAnswers
    <3>4. u = v => \A x \in DOMAIN coordQ'[u] : Answer(u, x)' = Answer(u, x + m) /\ x + m \in DOMAIN coordQ[u]
      BY <3>2
    <3>5. Answer(u, i + k) = Answer(u, i + m) /\ i + m \in DOMAIN coordQ[u] /\ Answer(u, i + k) # 0
      BY <2>5, <3>1, <3>3, <3>4
    <3>6. i + k = i + m
      BY <3>1, <3>5 DEF GateInv, QueuedAnswers
    <3>7. i \in Nat /\ j \in Nat
      BY <3>0
    <3> QED BY <3>3, <3>6, <3>7
  <2>6. QueuedAnswers'
    <3>1. \A v \in Workspaces : \A i \in DOMAIN coordQ'[v] :
            /\ Answer(v, i)' < nextGate'
            /\ Answer(v, i)' # 0 => \A g \in gates' : g.id # Answer(v, i)'
      BY <2>1, <2>2 DEF GateInv, QueuedAnswers
    <3> QED BY <2>5, <3>1 DEF QueuedAnswers
  <2> QED BY <2>4, <2>6 DEF GateInv
<1>2. CASE HandleEvent
  <2>1. UNCHANGED <<coordQ, gates, nextGate>>
    BY <1>2 DEF HandleEvent, gateVars
  <2>2. UNCHANGED <<pc, send>> \/ \E w, k, gate, back : StartSend(w, "coordinator", Command(k), gate, back)
    BY <1>2 DEF HandleEvent, OnStateChanged, OnCheckpointCreated, OnTerminated, OnSignal, OnOther, AutoIntegrate
  <2> QED BY <2>1, <2>2, SilentKeeps, PlainSendKeeps
<1>3. ASSUME NEW w \in Workspaces, AbortNext(w) PROVE GateInv'
  <2>1. UNCHANGED <<coordQ, gates, nextGate>>
    BY <1>3 DEF AbortNext, actorVars, gateVars
  <2>2. UNCHANGED <<pc, send>> \/ \E v, k, gate, back : StartSend(v, "coordinator", Command(k), gate, back)
    BY <1>3 DEF AbortNext
  <2> QED BY <2>1, <2>2, SilentKeeps, PlainSendKeeps
<1>4. CASE BeginDrain \/ DrainTimeout \/ Shutdown
  BY <1>4, SilentKeeps DEF BeginDrain, DrainTimeout, Shutdown, actorVars, gateVars
<1>5. ASSUME NEW t \in Tasks, NEW w \in Workspaces, SubmitGoal(t, w) \/ Dispatch(t, w) PROVE GateInv'
  BY <1>5, SilentKeeps DEF SubmitGoal, Dispatch, DispatchWorkspace, Spawn, gateVars
<1>6. CASE Asks
  <2>1. UNCHANGED coordQ
    BY <1>6 DEF Asks, actorVars
  <2>2. \/ UNCHANGED <<gates, nextGate, pc, send>>
        \/ /\ UNCHANGED <<gates, nextGate>>
           /\ \/ \E w, msg, gate, back : StartSend(w, "agent", msg, gate, back)
              \/ \E w, k, gate, back : StartSend(w, "coordinator", Command(k), gate, back)
        \/ /\ \E w \in Workspaces : OpenCheckpointGate(w)
           /\ UNCHANGED <<pc, send>>
        \/ /\ \E g \in gates : /\ gates' = gates \ {g}
                               /\ \/ UNCHANGED <<pc, send>>
                                  \/ \E w, k : StartSend(w, "coordinator", [kind |-> k, gate |-> g.id], FALSE, "select")
           /\ UNCHANGED nextGate
    BY <1>6 DEF Asks
  <2> QED BY <2>1, <2>2, SilentKeeps, PlainSendKeeps, OpeningKeeps, AnswerKeeps
<1>7. CASE UNCHANGED vars
  BY <1>7, SilentKeeps DEF vars, actorVars, gateVars, loopVars
<1> QED BY <1>1, <1>2, <1>3, <1>4, <1>5, <1>6, <1>7, CompletedSendKeeps, RequestsAsk DEF Next, LoopNext, RequestNext

\* Gate ids are unique and every answer is to a gate no longer pending.
THEOREM AnswersAreUnique == Spec => []FirstResponseWins
<1>1. TypeOK /\ GateInv => FirstResponseWins
  <2> SUFFICES ASSUME TypeOK, GateInv PROVE FirstResponseWins
    OBVIOUS
  <2>1. \A w \in Workspaces : AnswersInFlight(w) = {Answer(w, i) : i \in DOMAIN coordQ[w]} \ {0}
    BY DEF AnswersInFlight, Answer
  <2>2. pc = "sending" /\ send.chan = "coordinator" => send.msg.gate \in Nat /\ Answering(send.msg.gate)
    BY DEF TypeOK, SendRecords, Commands, Answering
  <2>3. pc = "sending" /\ send.chan = "coordinator" /\ send.msg.gate # 0 =>
          /\ \A g \in gates : g.id # send.msg.gate
          /\ \A w \in Workspaces : send.msg.gate \notin AnswersInFlight(w)
    BY <2>1, <2>2 DEF GateInv, SentAnswer
  <2>4. \A g \in gates, w \in Workspaces : g.id \notin AnswersInFlight(w)
    BY <2>1 DEF GateInv, QueuedAnswers
  <2>5. \A w \in Workspaces : \A i, j \in DOMAIN coordQ[w] : (i # j /\ Answer(w, i) # 0) => Answer(w, i) # Answer(w, j)
    BY DEF GateInv, QueuedAnswers
  <2>6. \A w, v \in Workspaces : w # v => AnswersInFlight(w) \cap AnswersInFlight(v) = {}
    BY <2>1 DEF GateInv, QueuedAnswers
  <2> QED BY <2>3, <2>4, <2>5, <2>6 DEF FirstResponseWins, GateInv, GatesNumbered, Answer
<1>2. TypeOK /\ GateInv /\ [Next]_vars => GateInv'
  BY GateStep
<1> QED BY <1>1, <1>2, GateInit, TypeCorrect, PTL DEF Spec

-----------------------------------------------------------------------------
(* shutdown() sees every actor end.                                        *)

\* The commands that can be in a queue: those, and the answers to the gates.
SentKinds == RuntimeCommands \cup {"CheckpointApproved", "CheckpointRejected"}

Queued(w, k) == \E i \in DOMAIN coordQ[w] : coordQ[w][i].kind = k

Sending(w, k) == pc = "sending" /\ send.ws = w /\ send.chan = "coordinator" /\ send.msg.kind = k

\* A command of kind k is on its way to w.
Coming(w, k) == Queued(w, k) \/ Sending(w, k)

OnlySentKinds ==
  \A w \in Workspaces : \A k \in DOMAIN CommandTrigger \ SentKinds : ~Coming(w, k)

\* An event that makes the loop integrate w.
AsksIntegration(e, w) == e.ws = w /\ e.kind = "StateChanged" /\ e.val = "Integrating"

Asked(q, w) == \E i \in DOMAIN q : AsksIntegration(q[i], w)

\* No command freezes a workspace or finds a conflict, so it has one of these
\* states; it has left only once it ended, and has a node from the start.
Unfrozen(w) ==
  /\ status[w] \notin {"Migrating", "Conflicted"}
  /\ phase[w] \in {"exiting", "exited"} => status[w] \in TerminalStates
  /\ phase[w] # "unborn" => tree[w] # Absent

\* A workspace that waits for its integration will be asked about or answered.
IntegrationComes(w) ==
  phase[w] = "running" /\ status[w] = "Integrating" =>
    Asked(outbox[w], w) \/ Asked(events, w) \/ Coming(w, "IntegrationSucceeded")

\* shutdown() has begun, and the abort loop is over.
Down == pc \in {"aborting", "draining", "stopped"} \/ (pc = "sending" /\ send.back # "select")
AbortsDone == pc \in {"draining", "stopped"} \/ (pc = "sending" /\ send.back = "draining")

\* A workspace that does not integrate has its abort to come.
AbortComes(w) ==
  Down /\ phase[w] = "running" /\ status[w] \notin TerminalStates \cup {"Integrating"} =>
    w \in toAbort \/ Coming(w, "Abort")

StopInv ==
  /\ OnlySentKinds
  /\ \A w \in Workspaces : Unfrozen(w) /\ IntegrationComes(w) /\ AbortComes(w)
  /\ AbortsDone => toAbort = {}
  /\ StoppedMeansEnded

\* The steps of the runtime, as these proofs tell them apart.
LEMMA AllSteps ==
  ASSUME TypeOK, [Next]_vars
  PROVE  \/ \E w \in Workspaces : ActorNext(w)
         \/ HandleEvent
         \/ CompleteSend
         \/ \E w \in Workspaces : AbortNext(w)
         \/ BeginDrain \/ DrainTimeout \/ Shutdown
         \/ \E t \in Tasks, w \in Workspaces : SubmitGoal(t, w) \/ Dispatch(t, w)
         \/ Asks
         \/ UNCHANGED vars
BY RequestsAsk DEF Next, LoopNext, RequestNext

\* From any state but Integrating an abort fails the workspace; an integrating
\* one closes on success and otherwise leaves only by a conflict or a failure;
\* nothing but a migration or a conflict leads to the other two states.
LEMMA WorkspaceFacts ==
  ASSUME NEW st \in WorkspaceStates, NEW t
  PROVE  /\ st \in {"Idle", "Active", "Blocked", "Suspended"} => NextState(st, "CoordinatorAbort") = "Failed"
         /\ NextState("Integrating", "IntegrationSucceeded") = "Closed"
         /\ t # "ConflictDetected" => NextState("Integrating", t) \in TerminalStates \cup {"Integrating"}
         /\ st \notin {"Migrating", "Conflicted"} /\ t \notin {"CoordinatorMigrate", "ConflictDetected"}
              => NextState(st, t) \notin {"Migrating", "Conflicted"}
<1>1. ASSUME NEW x \in WorkspaceStates, NEW u
      PROVE  /\ IsLegal(x, u) => <<x, u, NextState(x, u)>> \in WorkspaceEdges
             /\ ~IsLegal(x, u) => NextState(x, u) = x
  BY DEF IsLegal, NextState
<1>2. st \in {"Idle", "Active", "Blocked", "Suspended"} => NextState(st, "CoordinatorAbort") = "Failed"
  <2> SUFFICES ASSUME st \in {"Idle", "Active", "Blocked", "Suspended"} PROVE NextState(st, "CoordinatorAbort") = "Failed"
    OBVIOUS
  <2>1. <<st, "CoordinatorAbort", "Failed">> \in WorkspaceEdges
    BY DEF WorkspaceEdges
  <2>2. \A to : <<st, "CoordinatorAbort", to>> \in WorkspaceEdges => to = "Failed"
    BY DEF WorkspaceEdges
  <2>3. IsLegal(st, "CoordinatorAbort")
    BY <2>1 DEF IsLegal, WorkspaceStates
  <2> QED BY <1>1, <2>2, <2>3
<1>3. NextState("Integrating", "IntegrationSucceeded") = "Closed"
  <2>1. <<"Integrating", "IntegrationSucceeded", "Closed">> \in WorkspaceEdges
    BY DEF WorkspaceEdges
  <2>2. \A to : <<"Integrating", "IntegrationSucceeded", to>> \in WorkspaceEdges => to = "Closed"
    BY DEF WorkspaceEdges
  <2>3. IsLegal("Integrating", "IntegrationSucceeded") /\ "Integrating" \in WorkspaceStates
    BY <2>1 DEF IsLegal, WorkspaceStates
  <2> QED BY <1>1, <2>2, <2>3
<1>4. t # "ConflictDetected" => NextState("Integrating", t) \in TerminalStates \cup {"Integrating"}
  <2>1. \A to : <<"Integrating", t, to>> \in WorkspaceEdges /\ t # "ConflictDetected" => to \in {"Closed", "Failed"}
    BY DEF WorkspaceEdges
  <2>2. "Integrating" \in WorkspaceStates
    BY DEF WorkspaceStates
  <2> QED BY <1>1, <2>1, <2>2 DEF TerminalStates
<1>5. st \notin {"Migrating", "Conflicted"} /\ t \notin {"CoordinatorMigrate", "ConflictDetected"}
        => NextState(st, t) \notin {"Migrating", "Conflicted"}
  <2>1. \A to : <<st, t, to>> \in WorkspaceEdges /\ to \in {"Migrating", "Conflicted"} => t \in {"CoordinatorMigrate", "ConflictDetected"}
    BY DEF WorkspaceEdges
  <2> QED BY <1>1, <2>1
<1> QED BY <1>2, <1>3, <1>4, <1>5

\* What the commands in use do to the status.
LEMMA CommandEffects ==
  ASSUME TypeOK, NEW w \in Workspaces, HandleCommand(w), Head(coordQ[w]).kind \in SentKinds,
         status[w] \notin {"Migrating", "Conflicted"}
  PROVE  /\ status'[w] \notin {"Migrating", "Conflicted"}
         /\ status'[w] = "Integrating" => status[w] = "Integrating" /\ Head(coordQ[w]).kind # "IntegrationSucceeded"
         /\ status[w] = "Integrating" => status'[w] \in TerminalStates \cup {"Integrating"}
         /\ Head(coordQ[w]).kind = "Abort" => status'[w] \in TerminalStates \cup {"Integrating"}
<1> DEFINE k == Head(coordQ[w]).kind
<1>t. status \in [Workspaces -> WorkspaceStates] /\ status[w] \in WorkspaceStates /\ status[w] \notin TerminalStates
  BY DEF TypeOK, ActorTypeOK, HandleCommand, Selecting
<1>1. CASE k = "DeliverEnvelope"
  <2>1. status'[w] = status[w] \/ (status[w] = "Idle" /\ status'[w] = NextState(status[w], "ReceiveFirstEnvelope"))
    BY <1>t, <1>1 DEF HandleCommand, DeliverEnvelope
  <2>2. status'[w] = status[w] \/ status'[w] \notin {"Migrating", "Conflicted", "Integrating"}
    BY <1>t, <2>1, OnlyCompletionIntegrates, WorkspaceFacts
  <2> QED BY <1>1, <2>1, <2>2
<1>2. CASE k # "DeliverEnvelope"
  <2> DEFINE t == CommandTrigger[k]
  <2>1. status'[w] = NextState(status[w], t)
    BY <1>t, <1>2 DEF HandleCommand, TriggerCommand
  <2>2. /\ t \notin {"AgentComplete", "CoordinatorMigrate", "ConflictDetected"}
        /\ k = "Abort" => t = "CoordinatorAbort"
        /\ k = "IntegrationSucceeded" => t = "IntegrationSucceeded"
    BY <1>2 DEF SentKinds, RuntimeCommands, CommandTrigger
  <2> HIDE DEF t, k
  <2>3. status'[w] \notin {"Migrating", "Conflicted"}
    BY <1>t, <2>1, <2>2, WorkspaceFacts
  <2>4. status'[w] = "Integrating" => status[w] = "Integrating"
    BY <1>t, <2>1, <2>2, OnlyCompletionIntegrates
  <2>5. status[w] = "Integrating" => status'[w] \in TerminalStates \cup {"Integrating"}
    BY <1>t, <2>1, <2>2, WorkspaceFacts
  <2>6. status[w] = "Integrating" /\ k = "IntegrationSucceeded" => status'[w] = "Closed"
    BY <1>t, <2>1, <2>2, WorkspaceFacts
  <2>7. status[w] \in {"Idle", "Active", "Blocked", "Suspended"} /\ k = "Abort" => status'[w] = "Failed"
    BY <1>t, <2>1, <2>2, WorkspaceFacts
  <2>8. status[w] \in {"Idle", "Active", "Blocked", "Suspended", "Integrating"}
    BY <1>t DEF WorkspaceStates, TerminalStates
  <2> QED BY <2>3, <2>4, <2>5, <2>6, <2>7, <2>8 DEF TerminalStates, k
<1> QED BY <1>1, <1>2

\* What the agent's messages do to the status.
LEMMA MessageEffects ==
  ASSUME TypeOK, NEW w \in Workspaces, HandleAgentMsg(w), status[w] \notin {"Migrating", "Conflicted"}
  PROVE  /\ status'[w] \notin {"Migrating", "Conflicted"}
         /\ status[w] = "Integrating" => status'[w] \in TerminalStates \cup {"Integrating"}
<1> DEFINE msg == Head(agentQ[w])
<1>t. status \in [Workspaces -> WorkspaceStates] /\ status[w] \in WorkspaceStates
  BY DEF TypeOK, ActorTypeOK
<1>1. status'[w] = status[w] \/ \E t : t \notin {"CoordinatorMigrate", "ConflictDetected"} /\ status'[w] = NextState(status[w], t)
  <2>1. CASE EmitSignal(w, msg.val)
    <3>1. \A sig \in DOMAIN SignalTrigger : SignalTrigger[sig] \notin {"CoordinatorMigrate", "ConflictDetected"}
      BY DEF SignalTrigger
    <3> QED BY <1>t, <2>1, <3>1 DEF EmitSignal
  <2>2. CASE CreateCheckpoint(w, msg.val)
    BY <1>t, <2>2 DEF CreateCheckpoint
  <2> QED BY <2>1, <2>2 DEF HandleAgentMsg
<1> QED BY <1>t, <1>1, WorkspaceFacts

\* The queue after a completed send.
LEMMA CompletedSend ==
  ASSUME TypeOK, CompleteSend, NEW v \in Workspaces, NEW k
  PROVE  /\ pc = "sending" /\ pc' = send.back /\ pc' # "sending"
         /\ Coming(v, k)' => Coming(v, k)
         /\ phase[v] # "exited" /\ Coming(v, k) => Coming(v, k)'
<1>w. PICK w \in Workspaces : w = send.ws
  BY DEF TypeOK, CompleteSend, SendRecords
<1>t. /\ coordQ \in [Workspaces -> Seq(Commands)] /\ coordQ[v] \in Seq(Commands)
      /\ send \in SendRecords /\ pc = "sending" /\ pc' = send.back /\ pc' # "sending"
  BY DEF TypeOK, ActorTypeOK, CompleteSend, SendRecords
<1>1. \/ UNCHANGED coordQ /\ (phase[w] = "exited" \/ send.chan # "coordinator")
      \/ send.chan = "coordinator" /\ coordQ' = [coordQ EXCEPT ![w] = Append(@, send.msg)]
  BY <1>w DEF CompleteSend, Closed
<1>2. ~Sending(v, k)'
  BY <1>t DEF Sending
<1>3. CASE UNCHANGED coordQ /\ (phase[w] = "exited" \/ send.chan # "coordinator")
  BY <1>t, <1>w, <1>2, <1>3 DEF Coming, Queued, Sending
<1>4. CASE send.chan = "coordinator" /\ coordQ' = [coordQ EXCEPT ![w] = Append(@, send.msg)] /\ v # w
  <2>1. coordQ'[v] = coordQ[v] /\ ~Sending(v, k)
    BY <1>t, <1>w, <1>4 DEF Sending
  <2> QED BY <1>t, <1>2, <2>1 DEF Coming, Queued
<1>5. CASE send.chan = "coordinator" /\ coordQ' = [coordQ EXCEPT ![w] = Append(@, send.msg)] /\ v = w
  <2>1. send.msg \in Commands /\ coordQ'[v] = Append(coordQ[v], send.msg)
    BY <1>t, <1>5 DEF SendRecords
  <2>n. PICK n \in Nat : n = Len(coordQ[v]) + 1
    BY <1>t
  <2>2. /\ DOMAIN coordQ'[v] = DOMAIN coordQ[v] \cup {n} /\ coordQ'[v][n] = send.msg
        /\ \A i \in DOMAIN coordQ[v] : coordQ'[v][i] = coordQ[v][i]
    BY <1>t, <2>1, <2>n
  <2>3. Sending(v, k) <=> send.msg.kind = k
    BY <1>t, <1>w, <1>5 DEF Sending
  <2>4. Queued(v, k)' <=> Queued(v, k) \/ send.msg.kind = k
    BY <2>2 DEF Queued
  <2> QED BY <1>t, <1>2, <2>3, <2>4 DEF Coming
<1> QED BY <1>1, <1>3, <1>4, <1>5

\* A command on its way stays so until the actor takes it or ends.
LEMMA ComingStays ==
  ASSUME TypeOK, [Next]_vars, NEW v \in Workspaces, NEW k, Coming(v, k), phase'[v] = "running",
         ~(HandleCommand(v) /\ Head(coordQ[v]).kind = k)
  PROVE  Coming(v, k)'
<1>t. coordQ \in [Workspaces -> Seq(Commands)] /\ coordQ[v] \in Seq(Commands) /\ phase \in [Workspaces -> Phases]
  BY DEF TypeOK, ActorTypeOK
<1>1. CASE \E w \in Workspaces : ActorNext(w)
  <2>1. PICK w \in Workspaces : ActorNext(w)
    BY <1>1
  <2>2. Sending(v, k)' <=> Sending(v, k)
    BY <2>1 DEF ActorNext, loopVars, Sending
  <2>3. HandleCommand(w) \/ HandleAgentMsg(w) \/ Terminate(w) \/ SendEvent(w)
    BY <2>1 DEF ActorNext, ActorStep
  <2>4. coordQ'[v] = coordQ[v] \/ (HandleCommand(v) /\ coordQ'[v] = Tail(coordQ[v]) /\ coordQ[v] # <<>>)
    BY <1>t, <2>3 DEF HandleCommand, HandleAgentMsg, Terminate, SendEvent
  <2>5. Queued(v, k) => Queued(v, k)'
    <3>1. CASE coordQ'[v] = coordQ[v]
      BY <3>1 DEF Queued
    <3>2. CASE HandleCommand(v) /\ coordQ'[v] = Tail(coordQ[v]) /\ coordQ[v] # <<>>
      <4> SUFFICES ASSUME NEW i \in DOMAIN coordQ[v], coordQ[v][i].kind = k PROVE Queued(v, k)'
        BY DEF Queued
      <4>1. i # 1
        BY <1>t, <3>2
      <4>2. i - 1 \in DOMAIN Tail(coordQ[v]) /\ Tail(coordQ[v])[i - 1] = coordQ[v][i]
        BY <1>t, <3>2, <4>1
      <4> QED BY <3>2, <4>2 DEF Queued
    <3> QED BY <2>4, <3>1, <3>2
  <2> QED BY <2>2, <2>5 DEF Coming
<1>2. CASE CompleteSend
  BY <1>2, CompletedSend DEF CompleteSend
<1>3. CASE UNCHANGED coordQ /\ (pc # "sending" \/ UNCHANGED <<pc, send>>)
  BY <1>3 DEF Coming, Queued, Sending
<1>4. CASE HandleEvent
  BY <1>3, <1>4 DEF HandleEvent
<1>5. CASE BeginDrain \/ DrainTimeout \/ Shutdown \/ (\E w \in Workspaces : AbortNext(w))
  BY <1>3, <1>5 DEF BeginDrain, DrainTimeout, Shutdown, AbortNext, actorVars
<1>6. CASE \E t \in Tasks, w \in Workspaces : SubmitGoal(t, w) \/ Dispatch(t, w)
  BY <1>3, <1>6 DEF SubmitGoal, Dispatch, DispatchWorkspace, Spawn
<1>7. CASE Asks
  BY <1>3, <1>7 DEF Asks, actorVars
<1>8. CASE UNCHANGED vars
  BY <1>3, <1>8 DEF vars, actorVars, loopVars
<1> QED BY <1>1, <1>2, <1>4, <1>5, <1>6, <1>7, <1>8, AllSteps

\* Only the commands in use are ever sent.
LEMMA KindsStep == TypeOK /\ OnlySentKinds /\ [Next]_vars => OnlySentKinds'
<1> SUFFICES ASSUME TypeOK, OnlySentKinds, [Next]_vars, NEW v \in Workspaces, NEW k \in DOMAIN CommandTrigger \ SentKinds,
                    Coming(v, k)'
             PROVE  FALSE
  BY DEF OnlySentKinds
<1>0. ~Coming(v, k)
  BY DEF OnlySentKinds
<1>1. CASE \E w \in Workspaces : ActorNext(w)
  <2>1. PICK w \in Workspaces : ActorNext(w)
    BY <1>1
  <2>2. Sending(v, k)' <=> Sending(v, k)
    BY <2>1 DEF ActorNext, loopVars, Sending
  <2>3. Queued(v, k)' => Queued(v, k)
    BY <2>1, QueuesShrink DEF Queued
  <2> QED BY <1>0, <2>2, <2>3 DEF Coming
<1>2. CASE CompleteSend
  BY <1>0, <1>2, CompletedSend
<1>3. CASE UNCHANGED coordQ /\ (pc' # "sending" \/ UNCHANGED <<pc, send>>)
  BY <1>0, <1>3 DEF Coming, Queued, Sending
<1>4. CASE UNCHANGED coordQ /\ \E w, msg, gate, back : StartSend(w, "agent", msg, gate, back)
  <2>1. ~Sending(v, k)'
    BY <1>4 DEF StartSend, Sending
  <2> QED BY <1>0, <1>4, <2>1 DEF Coming, Queued
<1>5. CASE UNCHANGED coordQ /\ \E w, msg, gate, back : msg.kind \in SentKinds /\ StartSend(w, "coordinator", msg, gate, back)
  <2>1. ~Sending(v, k)'
    BY <1>5 DEF StartSend, Sending
  <2> QED BY <1>0, <1>5, <2>1 DEF Coming, Queued
<1>6. \A x : Command(x).kind = x
  BY DEF Command
<1>7. CASE HandleEvent
  <2>1. UNCHANGED coordQ /\ "IntegrationSucceeded" \in SentKinds
    BY <1>7 DEF HandleEvent, SentKinds, RuntimeCommands
  <2>2. \/ UNCHANGED <<pc, send>>
        \/ \E w, gate, back : StartSend(w, "coordinator", Command("IntegrationSucceeded"), gate, back)
    BY <1>7 DEF HandleEvent, OnStateChanged, OnCheckpointCreated, OnTerminated, OnSignal, OnOther, AutoIntegrate
  <2> QED BY <1>3, <1>5, <1>6, <2>1, <2>2
<1>8. ASSUME NEW w \in Workspaces, AbortNext(w) PROVE FALSE
  <2>1. UNCHANGED coordQ /\ "Abort" \in SentKinds
    BY <1>8 DEF AbortNext, actorVars, SentKinds, RuntimeCommands
  <2>2. UNCHANGED <<pc, send>> \/ \E u, gate, back : StartSend(u, "coordinator", Command("Abort"), gate, back)
    BY <1>8 DEF AbortNext
  <2> QED BY <1>3, <1>5, <1>6, <2>1, <2>2
<1>9. CASE BeginDrain \/ DrainTimeout \/ Shutdown
  BY <1>3, <1>9 DEF BeginDrain, DrainTimeout, Shutdown, actorVars
<1>10. CASE \E t \in Tasks, w \in Workspaces : SubmitGoal(t, w) \/ Dispatch(t, w)
  BY <1>3, <1>10 DEF SubmitGoal, Dispatch, DispatchWorkspace, Spawn
<1>11. CASE Asks
  <2>1. UNCHANGED coordQ
    BY <1>11 DEF Asks, actorVars
  <2>2. \/ UNCHANGED <<pc, send>>
        \/ \E w, msg, gate, back : StartSend(w, "agent", msg, gate, back)
        \/ \E w, gate, back : \E x \in RuntimeCommands : StartSend(w, "coordinator", Command(x), gate, back)
        \/ \E w, id, gate, back : \E x \in {"CheckpointApproved", "CheckpointRejected"} :
             StartSend(w, "coordinator", [kind |-> x, gate |-> id], gate, back)
    BY <1>11 DEF Asks
  <2>3. /\ \A x \in RuntimeCommands : x \in SentKinds
        /\ \A x \in {"CheckpointApproved", "CheckpointRejected"} : x \in SentKinds
        /\ \A x, id : [kind |-> x, gate |-> id].kind = x
    BY DEF SentKinds
  <2> QED BY <1>3, <1>4, <1>5, <1>6, <2>1, <2>2, <2>3
<1>12. CASE UNCHANGED vars
  BY <1>3, <1>12 DEF vars, actorVars, loopVars
<1> QED BY <1>1, <1>2, <1>7, <1>8, <1>9, <1>10, <1>11, <1>12, AllSteps

\* So the command an actor takes is one of them.
LEMMA HeadKind ==
  ASSUME TypeOK, OnlySentKinds, NEW w \in Workspaces, HandleCommand(w)
  PROVE  Head(coordQ[w]).kind \in SentKinds
<1>1. coordQ[w] \in Seq(Commands) /\ coordQ[w] # <<>>
  BY DEF TypeOK, ActorTypeOK, HandleCommand
<1>2. Head(coordQ[w]) = coordQ[w][1] /\ 1 \in DOMAIN coordQ[w] /\ Head(coordQ[w]) \in Commands
  BY <1>1
<1>3. Coming(w, Head(coordQ[w]).kind)
  BY <1>2 DEF Coming, Queued
<1>4. Head(coordQ[w]).kind \in DOMAIN CommandTrigger \cup {"DeliverEnvelope"}
  BY <1>2 DEF Commands
<1> QED BY <1>3, <1>4 DEF OnlySentKinds, SentKinds, RuntimeCommands

\* A workspace keeps out of the two states, ends before it leaves and keeps its node.
LEMMA UnfrozenStep ==
  ASSUME RuntimeInv, StopInv, [Next]_vars, NEW v \in Workspaces
  PROVE  Unfrozen(v)'
<1>0. TypeOK /\ OnlySentKinds /\ Unfrozen(v)
  BY DEF RuntimeInv, StopInv
<1>t. /\ status \in [Workspaces -> WorkspaceStates] /\ phase \in [Workspaces -> Phases]
      /\ tree \in [Workspaces -> WorkspaceStates \cup {Absent}]
      /\ Absent \notin WorkspaceStates
  BY <1>0 DEF TypeOK, ActorTypeOK, Absent, WorkspaceStates
<1>1. ASSUME NEW w \in Workspaces, ActorNext(w) PROVE Unfrozen(v)'
  <2>1. tree' = tree
    BY <1>1 DEF ActorNext, treeVars
  <2>2. HandleCommand(w) \/ HandleAgentMsg(w) \/ Terminate(w) \/ SendEvent(w)
    BY <1>1 DEF ActorNext, ActorStep
  <2>3. CASE HandleCommand(w) \/ HandleAgentMsg(w)
    <3>1. phase' = phase /\ phase[w] = "running"
      BY <2>3 DEF HandleCommand, HandleAgentMsg, Selecting
    <3>2. v # w => status'[v] = status[v]
      BY <1>t, <2>3 DEF HandleCommand, HandleAgentMsg, DeliverEnvelope, TriggerCommand, EmitSignal, CreateCheckpoint
    <3>3. v = w => status'[v] \notin {"Migrating", "Conflicted"}
      BY <1>0, <2>3, HeadKind, CommandEffects, MessageEffects DEF Unfrozen
    <3> QED BY <1>0, <2>1, <3>1, <3>2, <3>3 DEF Unfrozen
  <2>4. CASE Terminate(w)
    BY <1>0, <1>t, <2>1, <2>4 DEF Unfrozen, Terminate
  <2>5. CASE SendEvent(w)
    <3>1. status' = status /\ phase' = [phase EXCEPT ![w] = IF phase[w] = "exiting" THEN "exited" ELSE @]
      BY <2>5 DEF SendEvent
    <3> QED BY <1>0, <1>t, <2>1, <3>1 DEF Unfrozen
  <2> QED BY <2>2, <2>3, <2>4, <2>5
<1>2. CASE HandleEvent
  <2>1. UNCHANGED <<phase, status>> /\ events[1] \in Events
    BY <1>0, <1>2, HandleEventFacts
  <2>2. tree' = tree \/ (tree' = [tree EXCEPT ![events[1].ws] = events[1].val] /\ events[1].kind \in {"StateChanged", "Terminated"})
    BY <1>0, <1>2, HandleEventFacts DEF OnStateChanged, OnCheckpointCreated, OnTerminated, OnSignal, OnOther
  <2>3. events[1].kind \in {"StateChanged", "Terminated"} => events[1].val \in WorkspaceStates
    BY <2>1 DEF Events
  <2>4. tree'[v] = tree[v] \/ tree'[v] \in WorkspaceStates
    BY <1>t, <2>2, <2>3
  <2> QED BY <1>0, <1>t, <2>1, <2>4 DEF Unfrozen
<1>3. ASSUME NEW t \in Tasks, NEW w \in Workspaces, DispatchWorkspace(t, w) PROVE Unfrozen(v)'
  <2>1. status' = status /\ phase' = [phase EXCEPT ![w] = "running"] /\ tree' = [tree EXCEPT ![w] = "Idle"] /\ "Idle" # Absent
    BY <1>3 DEF DispatchWorkspace, Spawn, Absent
  <2> QED BY <1>0, <1>t, <2>1 DEF Unfrozen
<1>4. CASE UNCHANGED mirrorVars
  BY <1>0, <1>4 DEF mirrorVars, Unfrozen
<1> QED BY <1>1, <1>2, <1>3, <1>4, StepKinds

\* The completion of the agent is asked about, then answered, then taken.
LEMMA IntegrationStep ==
  ASSUME RuntimeInv, StopInv, [Next]_vars, NEW v \in Workspaces
  PROVE  IntegrationComes(v)'
<1> SUFFICES ASSUME phase'[v] = "running", status'[v] = "Integrating"
             PROVE  Asked(outbox'[v], v) \/ Asked(events', v) \/ Coming(v, "IntegrationSucceeded")'
  BY DEF IntegrationComes
<1> DEFINE IS == "IntegrationSucceeded"
           Goal == Asked(outbox'[v], v) \/ Asked(events', v) \/ Coming(v, IS)'
<1>0. TypeOK /\ OnlySentKinds /\ Unfrozen(v) /\ IntegrationComes(v) /\ BookkeepingBounded
  BY DEF RuntimeInv, StopInv
<1>t. /\ status \in [Workspaces -> WorkspaceStates] /\ phase \in [Workspaces -> Phases]
      /\ outbox \in [Workspaces -> Seq(Events)] /\ events \in Seq(Events) /\ outbox[v] \in Seq(Events)
  BY <1>0 DEF TypeOK, ActorTypeOK
<1>s. ASSUME phase[v] = "running", status[v] = "Integrating", Asked(outbox[v], v) => Goal, Asked(events, v) => Goal
      PROVE  Goal
  <2>1. ~(HandleCommand(v) /\ Head(coordQ[v]).kind = IS)
    BY <1>0, HeadKind, CommandEffects DEF Unfrozen
  <2> QED BY <1>0, <1>s, <2>1, ComingStays DEF IntegrationComes
<1>1. ASSUME NEW w \in Workspaces, ActorNext(w) PROVE Goal
  <2>1. HandleCommand(w) \/ HandleAgentMsg(w) \/ Terminate(w) \/ SendEvent(w)
    BY <1>1 DEF ActorNext, ActorStep
  <2>2. CASE HandleCommand(w) \/ HandleAgentMsg(w)
    <3>1. PICK s, q : s \in WorkspaceStates /\ Handles(w, s, q)
      BY <1>0, <2>2, HandleCommandHandles, HandleAgentMsgHandles
    <3>2. /\ phase[w] = "running" /\ outbox[w] = <<>> /\ UNCHANGED <<phase, events>>
          /\ status' = [status EXCEPT ![w] = s] /\ outbox' = [outbox EXCEPT ![w] = q] /\ Announces(w, s, q)
      BY <3>1 DEF Handles
    <3>3. CASE v # w
      <4>1. phase[v] = "running" /\ status[v] = "Integrating" /\ outbox'[v] = outbox[v] /\ events' = events
        BY <1>t, <3>2, <3>3
      <4> QED BY <1>s, <4>1
    <3>4. CASE v = w /\ status[v] # "Integrating"
      <4>1. s = "Integrating" /\ outbox'[v] = q
        BY <1>t, <3>2, <3>4
      <4>2. LastReport(q, v, "Integrating") /\ \A i \in 1..Len(q) : q[i].kind # "Terminated"
        BY <3>2, <3>4, <4>1 DEF Announces
      <4>3. q \in Seq(Events)
        BY <1>t, <3>2, <3>4, <4>1, NextType, <1>0 DEF TypeOK, ActorTypeOK
      <4>4. PICK i \in 1..Len(q) : Reports(q[i], v) /\ q[i].val = "Integrating"
        BY <4>2 DEF LastReport
      <4>5. AsksIntegration(q[i], v) /\ i \in DOMAIN q
        BY <4>2, <4>3, <4>4 DEF AsksIntegration, Reports
      <4> QED BY <4>1, <4>5 DEF Asked
    <3>5. CASE v = w /\ status[v] = "Integrating"
      <4>1. outbox[v] = <<>> /\ events' = events /\ phase[v] = "running"
        BY <3>2, <3>5
      <4>2. ~Asked(outbox[v], v)
        BY <4>1 DEF Asked
      <4> QED BY <1>s, <3>5, <4>1, <4>2
    <3> QED BY <3>3, <3>4, <3>5
  <2>3. CASE Terminate(w)
    <3>1. v # w /\ phase[v] = "running" /\ status' = status /\ outbox'[v] = outbox[v] /\ events' = events
      BY <1>t, <2>3 DEF Terminate
    <3> QED BY <1>s, <3>1
  <2>4. CASE SendEvent(w)
    <3>1. /\ Len(outbox[w]) \in Nat \ {0} /\ Len(events) \in Nat /\ Len(events') = Len(events) + 1
          /\ \A i \in 1..Len(events) : events'[i] = events[i]
          /\ events'[Len(events) + 1] = outbox[w][1]
          /\ Len(outbox'[w]) = Len(outbox[w]) - 1
          /\ \A i \in 1..Len(outbox'[w]) : outbox'[w][i] = outbox[w][i + 1]
          /\ \A u \in Workspaces \ {w} : outbox'[u] = outbox[u]
          /\ status' = status
          /\ phase' = [phase EXCEPT ![w] = IF phase[w] = "exiting" THEN "exited" ELSE @]
      BY <1>0, <2>4, SendEventFacts
    <3>2. events' \in Seq(Events) /\ outbox' \in [Workspaces -> Seq(Events)]
      BY <1>0, NextType DEF TypeOK, ActorTypeOK
    <3>3. phase[v] = "running" /\ status[v] = "Integrating"
      BY <1>t, <3>1
    <3>d. DOMAIN events = 1..Len(events) /\ DOMAIN events' = 1..Len(events') /\ DOMAIN outbox[v] = 1..Len(outbox[v])
      BY <1>t, <3>2
    <3>4. \A i \in DOMAIN events : i \in DOMAIN events' /\ events'[i] = events[i]
      BY <3>1, <3>d
    <3>5. Asked(events, v) => Asked(events', v)
      BY <3>4 DEF Asked
    <3>6. Asked(outbox[v], v) => Goal
      <4> SUFFICES ASSUME NEW i \in DOMAIN outbox[v], AsksIntegration(outbox[v][i], v) PROVE Goal
        BY DEF Asked
      <4>1. CASE v # w
        BY <3>1, <4>1 DEF Asked
      <4>2. CASE v = w /\ i = 1
        <5>1. Len(events) + 1 \in DOMAIN events'
          BY <3>1, <3>2
        <5> QED BY <3>1, <4>2, <5>1 DEF Asked
      <4>3. CASE v = w /\ i # 1
        <5>1. i \in 2..Len(outbox[w])
          BY <3>1, <3>d, <4>3
        <5>2. i - 1 \in 1..Len(outbox'[w]) /\ (i - 1) + 1 = i
          BY <3>1, <5>1
        <5>3. outbox'[w][i - 1] = outbox[w][(i - 1) + 1]
          BY <3>1, <5>2
        <5>4. i - 1 \in DOMAIN outbox'[v] /\ outbox'[v][i - 1] = outbox[v][i]
          BY <3>2, <4>3, <5>2, <5>3
        <5> QED BY <5>4 DEF Asked
      <4> QED BY <4>1, <4>2, <4>3
    <3> QED BY <1>s, <3>3, <3>5, <3>6
  <2> QED BY <2>1, <2>2, <2>3, <2>4
<1>2. CASE HandleEvent
  <2>1. /\ Len(events) \in Nat \ {0} /\ Len(events') = Len(events) - 1
        /\ \A i \in 1..Len(events') : events'[i] = events[i + 1]
        /\ UNCHANGED <<phase, status, outbox>>
        /\ \/ OnStateChanged(events[1]) \/ OnCheckpointCreated(events[1])
           \/ OnTerminated(events[1]) \/ OnSignal(events[1]) \/ OnOther(events[1])
    BY <1>0, <1>2, HandleEventFacts
  <2>2. phase[v] = "running" /\ status[v] = "Integrating" /\ events' \in Seq(Events) /\ v \in handles
    BY <1>0, <2>1, NextType DEF TypeOK, ActorTypeOK, BookkeepingBounded
  <2>3. Asked(events, v) => Goal
    <3> SUFFICES ASSUME NEW i \in DOMAIN events, AsksIntegration(events[i], v) PROVE Goal
      BY DEF Asked
    <3>1. CASE i = 1
      <4>1. AutoIntegrate(v)
        BY <2>1, <3>1 DEF AsksIntegration, OnStateChanged, OnCheckpointCreated, OnTerminated, OnSignal, OnOther
      <4>2. Sending(v, IS)'
        BY <2>2, <4>1 DEF AutoIntegrate, StartSend, Sending, Command
      <4> QED BY <4>2 DEF Coming
    <3>2. CASE i # 1
      <4>1. i - 1 \in 1..Len(events') /\ events'[i - 1] = events[i]
        BY <1>t, <2>1, <3>2
      <4>2. i - 1 \in DOMAIN events'
        BY <2>2, <4>1
      <4> QED BY <4>1, <4>2 DEF Asked
    <3> QED BY <3>1, <3>2
  <2> QED BY <1>s, <2>1, <2>2, <2>3
<1>3. ASSUME NEW t \in Tasks, NEW w \in Workspaces, DispatchWorkspace(t, w) PROVE Goal
  <2>1. /\ UNCHANGED <<status, outbox, events, coordQ>> /\ phase[w] = "unborn" /\ phase' = [phase EXCEPT ![w] = "running"]
    BY <1>3 DEF DispatchWorkspace, Spawn
  <2>2. v # w
    BY <2>1 DEF RuntimeInv, ActorLifecycle, PhaseShape
  <2>3. phase[v] = "running"
    BY <1>t, <2>1, <2>2
  <2> QED BY <1>s, <2>1, <2>3
<1>4. CASE UNCHANGED mirrorVars
  <2>1. UNCHANGED <<phase, status, outbox, events>>
    BY <1>4 DEF mirrorVars
  <2> QED BY <1>s, <2>1
<1> QED BY <1>1, <1>2, <1>3, <1>4, StepKinds

\* How the loop gets where it is: only Shutdown begins a shutdown, only
\* BeginDrain ends its abort loop, and a request cannot come in between.
LEMMA LoopProgress ==
  ASSUME TypeOK, [Next]_vars
  PROVE  /\ Down' => Down \/ Shutdown
         /\ AbortsDone' => AbortsDone \/ BeginDrain
         /\ Down => UNCHANGED toAbort \/ \E w \in Workspaces : AbortNext(w)
         /\ Down => ~\E t \in Tasks, w \in Workspaces : SubmitGoal(t, w) \/ Dispatch(t, w)
         /\ AbortsDone => UNCHANGED toAbort
<1>1. CASE \E w \in Workspaces : ActorNext(w)
  BY <1>1 DEF ActorNext, loopVars, Down, AbortsDone, SubmitGoal, Dispatch, Take
<1>2. CASE HandleEvent
  <2>1. /\ pc \in {"select", "draining"} /\ toAbort' = toAbort
        /\ UNCHANGED <<pc, send>> \/ \E w : StartSend(w, "coordinator", Command("IntegrationSucceeded"), FALSE, pc)
    BY <1>2 DEF HandleEvent, OnStateChanged, OnCheckpointCreated, OnTerminated, OnSignal, OnOther, AutoIntegrate
  <2> QED BY <2>1 DEF StartSend, Down, AbortsDone, SubmitGoal, Dispatch, Take
<1>3. CASE CompleteSend
  <2>1. pc = "sending" /\ pc' = send.back /\ toAbort' = toAbort /\ send \in SendRecords
    BY <1>3 DEF CompleteSend, TypeOK
  <2>2. send.back \in {"select", "aborting", "draining"}
    BY <2>1 DEF SendRecords
  <2> QED BY <2>1, <2>2 DEF Down, AbortsDone, SubmitGoal, Dispatch, Take
<1>4. ASSUME NEW w \in Workspaces, AbortNext(w)
      PROVE  /\ Down /\ ~AbortsDone /\ ~AbortsDone'
             /\ ~\E t \in Tasks, u \in Workspaces : SubmitGoal(t, u) \/ Dispatch(t, u)
  BY <1>4 DEF AbortNext, StartSend, Down, AbortsDone, SubmitGoal, Dispatch, Take
<1>5. CASE BeginDrain \/ DrainTimeout
  BY <1>5 DEF BeginDrain, DrainTimeout, Down, AbortsDone, SubmitGoal, Dispatch, Take
<1>6. CASE Shutdown
  BY <1>6 DEF Shutdown, Down, AbortsDone, SubmitGoal, Dispatch, Take
<1>7. ASSUME NEW t \in Tasks, NEW w \in Workspaces, SubmitGoal(t, w) \/ Dispatch(t, w)
      PROVE  ~Down /\ ~AbortsDone /\ ~Down' /\ ~AbortsDone'
  BY <1>7 DEF SubmitGoal, Dispatch, Take, Down, AbortsDone
<1>8. CASE Asks
  <2>1. /\ pc = "select"
        /\ UNCHANGED <<pc, send>> \/ \E w, chan, msg, gate : StartSend(w, chan, msg, gate, "select")
    BY <1>8 DEF Asks
  <2> QED BY <2>1 DEF StartSend, Down, AbortsDone
<1>9. CASE UNCHANGED vars
  BY <1>9 DEF vars, loopVars, Down, AbortsDone, SubmitGoal, Dispatch, Take
<1> QED BY <1>1, <1>2, <1>3, <1>4, <1>5, <1>6, <1>7, <1>8, <1>9, AllSteps

\* The abort of a workspace is collected, sent, queued and taken.
LEMMA AbortStep ==
  ASSUME RuntimeInv, StopInv, [Next]_vars, NEW v \in Workspaces
  PROVE  AbortComes(v)'
<1> DEFINE Settled == TerminalStates \cup {"Integrating"}
<1> SUFFICES ASSUME Down', phase'[v] = "running", status'[v] \notin Settled
             PROVE  v \in toAbort' \/ Coming(v, "Abort")'
  BY DEF AbortComes
<1>0. /\ TypeOK /\ OnlySentKinds /\ Unfrozen(v) /\ AbortComes(v) /\ BookkeepingBounded /\ ReportsSettle
      /\ phase \in [Workspaces -> Phases] /\ status \in [Workspaces -> WorkspaceStates]
  BY DEF RuntimeInv, StopInv, TypeOK, ActorTypeOK
<1>1. CASE Shutdown
  <2>1. UNCHANGED <<phase, status>> /\ toAbort' = {w \in Workspaces : tree[w] \notin TerminalStates \cup {Absent}}
    BY <1>1 DEF Shutdown, actorVars
  <2>2. tree[v] \notin TerminalStates \cup {Absent}
    BY <1>0, <2>1 DEF Unfrozen, ReportsSettle, TreeSettled
  <2> QED BY <2>1, <2>2
<1>2. CASE Down
  <2>1. phase[v] = "running" /\ status[v] \notin Settled
    <3>1. ASSUME NEW w \in Workspaces, ActorNext(w) PROVE phase[v] = "running" /\ status[v] \notin Settled
      <4>1. HandleCommand(w) \/ HandleAgentMsg(w) \/ Terminate(w) \/ SendEvent(w)
        BY <3>1 DEF ActorNext, ActorStep
      <4>2. CASE HandleCommand(w) \/ HandleAgentMsg(w)
        <5>1. phase' = phase /\ status[w] \notin TerminalStates
          BY <4>2 DEF HandleCommand, HandleAgentMsg, Selecting
        <5>2. v # w => status'[v] = status[v]
          BY <1>0, <4>2 DEF HandleCommand, HandleAgentMsg, DeliverEnvelope, TriggerCommand, EmitSignal, CreateCheckpoint
        <5>3. v = w => status[v] # "Integrating"
          BY <1>0, <4>2, HeadKind, CommandEffects, MessageEffects DEF Unfrozen
        <5> QED BY <5>1, <5>2, <5>3
      <4>3. CASE Terminate(w)
        BY <1>0, <4>3 DEF Terminate
      <4>4. CASE SendEvent(w)
        <5>1. status' = status /\ phase' = [phase EXCEPT ![w] = IF phase[w] = "exiting" THEN "exited" ELSE @]
          BY <4>4 DEF SendEvent
        <5> QED BY <1>0, <5>1
      <4> QED BY <4>1, <4>2, <4>3, <4>4
    <3>2. CASE HandleEvent
      BY <3>2 DEF HandleEvent
    <3>3. CASE CompleteSend
      BY <3>3 DEF CompleteSend
    <3>4. CASE BeginDrain \/ DrainTimeout \/ Shutdown \/ (\E w \in Workspaces : AbortNext(w))
      BY <3>4 DEF BeginDrain, DrainTimeout, Shutdown, AbortNext, actorVars
    <3>5. CASE Asks
      BY <3>5 DEF Asks, actorVars
    <3>6. CASE UNCHANGED vars
      BY <3>6 DEF vars, actorVars
    <3> QED BY <1>0, <1>2, <3>1, <3>2, <3>3, <3>4, <3>5, <3>6, AllSteps, LoopProgress
  <2>2. v \in toAbort \/ Coming(v, "Abort")
    BY <1>0, <1>2, <2>1 DEF AbortComes
  <2>3. CASE Coming(v, "Abort")
    <3>1. ~(HandleCommand(v) /\ Head(coordQ[v]).kind = "Abort")
      BY <1>0, HeadKind, CommandEffects DEF Unfrozen
    <3> QED BY <1>0, <2>3, <3>1, ComingStays
  <2>4. CASE v \in toAbort
    <3>1. CASE UNCHANGED toAbort
      BY <2>4, <3>1
    <3>2. ASSUME NEW w \in Workspaces, AbortNext(w) PROVE v \in toAbort' \/ Coming(v, "Abort")'
      <4>1. CASE v # w
        BY <2>4, <3>2, <4>1 DEF AbortNext
      <4>2. CASE v = w
        <5>1. v \in handles
          BY <1>0, <2>1 DEF BookkeepingBounded
        <5>2. StartSend(v, "coordinator", Command("Abort"), FALSE, "aborting")
          BY <3>2, <4>2, <5>1 DEF AbortNext
        <5>3. Sending(v, "Abort")'
          BY <5>2 DEF StartSend, Sending, Command
        <5> QED BY <5>3 DEF Coming
      <4> QED BY <4>1, <4>2
    <3> QED BY <1>0, <1>2, <3>1, <3>2, LoopProgress
  <2> QED BY <2>2, <2>3, <2>4
<1> QED BY <1>0, <1>1, <1>2, LoopProgress

\* shutdown() returns with every actor gone, and nothing moves afterwards.
LEMMA EndedStep ==
  ASSUME RuntimeInv, StopInv, [Next]_vars
  PROVE  StoppedMeansEnded'
<1> SUFFICES ASSUME pc' = "stopped", NEW v \in Workspaces
             PROVE  phase'[v] \in {"unborn", "exited"} /\ tree'[v] \in TerminalStates \cup {Absent}
  BY DEF StoppedMeansEnded
<1>0. /\ TypeOK /\ Unfrozen(v) /\ IntegrationComes(v) /\ AbortComes(v) /\ PhaseShape(v)
  BY DEF RuntimeInv, StopInv, ActorLifecycle
<1>1. CASE DrainTimeout
  <2>1. pc = "draining" /\ events = <<>> /\ Quiet(v) /\ UNCHANGED <<phase, tree>> /\ toAbort = {}
    BY <1>1 DEF DrainTimeout, actorVars, treeVars, StopInv, AbortsDone
  <2>2. phase[v] \in {"unborn", "exited"}
    <3> SUFFICES ASSUME Selecting(v), coordQ[v] = <<>> PROVE FALSE
      BY <2>1 DEF Quiet
    <3>1. \A k : ~Coming(v, k)
      BY <2>1 DEF Coming, Queued, Sending
    <3>2. ~Asked(outbox[v], v) /\ ~Asked(events, v)
      BY <2>1 DEF Selecting, Asked
    <3> QED BY <1>0, <2>1, <3>1, <3>2 DEF Selecting, IntegrationComes, AbortComes, Down
  <2>3. phase[v] = "exited" => tree[v] \in TerminalStates
    <3> SUFFICES ASSUME phase[v] = "exited" PROVE tree[v] \in TerminalStates
      OBVIOUS
    <3>1. ~LastReport(<<>>, v, status[v])
      BY DEF LastReport
    <3>2. tree[v] = status[v]
      BY <1>0, <2>1, <3>1 DEF RuntimeInv, MirrorConsistent, PhaseShape
    <3> QED BY <1>0, <3>2 DEF Unfrozen
  <2> QED BY <1>0, <2>1, <2>2, <2>3 DEF PhaseShape
<1>2. CASE pc = "stopped"
  <2>1. phase[v] \in {"unborn", "exited"} /\ tree[v] \in TerminalStates \cup {Absent}
    BY <1>2 DEF StopInv, StoppedMeansEnded
  <2>2. ~\E w \in Workspaces : ActorNext(w)
    <3> SUFFICES ASSUME NEW w \in Workspaces, ActorNext(w) PROVE FALSE
      OBVIOUS
    <3>1. phase[w] \in {"unborn", "exited"} /\ PhaseShape(w)
      BY <1>2 DEF StopInv, StoppedMeansEnded, RuntimeInv, ActorLifecycle
    <3> QED BY <3>1 DEF PhaseShape, ActorNext, ActorStep, HandleCommand, HandleAgentMsg, Selecting, Terminate, SendEvent
  <2>3. UNCHANGED vars
    BY <1>0, <1>2, <2>2, AllSteps
       DEF HandleEvent, CompleteSend, AbortNext, BeginDrain, DrainTimeout, Shutdown, SubmitGoal, Dispatch, Take, Asks
  <2> QED BY <2>1, <2>3 DEF vars, actorVars, treeVars
<1>3. pc' = pc \/ DrainTimeout
  <2>1. CASE HandleEvent
    BY <2>1 DEF HandleEvent, OnStateChanged, OnCheckpointCreated, OnTerminated, OnSignal, OnOther, AutoIntegrate, StartSend
  <2>2. CASE CompleteSend
    BY <1>0, <2>2 DEF CompleteSend, TypeOK, SendRecords
  <2>3. CASE BeginDrain \/ Shutdown \/ \E w \in Workspaces : AbortNext(w)
    BY <2>3 DEF BeginDrain, Shutdown, AbortNext, StartSend
  <2>4. CASE Asks
    BY <2>4 DEF Asks, StartSend
  <2>5. CASE \E t \in Tasks, w \in Workspaces : SubmitGoal(t, w) \/ Dispatch(t, w)
    BY <2>5 DEF SubmitGoal, Dispatch
  <2> QED BY <1>0, <2>1, <2>2, <2>3, <2>4, <2>5, AllSteps DEF ActorNext, loopVars, vars
<1> QED BY <1>1, <1>2, <1>3

\* shutdown() returns only when every workspace has ended, in its actor and in
\* the tree: the aborts it sent, the answers of auto_integrate and the drain
\* leave none behind, whatever the clients and agents had queued.
THEOREM ShutdownIsComplete == Spec => []StoppedMeansEnded
<1>1. Init => StopInv
  <2> SUFFICES ASSUME Init PROVE StopInv
    OBVIOUS
  <2>1. /\ pc = "select" /\ \A w \in Workspaces : coordQ[w] = <<>> /\ phase[w] = "unborn" /\ status[w] = "Idle"
    BY DEF Init, ActorInit
  <2> QED BY <2>1 DEF StopInv, OnlySentKinds, Coming, Queued, Sending, Unfrozen, IntegrationComes, AbortComes, Down,
                      AbortsDone, StoppedMeansEnded
<1>2. RuntimeInv /\ StopInv /\ [Next]_vars => StopInv'
  <2> SUFFICES ASSUME RuntimeInv, StopInv, [Next]_vars PROVE StopInv'
    OBVIOUS
  <2>1. TypeOK
    BY DEF RuntimeInv
  <2>2. OnlySentKinds'
    BY <2>1, KindsStep DEF StopInv
  <2>3. \A w \in Workspaces : Unfrozen(w)' /\ IntegrationComes(w)' /\ AbortComes(w)'
    BY UnfrozenStep, IntegrationStep, AbortStep
  <2>4. AbortsDone' => toAbort' = {}
    <3>1. BeginDrain => toAbort = {} /\ toAbort' = toAbort
      BY DEF BeginDrain
    <3>2. AbortsDone => toAbort = {} /\ toAbort' = toAbort
      BY <2>1, LoopProgress DEF StopInv
    <3> QED BY <2>1, <3>1, <3>2, LoopProgress
  <2> QED BY <2>2, <2>3, <2>4, EndedStep DEF StopInv
<1>3. StopInv => StoppedMeansEnded
  BY DEF StopInv
<1> QED BY <1>1, <1>2, <1>3, RuntimeInvariant, PTL DEF Spec

-----------------------------------------------------------------------------
(* Migrations                                                              *)

Begins(cmd) == cmd.kind = "MigrateBegin"

Restores(cmd) == cmd.kind \in {"MigrationComplete", "MigrationCompleteBlocked"}

\* The commands u underway to a workspace of status st, tracked or not.
Balanced(u, st, tracked) ==
  /\ \A i, j \in 1..Len(u) : i < j /\ Begins(u[i]) /\ Begins(u[j]) =>
       \E m \in 1..Len(u) : i < m /\ m < j /\ EndsMigration(u[m])
  /\ ~tracked => \A i \in 1..Len(u) : Begins(u[i]) =>
       \E m \in 1..Len(u) : i < m /\ EndsMigration(u[m])
  /\ st = "Migrating" => \A i \in 1..Len(u) : Begins(u[i]) =>
       \E m \in 1..Len(u) : m < i /\ EndsMigration(u[m])
  /\ st = "Migrating" /\ ~tracked => \E m \in 1..Len(u) : EndsMigration(u[m])

\* A snapshot of w waits in q.
Snap(e, w) == e.ws = w /\ e.kind = "MigrationSnapshot"
SnapIn(q, w) == \E i \in 1..Len(q) : Snap(q[i], w)
OneSnap(q, w) == \A i, j \in 1..Len(q) : Snap(q[i], w) /\ Snap(q[j], w) => i = j

Received(w) == Tracked(w) /\ migration[w].snapshot

\* A snapshot of w was taken and the workspace not restored yet.
Snapped(w) == SnapIn(outbox[w], w) \/ SnapIn(events, w) \/ Received(w)

\* One snapshot at a time, on its way or received.
OneSnapshot(w) ==
  /\ OneSnap(outbox[w], w) /\ OneSnap(events, w)
  /\ SnapIn(outbox[w], w) => ~SnapIn(events, w)
  /\ Received(w) => ~SnapIn(outbox[w], w) /\ ~SnapIn(events, w)

\* One command at a time that restores the state, after the snapshot.
OneRestore(w) ==
  LET u == Underway(w)
  IN  /\ \A i \in 1..Len(u) : Restores(u[i]) => status[w] \in {"Migrating", "Failed"} /\ ~Snapped(w)
      /\ \A i, j \in 1..Len(u) : Restores(u[i]) /\ Restores(u[j]) => i = j
      /\ Snapped(w) => status[w] \in {"Migrating", "Failed"}

\* A workspace that left has ended, one not created is sent nothing.
Borders(w) ==
  /\ phase[w] \in {"exiting", "exited"} => status[w] \in TerminalStates
  /\ phase[w] = "unborn" => Underway(w) = <<>>

\* What holds of the migrations of one workspace.
Migrates(v) ==
  /\ Borders(v)
  /\ phase[v] = "running" => Balanced(Underway(v), status[v], Tracked(v))
  /\ OneSnapshot(v) /\ OneRestore(v)

MigrationTypeOK == migration \in [Workspaces -> Contexts \cup {NoMigration}]

MigrationInv ==
  /\ RuntimeInv /\ MigrationTypeOK
  /\ \A w \in Workspaces : Migrates(w)

-----------------------------------------------------------------------------
(* The lifecycle and the order of the commands.                            *)

\* Only CoordinatorMigrate freezes a workspace; the three answers, and only
\* they and an abort, unfreeze it; two of them restore it, the rest fail it.
LEMMA FreezeFacts ==
  ASSUME NEW st \in WorkspaceStates, NEW t
  PROVE  /\ NextState(st, t) = "Migrating" => st = "Migrating" \/ t = "CoordinatorMigrate"
         /\ t \in {"MigrationSucceeded", "MigrationSucceededBlocked", "MigrationFailed"} => NextState(st, t) # "Migrating"
         /\ st = "Migrating" /\ t \notin {"MigrationSucceeded", "MigrationSucceededBlocked"}
              => NextState(st, t) \in {"Migrating", "Failed"}
<1>1. /\ IsLegal(st, t) => <<st, t, NextState(st, t)>> \in WorkspaceEdges
      /\ ~IsLegal(st, t) => NextState(st, t) = st
  BY DEF IsLegal, NextState
<1>2. \A to : <<st, t, to>> \in WorkspaceEdges /\ to = "Migrating" => t = "CoordinatorMigrate"
  BY DEF WorkspaceEdges
<1>3. st = "Migrating" => \A to : <<st, t, to>> \in WorkspaceEdges =>
        /\ to # "Migrating"
        /\ t \notin {"MigrationSucceeded", "MigrationSucceededBlocked"} => to = "Failed"
  BY DEF WorkspaceEdges
<1>4. t \in {"MigrationSucceeded", "MigrationSucceededBlocked", "MigrationFailed"} => IsLegal("Migrating", t)
  <2>1. /\ <<"Migrating", "MigrationSucceeded", "Active">> \in WorkspaceEdges
        /\ <<"Migrating", "MigrationSucceededBlocked", "Blocked">> \in WorkspaceEdges
        /\ <<"Migrating", "MigrationFailed", "Failed">> \in WorkspaceEdges
    BY DEF WorkspaceEdges
  <2> QED BY <2>1 DEF IsLegal, WorkspaceStates
<1>5. t \in {"MigrationSucceeded", "MigrationSucceededBlocked", "MigrationFailed"} => t # "CoordinatorMigrate"
  OBVIOUS
<1> QED BY <1>1, <1>2, <1>3, <1>4, <1>5

\* A command that takes part in no migration.
Neutral(c) == ~Begins(c) /\ ~EndsMigration(c)

\* A command begins a migration, ends it, or neither.
LEMMA KindsApart ==
  ASSUME NEW c
  PROVE  /\ Begins(c) => ~EndsMigration(c)
         /\ Restores(c) => EndsMigration(c)
         /\ c.kind \in SentKinds => Neutral(c)
BY DEF Begins, EndsMigration, Restores, Neutral, SentKinds, RuntimeCommands

\* Taking the first command keeps the balance, if it leaves the workspace frozen
\* only when it froze it or found it frozen and was no answer.
LEMMA BalancedTail ==
  ASSUME NEW u \in Seq(Commands), u # <<>>, NEW st, NEW st2, NEW tr \in BOOLEAN, Balanced(u, st, tr),
         st2 = "Migrating" => ~EndsMigration(u[1]) /\ (st = "Migrating" \/ Begins(u[1]))
  PROVE  Balanced(Tail(u), st2, tr)
<1> DEFINE n == Len(u)
           v == Tail(u)
<1>1. n \in Nat \ {0} /\ Len(v) = n - 1 /\ \A i \in 1..(n - 1) : v[i] = u[i + 1]
  BY TailFacts
<1> HIDE DEF n, v
<1>2. \A i, j \in 1..Len(v) : i < j /\ Begins(v[i]) /\ Begins(v[j]) =>
        \E m \in 1..Len(v) : i < m /\ m < j /\ EndsMigration(v[m])
  <2> SUFFICES ASSUME NEW i \in 1..(n - 1), NEW j \in 1..(n - 1), i < j, Begins(v[i]), Begins(v[j])
               PROVE  \E m \in 1..(n - 1) : i < m /\ m < j /\ EndsMigration(v[m])
    BY <1>1
  <2>1. i + 1 \in 1..n /\ j + 1 \in 1..n /\ i + 1 < j + 1 /\ Begins(u[i + 1]) /\ Begins(u[j + 1])
    BY <1>1
  <2>2. PICK m \in 1..n : i + 1 < m /\ m < j + 1 /\ EndsMigration(u[m])
    BY <2>1 DEF Balanced, n
  <2>3. m - 1 \in 1..(n - 1) /\ i < m - 1 /\ m - 1 < j /\ (m - 1) + 1 = m
    BY <1>1, <2>2
  <2> QED BY <1>1, <2>2, <2>3
<1>3. ~tr => \A i \in 1..Len(v) : Begins(v[i]) => \E m \in 1..Len(v) : i < m /\ EndsMigration(v[m])
  <2> SUFFICES ASSUME ~tr, NEW i \in 1..(n - 1), Begins(v[i])
               PROVE  \E m \in 1..(n - 1) : i < m /\ EndsMigration(v[m])
    BY <1>1
  <2>1. i + 1 \in 1..n /\ Begins(u[i + 1])
    BY <1>1
  <2>2. PICK m \in 1..n : i + 1 < m /\ EndsMigration(u[m])
    BY <2>1 DEF Balanced, n
  <2>3. m - 1 \in 1..(n - 1) /\ i < m - 1 /\ (m - 1) + 1 = m
    BY <1>1, <2>2
  <2> QED BY <1>1, <2>2, <2>3
<1>4. st2 = "Migrating" => \A i \in 1..Len(v) : Begins(v[i]) => \E m \in 1..Len(v) : m < i /\ EndsMigration(v[m])
  <2> SUFFICES ASSUME st2 = "Migrating", NEW i \in 1..(n - 1), Begins(v[i])
               PROVE  \E m \in 1..(n - 1) : m < i /\ EndsMigration(v[m])
    BY <1>1
  <2>1. 1 \in 1..n /\ i + 1 \in 1..n /\ 1 < i + 1 /\ Begins(u[i + 1])
    BY <1>1
  <2>2. CASE Begins(u[1])
    <3>1. PICK m \in 1..n : 1 < m /\ m < i + 1 /\ EndsMigration(u[m])
      BY <2>1, <2>2 DEF Balanced, n
    <3>2. m - 1 \in 1..(n - 1) /\ m - 1 < i /\ (m - 1) + 1 = m
      BY <1>1, <3>1
    <3> QED BY <1>1, <3>1, <3>2
  <2>3. CASE st = "Migrating"
    <3>1. PICK m \in 1..n : m < i + 1 /\ EndsMigration(u[m])
      BY <2>1, <2>3 DEF Balanced, n
    <3>2. m # 1
      BY <3>1
    <3>3. m - 1 \in 1..(n - 1) /\ m - 1 < i /\ (m - 1) + 1 = m
      BY <1>1, <3>1, <3>2
    <3> QED BY <1>1, <3>1, <3>3
  <2> QED BY <2>2, <2>3
<1>5. st2 = "Migrating" /\ ~tr => \E m \in 1..Len(v) : EndsMigration(v[m])
  <2> SUFFICES ASSUME st2 = "Migrating", ~tr PROVE \E m \in 1..(n - 1) : EndsMigration(v[m])
    BY <1>1
  <2>1. PICK m \in 1..n : EndsMigration(u[m])
    <3>1. 1 \in 1..n
      BY <1>1
    <3>2. CASE Begins(u[1])
      BY <3>1, <3>2 DEF Balanced, n
    <3>3. CASE st = "Migrating"
      BY <3>3 DEF Balanced, n
    <3> QED BY <3>2, <3>3
  <2>2. m # 1
    BY <2>1
  <2>3. m - 1 \in 1..(n - 1) /\ (m - 1) + 1 = m
    BY <1>1, <2>1, <2>2
  <2> QED BY <1>1, <2>1, <2>3
<1> QED BY <1>2, <1>3, <1>4, <1>5 DEF Balanced, v

\* A new last command keeps the balance: a neutral one, a MigrateBegin for an
\* untracked workspace that becomes tracked, an answer for one that is tracked
\* no more.
LEMMA BalancedAppend ==
  ASSUME NEW u \in Seq(Commands), NEW c \in Commands, NEW st, NEW tr \in BOOLEAN, NEW tr2 \in BOOLEAN,
         Balanced(u, st, tr),
         \/ Neutral(c) /\ tr2 = tr
         \/ Begins(c) /\ ~tr /\ tr2
         \/ EndsMigration(c) /\ ~tr2
  PROVE  Balanced(Append(u, c), st, tr2)
<1> DEFINE n == Len(u)
           v == Append(u, c)
<1>1. n \in Nat /\ Len(v) = n + 1 /\ (\A i \in 1..n : v[i] = u[i]) /\ v[n + 1] = c
  BY AppendFacts
<1>2. \A i \in 1..Len(v) : i \in 1..n \/ i = n + 1
  BY <1>1
<1>3. \A i \in 1..n : i \in 1..Len(v) /\ i < n + 1
  BY <1>1
<1>4. n + 1 \in 1..Len(v) /\ Begins(c) => ~EndsMigration(c)
  BY <1>1, KindsApart
<1> HIDE DEF v
<1>5. \A i, j \in 1..Len(v) : i < j /\ Begins(v[i]) /\ Begins(v[j]) =>
        \E m \in 1..Len(v) : i < m /\ m < j /\ EndsMigration(v[m])
  <2> SUFFICES ASSUME NEW i \in 1..Len(v), NEW j \in 1..Len(v), i < j, Begins(v[i]), Begins(v[j])
               PROVE  \E m \in 1..Len(v) : i < m /\ m < j /\ EndsMigration(v[m])
    OBVIOUS
  <2>1. i \in 1..n /\ Begins(u[i])
    BY <1>1, <1>2
  <2>2. CASE j \in 1..n
    <3>1. PICK m \in 1..n : i < m /\ m < j /\ EndsMigration(u[m])
      BY <1>1, <2>1, <2>2 DEF Balanced
    <3> QED BY <1>1, <1>3, <3>1
  <2>3. CASE j = n + 1
    <3>1. ~tr
      BY <1>1, <2>3, KindsApart DEF Neutral
    <3>2. PICK m \in 1..n : i < m /\ EndsMigration(u[m])
      BY <2>1, <3>1 DEF Balanced
    <3> QED BY <1>1, <1>3, <2>3, <3>2
  <2> QED BY <1>2, <2>2, <2>3
<1>6. ~tr2 => \A i \in 1..Len(v) : Begins(v[i]) => \E m \in 1..Len(v) : i < m /\ EndsMigration(v[m])
  <2> SUFFICES ASSUME ~tr2, NEW i \in 1..Len(v), Begins(v[i])
               PROVE  \E m \in 1..Len(v) : i < m /\ EndsMigration(v[m])
    OBVIOUS
  <2>1. CASE EndsMigration(c)
    <3>1. i \in 1..n
      BY <1>1, <1>2, <2>1, KindsApart
    <3> QED BY <1>1, <1>3, <2>1, <3>1
  <2>2. CASE Neutral(c) /\ tr2 = tr
    <3>1. i \in 1..n /\ Begins(u[i])
      BY <1>1, <1>2, <2>2 DEF Neutral
    <3>2. PICK m \in 1..n : i < m /\ EndsMigration(u[m])
      BY <2>2, <3>1 DEF Balanced
    <3> QED BY <1>1, <1>3, <3>2
  <2> QED BY <2>1, <2>2
<1>7. st = "Migrating" => \A i \in 1..Len(v) : Begins(v[i]) => \E m \in 1..Len(v) : m < i /\ EndsMigration(v[m])
  <2> SUFFICES ASSUME st = "Migrating", NEW i \in 1..Len(v), Begins(v[i])
               PROVE  \E m \in 1..Len(v) : m < i /\ EndsMigration(v[m])
    OBVIOUS
  <2>1. CASE i \in 1..n
    <3>1. PICK m \in 1..n : m < i /\ EndsMigration(u[m])
      BY <1>1, <2>1 DEF Balanced
    <3> QED BY <1>1, <1>3, <3>1
  <2>2. CASE i = n + 1
    <3>1. ~tr
      BY <1>1, <2>2, KindsApart DEF Neutral
    <3>2. PICK m \in 1..n : EndsMigration(u[m])
      BY <3>1 DEF Balanced
    <3> QED BY <1>1, <1>3, <2>2, <3>2
  <2> QED BY <1>2, <2>1, <2>2
<1>8. st = "Migrating" /\ ~tr2 => \E m \in 1..Len(v) : EndsMigration(v[m])
  <2>1. EndsMigration(c) => \E m \in 1..Len(v) : EndsMigration(v[m])
    BY <1>1, <1>4
  <2>2. ASSUME st = "Migrating", ~tr PROVE \E m \in 1..Len(v) : EndsMigration(v[m])
    <3>1. PICK m \in 1..n : EndsMigration(u[m])
      BY <2>2 DEF Balanced
    <3> QED BY <1>1, <1>3, <3>1
  <2> QED BY <2>1, <2>2
<1> QED BY <1>5, <1>6, <1>7, <1>8 DEF Balanced, v

-----------------------------------------------------------------------------
(* What a step of the runtime does to the commands underway to v.          *)

\* The commands underway are commands.
LEMMA UnderwayType ==
  ASSUME TypeOK, NEW v \in Workspaces
  PROVE  Underway(v) \in Seq(Commands)
<1>1. coordQ[v] \in Seq(Commands)
  BY DEF TypeOK, ActorTypeOK
<1>2. pc = "sending" /\ send.chan = "coordinator" => send.msg \in Commands
  BY DEF TypeOK, SendRecords
<1> QED BY <1>1, <1>2 DEF Underway

\* A step that neither freezes v nor changes a frozen or failed v.
Calm(v) ==
  /\ status'[v] = "Migrating" => status[v] = "Migrating"
  /\ status[v] \in {"Migrating", "Failed"} => status'[v] = status[v]

\* v is sent the command c.
Sends(v, c) == v \in handles /\ Underway(v)' = Append(Underway(v), c)

\* v takes a command.
Takes(v) ==
  /\ HandleCommand(v)
  /\ Underway(v) # <<>> /\ Underway(v)[1] = Head(coordQ[v])
  /\ Underway(v)' = Tail(Underway(v))

\* v is gone, and with it what was queued.
Drops(v) ==
  /\ phase'[v] = "exited"
  /\ \E k \in Nat : \A i \in 1..Len(Underway(v)') :
       i + k \in 1..Len(Underway(v)) /\ Underway(v)'[i] = Underway(v)[i + k]

\* Starting a send, seen from v.
LEMMA StartedSend ==
  ASSUME TypeOK, pc # "sending", UNCHANGED coordQ, NEW v \in Workspaces, NEW w, NEW chan, NEW msg, NEW gate, NEW back,
         StartSend(w, chan, msg, gate, back)
  PROVE  Underway(v)' = IF w = v /\ chan = "coordinator" THEN Append(Underway(v), msg) ELSE Underway(v)
BY DEF StartSend, Underway

\* Every step of the runtime is one of these.
LEMMA UnderwaySteps ==
  ASSUME TypeOK, [Next]_vars, NEW v \in Workspaces
  PROVE  \/ Calm(v) /\ Underway(v)' = Underway(v)
         \/ Calm(v) /\ \E c \in Commands : Neutral(c) /\ Sends(v, c)
         \/ Takes(v)
         \/ Calm(v) /\ Drops(v)
<1> DEFINE Goal == \/ Calm(v) /\ Underway(v)' = Underway(v)
                   \/ Calm(v) /\ \E c \in Commands : Neutral(c) /\ Sends(v, c)
                   \/ Takes(v)
                   \/ Calm(v) /\ Drops(v)
<1>t. /\ coordQ \in [Workspaces -> Seq(Commands)] /\ coordQ[v] \in Seq(Commands)
      /\ status \in [Workspaces -> WorkspaceStates] /\ phase \in [Workspaces -> Phases]
  BY DEF TypeOK, ActorTypeOK
<1>u. Underway(v) \in Seq(Commands)
  BY UnderwayType
<1>1. ASSUME NEW w \in Workspaces, ActorNext(w) PROVE Goal
  <2>1. UNCHANGED <<pc, send>>
    BY <1>1 DEF ActorNext, loopVars
  <2>2. HandleCommand(w) \/ HandleAgentMsg(w) \/ Terminate(w) \/ SendEvent(w)
    BY <1>1 DEF ActorNext, ActorStep
  <2>3. CASE coordQ'[v] = coordQ[v] /\ Calm(v)
    BY <2>1, <2>3 DEF Underway
  <2>4. CASE HandleCommand(w) /\ v # w
    <3>1. coordQ'[v] = coordQ[v] /\ status'[v] = status[v]
      BY <1>t, <2>4 DEF HandleCommand, DeliverEnvelope, TriggerCommand
    <3> QED BY <2>3, <3>1 DEF Calm
  <2>5. CASE HandleCommand(w) /\ v = w
    <3>1. coordQ[v] # <<>> /\ coordQ'[v] = Tail(coordQ[v])
      BY <1>t, <2>5 DEF HandleCommand
    <3>2. CASE pc = "sending" /\ send.ws = v /\ send.chan = "coordinator"
      <4>1. send.msg \in Commands
        BY <3>2 DEF TypeOK, SendRecords
      <4>2. Underway(v) = Append(coordQ[v], send.msg) /\ Underway(v)' = Append(Tail(coordQ[v]), send.msg)
        BY <2>1, <3>1, <3>2 DEF Underway
      <4>3. Append(coordQ[v], send.msg) # <<>> /\ Append(coordQ[v], send.msg)[1] = Head(coordQ[v])
        BY <1>t, <3>1, <4>1
      <4>4. Tail(Append(coordQ[v], send.msg)) = Append(Tail(coordQ[v]), send.msg)
        BY <1>t, <3>1, HeadTailAppend
      <4> QED BY <2>5, <4>2, <4>3, <4>4 DEF Takes
    <3>3. CASE ~(pc = "sending" /\ send.ws = v /\ send.chan = "coordinator")
      <4>1. Underway(v) = coordQ[v] /\ Underway(v)' = Tail(coordQ[v])
        BY <2>1, <3>1, <3>3 DEF Underway
      <4>2. coordQ[v][1] = Head(coordQ[v])
        BY <1>t, <3>1
      <4> QED BY <2>5, <3>1, <4>1, <4>2 DEF Takes
    <3> QED BY <3>2, <3>3
  <2>6. CASE HandleAgentMsg(w)
    <3>1. coordQ' = coordQ /\ status[w] \notin TerminalStates
      BY <2>6 DEF HandleAgentMsg, Selecting
    <3>2. CASE status[w] = "Migrating"
      BY <2>3, <2>6, <3>1, <3>2 DEF HandleAgentMsg, Calm
    <3>3. CASE status[w] # "Migrating"
      <4> DEFINE msg == Head(agentQ[w])
      <4>1. CASE EmitSignal(w, msg.val)
        <5>1. \A sig \in DOMAIN SignalTrigger : SignalTrigger[sig] # "CoordinatorMigrate"
          BY DEF SignalTrigger
        <5>2. \A sig \in DOMAIN SignalTrigger : NextState(status[w], SignalTrigger[sig]) # "Migrating"
          BY <1>t, <3>3, <5>1, FreezeFacts
        <5>3. status' = [status EXCEPT ![w] = IF msg.val \in DOMAIN SignalTrigger
                                              THEN NextState(status[w], SignalTrigger[msg.val]) ELSE status[w]]
          BY <4>1 DEF EmitSignal
        <5>4. Calm(v)
          BY <1>t, <3>1, <3>3, <5>2, <5>3 DEF Calm, TerminalStates
        <5> QED BY <2>3, <3>1, <5>4
      <4>2. CASE CreateCheckpoint(w, msg.val)
        <5>1. NextState(status[w], "AgentBlocked") # "Migrating"
          BY <1>t, <3>3, FreezeFacts
        <5>2. Calm(v)
          BY <1>t, <3>1, <3>3, <4>2, <5>1 DEF Calm, TerminalStates, CreateCheckpoint
        <5> QED BY <2>3, <3>1, <5>2
      <4> QED BY <2>6, <3>3, <4>1, <4>2 DEF HandleAgentMsg
    <3> QED BY <3>2, <3>3
  <2>7. CASE Terminate(w)
    BY <2>3, <2>7 DEF Terminate, Calm
  <2>8. CASE SendEvent(w)
    <3>1. Calm(v)
      BY <2>8 DEF SendEvent, Calm
    <3>2. CASE coordQ'[v] = coordQ[v]
      BY <2>3, <3>1, <3>2
    <3>3. CASE coordQ'[v] # coordQ[v]
      <4>1. coordQ'[v] = <<>> /\ phase'[v] = "exited"
        BY <1>t, <2>8, <3>3 DEF SendEvent
      <4>2. CASE pc = "sending" /\ send.ws = v /\ send.chan = "coordinator"
        <5>1. send.msg \in Commands
          BY <4>2 DEF TypeOK, SendRecords
        <5>2. Underway(v) = Append(coordQ[v], send.msg) /\ Underway(v)' = Append(<<>>, send.msg)
          BY <2>1, <4>1, <4>2 DEF Underway
        <5>k. PICK k \in Nat : k = Len(coordQ[v])
          BY <1>t
        <5>3. /\ Append(<<>>, send.msg)[1] = send.msg /\ Len(Append(<<>>, send.msg)) = 1
              /\ 1 + k \in 1..Len(Append(coordQ[v], send.msg)) /\ Append(coordQ[v], send.msg)[1 + k] = send.msg
          BY <1>t, <5>1, <5>k
        <5>4. \A i \in 1..Len(Underway(v)') : i + k \in 1..Len(Underway(v)) /\ Underway(v)'[i] = Underway(v)[i + k]
          BY <5>2, <5>3
        <5> QED BY <3>1, <4>1, <5>4 DEF Drops
      <4>3. CASE ~(pc = "sending" /\ send.ws = v /\ send.chan = "coordinator")
        <5>1. Underway(v)' = <<>>
          BY <2>1, <4>1, <4>3 DEF Underway
        <5>2. \A i \in 1..Len(Underway(v)') : i + 0 \in 1..Len(Underway(v)) /\ Underway(v)'[i] = Underway(v)[i + 0]
          BY <5>1
        <5> QED BY <3>1, <4>1, <5>2 DEF Drops
      <4> QED BY <4>2, <4>3
    <3> QED BY <3>2, <3>3
  <2> QED BY <2>2, <2>4, <2>5, <2>6, <2>7, <2>8
<1>2. CASE CompleteSend
  <2>1. Calm(v) /\ phase' = phase /\ pc' # "sending" /\ pc = "sending" /\ send \in SendRecords
    BY <1>2 DEF CompleteSend, Calm, TypeOK, SendRecords
  <2>2. Underway(v)' = coordQ'[v]
    BY <2>1 DEF Underway
  <2>3. CASE send.ws = v /\ send.chan = "coordinator"
    <3>1. Underway(v) = Append(coordQ[v], send.msg) /\ send.msg \in Commands
      BY <2>1, <2>3 DEF Underway, SendRecords
    <3>2. CASE phase[v] # "exited"
      <4>1. coordQ'[v] = Append(coordQ[v], send.msg)
        BY <1>t, <1>2, <2>3, <3>2 DEF CompleteSend, Closed
      <4> QED BY <2>1, <2>2, <3>1, <4>1
    <3>3. CASE phase[v] = "exited"
      <4>1. coordQ'[v] = coordQ[v]
        BY <1>t, <1>2, <2>3, <3>3 DEF CompleteSend, Closed
      <4>2. \A i \in 1..Len(coordQ[v]) : /\ i + 0 \in 1..Len(Append(coordQ[v], send.msg))
                                         /\ coordQ[v][i] = Append(coordQ[v], send.msg)[i + 0]
        BY <1>t, <3>1
      <4>3. \A i \in 1..Len(Underway(v)') : i + 0 \in 1..Len(Underway(v)) /\ Underway(v)'[i] = Underway(v)[i + 0]
        BY <2>2, <3>1, <4>1, <4>2
      <4> QED BY <2>1, <3>3, <4>3 DEF Drops
    <3> QED BY <3>2, <3>3
  <2>4. CASE ~(send.ws = v /\ send.chan = "coordinator")
    <3>1. Underway(v) = coordQ[v] /\ coordQ'[v] = coordQ[v]
      BY <1>t, <1>2, <2>4 DEF Underway, CompleteSend
    <3> QED BY <2>1, <2>2, <3>1
  <2> QED BY <2>3, <2>4
<1>3. ASSUME UNCHANGED <<coordQ, status>>, pc # "sending", pc' # "sending" PROVE Goal
  BY <1>3 DEF Underway, Calm
<1>4. ASSUME UNCHANGED <<coordQ, status>>, UNCHANGED <<pc, send>> PROVE Goal
  BY <1>4 DEF Underway, Calm
<1>5. ASSUME UNCHANGED <<coordQ, status>>, pc # "sending", NEW w \in handles, NEW chan, NEW msg, NEW gate, NEW back,
             StartSend(w, chan, msg, gate, back), chan = "coordinator" => msg \in Commands /\ msg.kind \in SentKinds
      PROVE  Goal
  <2>1. Calm(v)
    BY <1>5 DEF Calm
  <2>2. Underway(v)' = IF w = v /\ chan = "coordinator" THEN Append(Underway(v), msg) ELSE Underway(v)
    BY <1>5, StartedSend
  <2>3. chan = "coordinator" => Neutral(msg)
    BY <1>5, KindsApart
  <2> QED BY <1>5, <2>1, <2>2, <2>3 DEF Sends
<1>6. ASSUME NEW k \in RuntimeCommands PROVE Command(k) \in Commands /\ Command(k).kind \in SentKinds
  <2>1. k \in DOMAIN CommandTrigger \cup {"DeliverEnvelope"} /\ Command(k).kind = k
    BY DEF RuntimeCommands, CommandTrigger, Command
  <2> QED BY <2>1, CommandType DEF SentKinds
<1>7. CASE HandleEvent
  <2>1. UNCHANGED <<coordQ, status>> /\ pc # "sending" /\ "IntegrationSucceeded" \in RuntimeCommands
    BY <1>7 DEF HandleEvent, RuntimeCommands
  <2>2. \/ UNCHANGED <<pc, send>>
        \/ \E w \in handles : StartSend(w, "coordinator", Command("IntegrationSucceeded"), FALSE, pc)
    BY <1>7 DEF HandleEvent, OnStateChanged, OnCheckpointCreated, OnTerminated, OnSignal, OnOther, AutoIntegrate
  <2> QED BY <1>4, <1>5, <1>6, <2>1, <2>2
<1>8. ASSUME NEW w \in Workspaces, AbortNext(w) PROVE Goal
  <2>1. UNCHANGED <<coordQ, status>> /\ pc # "sending" /\ "Abort" \in RuntimeCommands
    BY <1>8 DEF AbortNext, actorVars, RuntimeCommands
  <2>2. \/ UNCHANGED <<pc, send>>
        \/ \E u \in handles : StartSend(u, "coordinator", Command("Abort"), FALSE, "aborting")
    BY <1>8 DEF AbortNext
  <2> QED BY <1>4, <1>5, <1>6, <2>1, <2>2
<1>9. CASE BeginDrain \/ DrainTimeout \/ Shutdown
  BY <1>3, <1>9 DEF BeginDrain, DrainTimeout, Shutdown, actorVars
<1>10. CASE \E t \in Tasks, w \in Workspaces : SubmitGoal(t, w) \/ Dispatch(t, w)
  BY <1>4, <1>10 DEF SubmitGoal, Dispatch, DispatchWorkspace, Spawn
<1>11. CASE Asks
  <2>1. UNCHANGED <<coordQ, status>> /\ pc # "sending"
    BY <1>11 DEF Asks, actorVars
  <2>2. \/ UNCHANGED <<pc, send>>
        \/ \E w \in handles, msg \in AgentMessages, gate \in BOOLEAN : StartSend(w, "agent", msg, gate, "select")
        \/ \E w \in handles, k \in RuntimeCommands : StartSend(w, "coordinator", Command(k), FALSE, "select")
        \/ \E g \in gates, k \in {"CheckpointApproved", "CheckpointRejected"} :
             g.ws \in handles /\ StartSend(g.ws, "coordinator", [kind |-> k, gate |-> g.id], FALSE, "select")
    BY <1>11 DEF Asks
  <2>3. ASSUME NEW g \in gates, NEW k \in {"CheckpointApproved", "CheckpointRejected"}
        PROVE  [kind |-> k, gate |-> g.id] \in Commands /\ [kind |-> k, gate |-> g.id].kind \in SentKinds
    BY DEF TypeOK, Gates, Commands, CommandTrigger, SentKinds
  <2> QED BY <1>4, <1>5, <1>6, <2>1, <2>2, <2>3
<1>12. CASE UNCHANGED vars
  BY <1>4, <1>12 DEF vars, actorVars, loopVars
<1> QED BY <1>1, <1>2, <1>7, <1>8, <1>9, <1>10, <1>11, <1>12, AllSteps

\* What the command v takes does to a frozen v, and which one freezes it.
LEMMA TakeEffects ==
  ASSUME TypeOK, NEW v \in Workspaces, HandleCommand(v)
  PROVE  LET cmd == Head(coordQ[v])
         IN  /\ status'[v] = "Migrating" => ~EndsMigration(cmd) /\ (status[v] = "Migrating" \/ Begins(cmd))
             /\ status[v] = "Migrating" /\ ~Restores(cmd) => status'[v] \in {"Migrating", "Failed"}
<1> DEFINE cmd == Head(coordQ[v])
<1>t. status \in [Workspaces -> WorkspaceStates] /\ status[v] \in WorkspaceStates /\ cmd \in Commands
  <2>1. coordQ[v] \in Seq(Commands) /\ coordQ[v] # <<>>
    BY DEF TypeOK, ActorTypeOK, HandleCommand
  <2> QED BY <2>1, TailFacts DEF TypeOK, ActorTypeOK
<1>1. CASE cmd.kind = "DeliverEnvelope"
  <2>1. status'[v] = status[v] \/ (status[v] = "Idle" /\ status'[v] = NextState(status[v], "ReceiveFirstEnvelope"))
    BY <1>t, <1>1 DEF HandleCommand, DeliverEnvelope
  <2>2. status'[v] = status[v] \/ (status[v] = "Idle" /\ status'[v] # "Migrating")
    BY <1>t, <2>1, FreezeFacts
  <2> QED BY <1>1, <2>2 DEF EndsMigration
<1>2. CASE cmd.kind # "DeliverEnvelope"
  <2> DEFINE t == CommandTrigger[cmd.kind]
  <2>1. status'[v] = NextState(status[v], t)
    BY <1>t, <1>2 DEF HandleCommand, TriggerCommand
  <2>2. /\ EndsMigration(cmd) => t \in {"MigrationSucceeded", "MigrationSucceededBlocked", "MigrationFailed"}
        /\ t = "CoordinatorMigrate" => Begins(cmd)
        /\ t \in {"MigrationSucceeded", "MigrationSucceededBlocked"} => Restores(cmd)
    BY <1>t, <1>2 DEF Commands, CommandTrigger, EndsMigration, Begins, Restores
  <2> HIDE DEF t, cmd
  <2>3. status'[v] = "Migrating" => ~EndsMigration(cmd) /\ (status[v] = "Migrating" \/ Begins(cmd))
    BY <1>t, <2>1, <2>2, FreezeFacts
  <2>4. status[v] = "Migrating" /\ ~Restores(cmd) => status'[v] \in {"Migrating", "Failed"}
    BY <1>t, <2>1, <2>2, FreezeFacts
  <2> QED BY <2>3, <2>4 DEF cmd
<1> QED BY <1>1, <1>2

\* The commands that restore v are not sent by a step of the runtime.
LEMMA RestoreSteps ==
  ASSUME TypeOK, [Next]_vars, NEW v \in Workspaces
  PROVE  \E k \in Nat :
           /\ Calm(v) \/ (k = 1 /\ Takes(v))
           /\ \A i \in 1..Len(Underway(v)') : Restores(Underway(v)'[i]) =>
                i + k \in 1..Len(Underway(v)) /\ Restores(Underway(v)[i + k])
<1> DEFINE u == Underway(v)
<1>u. u \in Seq(Commands)
  BY UnderwayType
<1>1. CASE Calm(v) /\ Underway(v)' = u
  <2>1. \A i \in 1..Len(u) : i + 0 = i
    OBVIOUS
  <2> QED BY <1>1, <2>1
<1>2. CASE Calm(v) /\ \E c \in Commands : Neutral(c) /\ Sends(v, c)
  <2>1. PICK c \in Commands : Neutral(c) /\ Underway(v)' = Append(u, c)
    BY <1>2 DEF Sends
  <2>2. ~Restores(c)
    BY <2>1, KindsApart DEF Neutral
  <2>3. /\ Len(Append(u, c)) = Len(u) + 1 /\ Len(u) \in Nat /\ Append(u, c)[Len(u) + 1] = c
        /\ \A i \in 1..Len(u) : Append(u, c)[i] = u[i]
    BY <1>u, AppendFacts
  <2> HIDE DEF u
  <2>4. \A i \in 1..Len(Underway(v)') : Restores(Underway(v)'[i]) => i + 0 \in 1..Len(u) /\ Restores(u[i + 0])
    BY <2>1, <2>2, <2>3
  <2> QED BY <1>2, <2>4 DEF u
<1>3. CASE Takes(v)
  <2>1. Len(u) \in Nat \ {0} /\ Len(Tail(u)) = Len(u) - 1 /\ \A i \in 1..Len(Tail(u)) : Tail(u)[i] = u[i + 1]
    BY <1>u, <1>3, TailFacts DEF Takes
  <2>2. Underway(v)' = Tail(u)
    BY <1>3 DEF Takes
  <2> HIDE DEF u
  <2>3. \A i \in 1..Len(Underway(v)') : Restores(Underway(v)'[i]) => i + 1 \in 1..Len(u) /\ Restores(u[i + 1])
    BY <2>1, <2>2
  <2> QED BY <1>3, <2>3 DEF u
<1>4. CASE Calm(v) /\ Drops(v)
  BY <1>4 DEF Drops
<1> QED BY <1>1, <1>2, <1>3, <1>4, UnderwaySteps

\* v emits a snapshot: it takes a MigrateBegin and is Migrating afterwards.
Emits(v) ==
  /\ HandleCommand(v) /\ Begins(Head(coordQ[v])) /\ status'[v] = "Migrating"
  /\ UNCHANGED events /\ OneSnap(outbox'[v], v)

\* The snapshots on their way only advance: none appears, none is doubled.
Advances(v) ==
  /\ OneSnap(outbox'[v], v) /\ OneSnap(events', v)
  /\ SnapIn(outbox'[v], v) => ~SnapIn(events', v)
  /\ SnapIn(outbox'[v], v) \/ SnapIn(events', v) => SnapIn(outbox[v], v) \/ SnapIn(events, v)
  /\ HandleEvent /\ Snap(events[1], v) => ~SnapIn(outbox'[v], v) /\ ~SnapIn(events', v)

\* The event a transition reports is no snapshot.
LEMMA TransitionIsNoSnap ==
  ASSUME NEW v, NEW w, NEW t
  PROVE  ~Snap(TransitionEvent(w, t), v)
BY DEF Snap, TransitionEvent, Event

\* Events that are no snapshots, in an outbox.
LEMMA NoSnapLiterals ==
  ASSUME NEW v, NEW a, NEW b, NEW c, ~Snap(a, v), ~Snap(b, v), ~Snap(c, v)
  PROVE  ~SnapIn(<<>>, v) /\ ~SnapIn(<<a>>, v) /\ ~SnapIn(<<a, b>>, v) /\ ~SnapIn(<<a, b, c>>, v)
<1>1. /\ Len(<<>>) = 0 /\ Len(<<a>>) = 1 /\ Len(<<a, b>>) = 2 /\ Len(<<a, b, c>>) = 3
      /\ (<<a>>)[1] = a /\ (<<a, b>>)[1] = a /\ (<<a, b>>)[2] = b
      /\ (<<a, b, c>>)[1] = a /\ (<<a, b, c>>)[2] = b /\ (<<a, b, c>>)[3] = c
  OBVIOUS
<1> QED BY <1>1 DEF SnapIn

\* A turn of v's loop that emits nothing leaves no snapshot to send.
LEMMA OtherTurns ==
  ASSUME TypeOK, NEW v \in Workspaces, HandleCommand(v) \/ HandleAgentMsg(v)
  PROVE  outbox[v] = <<>> /\ UNCHANGED events /\ (Emits(v) \/ ~SnapIn(outbox'[v], v))
<1>t. outbox \in [Workspaces -> Seq(Events)]
  BY DEF TypeOK, ActorTypeOK
<1>1. outbox[v] = <<>> /\ UNCHANGED events
  BY DEF HandleCommand, HandleAgentMsg, Selecting
<1>2. \A t : ~Snap(TransitionEvent(v, t), v)
  BY TransitionIsNoSnap
<1>3. CASE HandleCommand(v)
  <2> DEFINE cmd == Head(coordQ[v])
  <2>1. CASE cmd.kind = "DeliverEnvelope"
    <3>1. outbox'[v] = <<>> \/ outbox'[v] = <<TransitionEvent(v, "ReceiveFirstEnvelope")>>
      BY <1>t, <1>3, <2>1 DEF HandleCommand, DeliverEnvelope
    <3> QED BY <1>1, <1>2, <3>1, NoSnapLiterals
  <2>2. CASE cmd.kind # "DeliverEnvelope"
    <3> DEFINE t == CommandTrigger[cmd.kind]
               ev == TransitionEvent(v, t)
               snap == Event(v, "MigrationSnapshot", "")
    <3>1. \/ outbox'[v] = <<ev>>
          \/ outbox'[v] = <<ev, snap>> /\ cmd.kind = "MigrateBegin" /\ NextState(status[v], t) = "Migrating"
      BY <1>t, <1>3, <2>2 DEF HandleCommand, TriggerCommand
    <3>2. CASE outbox'[v] = <<ev>>
      BY <1>1, <1>2, <3>2, NoSnapLiterals
    <3>3. CASE outbox'[v] = <<ev, snap>> /\ cmd.kind = "MigrateBegin" /\ NextState(status[v], t) = "Migrating"
      <4>1. status'[v] = "Migrating"
        BY <1>3, <2>2, <3>3 DEF HandleCommand, TriggerCommand, TypeOK, ActorTypeOK
      <4>2. ~Snap(ev, v)
        BY <1>2
      <4> HIDE DEF ev, snap
      <4>3. Len(<<ev, snap>>) = 2 /\ (<<ev, snap>>)[1] = ev
        OBVIOUS
      <4>4. OneSnap(outbox'[v], v)
        BY <3>3, <4>2, <4>3 DEF OneSnap
      <4> QED BY <1>1, <1>3, <3>3, <4>1, <4>4 DEF Emits, Begins
    <3> QED BY <3>1, <3>2, <3>3
  <2> QED BY <2>1, <2>2
<1>4. CASE HandleAgentMsg(v)
  <2> DEFINE msg == Head(agentQ[v])
  <2>1. CASE UNCHANGED outbox
    BY <1>1, <1>2, <2>1, NoSnapLiterals
  <2>2. CASE EmitSignal(v, msg.val)
    <3> DEFINE signal == Event(v, "Signal", msg.val)
    <3>1. ~Snap(signal, v)
      BY DEF Snap, Event
    <3>2. outbox'[v] = <<signal>> \/ outbox'[v] = <<TransitionEvent(v, SignalTrigger[msg.val]), signal>>
      BY <1>t, <2>2 DEF EmitSignal
    <3> HIDE DEF signal
    <3> QED BY <1>1, <1>2, <3>1, <3>2, NoSnapLiterals
  <2>3. CASE CreateCheckpoint(v, msg.val)
    <3> DEFINE created == [Event(v, "CheckpointCreated", "") EXCEPT !.cp = checkpoints[v]]
               signal == Event(v, "Signal", "Checkpoint")
    <3>1. ~Snap(signal, v) /\ ~Snap(created, v)
      BY DEF Snap, Event
    <3>2. outbox'[v] = <<created, signal>> \/ outbox'[v] = <<created, signal, TransitionEvent(v, "AgentBlocked")>>
      BY <1>t, <2>3 DEF CreateCheckpoint
    <3> HIDE DEF signal, created
    <3> QED BY <1>1, <1>2, <3>1, <3>2, NoSnapLiterals
  <2> QED BY <1>4, <2>1, <2>2, <2>3 DEF HandleAgentMsg
<1> QED BY <1>1, <1>3, <1>4

\* Every step of the runtime emits a snapshot of v or advances those there are.
LEMMA SnapshotSteps ==
  ASSUME TypeOK, ReportsSettle, [Next]_vars, NEW v \in Workspaces, OneSnap(outbox[v], v), OneSnap(events, v),
         SnapIn(outbox[v], v) => ~SnapIn(events, v)
  PROVE  (Emits(v) /\ ~HandleEvent) \/ Advances(v)
<1>t. outbox \in [Workspaces -> Seq(Events)] /\ events \in Seq(Events)
  BY DEF TypeOK, ActorTypeOK
<1>e. HandleEvent => events' # events
  <2> SUFFICES ASSUME HandleEvent PROVE events' # events
    OBVIOUS
  <2>1. Len(events) \in Nat \ {0} /\ Len(events') = Len(events) - 1
    BY HandleEventFacts
  <2> QED BY <2>1
<1>1. CASE outbox'[v] = outbox[v] /\ events' = events
  BY <1>e, <1>1 DEF Advances
<1>2. CASE HandleCommand(v) \/ HandleAgentMsg(v)
  <2>1. outbox[v] = <<>> /\ events' = events /\ (Emits(v) \/ ~SnapIn(outbox'[v], v))
    BY <1>2, OtherTurns
  <2>2. ~SnapIn(outbox'[v], v) => OneSnap(outbox'[v], v)
    BY DEF SnapIn, OneSnap
  <2> QED BY <1>e, <2>1, <2>2 DEF Advances
<1>3. ASSUME NEW w \in Workspaces, w # v, HandleCommand(w) \/ HandleAgentMsg(w)
      PROVE  outbox'[v] = outbox[v] /\ events' = events
  BY <1>t, <1>3 DEF HandleCommand, HandleAgentMsg, DeliverEnvelope, TriggerCommand, EmitSignal, CreateCheckpoint
<1>4. ASSUME NEW w \in Workspaces, Terminate(w) PROVE Advances(v)
  <2>1. outbox'[v] = (IF v = w THEN <<Event(w, "Terminated", status[w])>> ELSE outbox[v]) /\ events' = events
    BY <1>t, <1>4 DEF Terminate
  <2>2. CASE v # w
    BY <1>e, <2>1, <2>2 DEF Advances
  <2>3. CASE v = w
    <3>1. ~Snap(Event(w, "Terminated", status[w]), v)
      BY DEF Snap, Event
    <3>2. ~SnapIn(outbox'[v], v)
      BY <2>1, <2>3, <3>1, NoSnapLiterals
    <3> QED BY <1>e, <2>1, <3>2 DEF Advances, SnapIn, OneSnap
  <2> QED BY <2>2, <2>3
<1>5. ASSUME NEW w \in Workspaces, SendEvent(w) PROVE Advances(v)
  <2>1. /\ Len(outbox[w]) \in Nat \ {0} /\ Len(events) \in Nat
        /\ Len(events') = Len(events) + 1
        /\ \A i \in 1..Len(events) : events'[i] = events[i]
        /\ events'[Len(events) + 1] = outbox[w][1]
        /\ Len(outbox'[w]) = Len(outbox[w]) - 1
        /\ \A i \in 1..Len(outbox'[w]) : outbox'[w][i] = outbox[w][i + 1]
        /\ \A u \in Workspaces \ {w} : outbox'[u] = outbox[u]
    BY <1>5, SendEventFacts
  <2>2. ~HandleEvent
    <3> SUFFICES ASSUME HandleEvent PROVE FALSE
      OBVIOUS
    <3>1. Len(events') = Len(events) - 1
      BY HandleEventFacts
    <3> QED BY <2>1, <3>1
  <2>3. \A i \in 1..Len(events') : i \in 1..Len(events) \/ i = Len(events) + 1
    BY <2>1
  <2>4. CASE v # w
    <3>1. ~Snap(outbox[w][1], v)
      BY <2>1, <2>4 DEF ReportsSettle, OutboxCurrent, Snap
    <3>2. \A i \in 1..Len(events') : Snap(events'[i], v) => i \in 1..Len(events) /\ Snap(events[i], v)
      BY <2>1, <2>3, <3>1
    <3> QED BY <2>1, <2>2, <2>4, <3>2 DEF Advances, SnapIn, OneSnap
  <2>5. CASE v = w
    <3>1. \A i \in 1..Len(outbox'[v]) : i + 1 \in 1..Len(outbox[v]) /\ outbox'[v][i] = outbox[v][i + 1]
      BY <2>1, <2>5
    <3>2. OneSnap(outbox'[v], v)
      <4> SUFFICES ASSUME NEW i \in 1..Len(outbox'[v]), NEW j \in 1..Len(outbox'[v]), Snap(outbox'[v][i], v), Snap(outbox'[v][j], v)
                   PROVE  i = j
        BY DEF OneSnap
      <4>1. i + 1 = j + 1
        BY <3>1 DEF OneSnap
      <4> QED BY <4>1
    <3>3. SnapIn(outbox'[v], v) => SnapIn(outbox[v], v) /\ ~Snap(outbox[v][1], v)
      <4> SUFFICES ASSUME NEW i \in 1..Len(outbox'[v]), Snap(outbox'[v][i], v)
                   PROVE  SnapIn(outbox[v], v) /\ ~Snap(outbox[v][1], v)
        BY DEF SnapIn
      <4>1. i + 1 \in 1..Len(outbox[v]) /\ Snap(outbox[v][i + 1], v) /\ i + 1 # 1 /\ 1 \in 1..Len(outbox[v])
        BY <2>1, <2>5, <3>1
      <4> QED BY <4>1 DEF SnapIn, OneSnap
    <3>4. SnapIn(events', v) => SnapIn(events, v) \/ Snap(outbox[v][1], v)
      BY <2>1, <2>3, <2>5 DEF SnapIn
    <3>5. Snap(outbox[v][1], v) => SnapIn(outbox[v], v)
      <4>1. 1 \in 1..Len(outbox[v])
        BY <2>1, <2>5
      <4> QED BY <4>1 DEF SnapIn
    <3>6. OneSnap(events', v)
      <4> SUFFICES ASSUME NEW i \in 1..Len(events'), NEW j \in 1..Len(events'), Snap(events'[i], v), Snap(events'[j], v)
                   PROVE  i = j
        BY DEF OneSnap
      <4>1. CASE Snap(outbox[v][1], v)
        <5>1. \A x \in 1..Len(events) : ~Snap(events[x], v)
          BY <3>5, <4>1 DEF SnapIn
        <5> QED BY <2>1, <2>3, <5>1
      <4>2. CASE ~Snap(outbox[v][1], v)
        BY <2>1, <2>3, <2>5, <4>2 DEF OneSnap
      <4> QED BY <4>1, <4>2
    <3> QED BY <2>2, <3>2, <3>3, <3>4, <3>5, <3>6 DEF Advances
  <2> QED BY <2>4, <2>5
<1>6. CASE HandleEvent
  <2>1. /\ Len(events) \in Nat \ {0} /\ Len(events') = Len(events) - 1
        /\ \A i \in 1..Len(events') : events'[i] = events[i + 1]
        /\ outbox' = outbox
    BY <1>6, HandleEventFacts
  <2>2. \A i \in 1..Len(events') : i + 1 \in 1..Len(events) /\ i + 1 # 1 /\ events'[i] = events[i + 1]
    BY <2>1
  <2>3. 1 \in 1..Len(events)
    BY <2>1
  <2>4. OneSnap(events', v)
    <3> SUFFICES ASSUME NEW i \in 1..Len(events'), NEW j \in 1..Len(events'), Snap(events'[i], v), Snap(events'[j], v)
                 PROVE  i = j
      BY DEF OneSnap
    <3>1. i + 1 = j + 1
      BY <2>2 DEF OneSnap
    <3> QED BY <3>1
  <2>5. SnapIn(events', v) => SnapIn(events, v) /\ ~Snap(events[1], v)
    BY <2>2, <2>3 DEF SnapIn, OneSnap
  <2>6. Snap(events[1], v) => SnapIn(events, v)
    BY <2>3 DEF SnapIn
  <2> QED BY <2>1, <2>4, <2>5, <2>6 DEF Advances
<1>7. CASE \E t \in Tasks, w \in Workspaces : DispatchWorkspace(t, w)
  BY <1>1, <1>7 DEF DispatchWorkspace, Spawn
<1>8. CASE UNCHANGED mirrorVars
  BY <1>1, <1>8 DEF mirrorVars
<1>9. ASSUME NEW w \in Workspaces, ActorNext(w) PROVE (Emits(v) /\ ~HandleEvent) \/ Advances(v)
  BY <1>1, <1>2, <1>3, <1>4, <1>5, <1>9 DEF ActorNext, ActorStep
<1> QED BY <1>6, <1>7, <1>8, <1>9, StepKinds

\* Where an actor may go: it ends before it leaves, and is created once.
LEMMA PhaseSteps ==
  ASSUME TypeOK, [Next]_vars, NEW v \in Workspaces,
         phase[v] \in {"exiting", "exited"} => status[v] \in TerminalStates
  PROVE  /\ phase'[v] \in {"exiting", "exited"} => status'[v] \in TerminalStates
         /\ phase'[v] = "unborn" => phase[v] = "unborn"
         /\ phase'[v] = "running" => phase[v] \in {"unborn", "running"}
<1>t. phase \in [Workspaces -> Phases] /\ phase[v] \in Phases /\ status \in [Workspaces -> WorkspaceStates]
  BY DEF TypeOK, ActorTypeOK
<1>1. ASSUME NEW w \in Workspaces, NEW s, NEW q, Handles(w, s, q)
      PROVE  phase' = phase /\ phase[w] = "running" /\ (w # v => status'[v] = status[v])
  BY <1>t, <1>1 DEF Handles
<1>2. ASSUME NEW w \in Workspaces, Terminate(w)
      PROVE  /\ phase'[v] = (IF v = w THEN "exiting" ELSE phase[v]) /\ status' = status
             /\ phase[w] = "running" /\ status[w] \in TerminalStates
  BY <1>t, <1>2 DEF Terminate
<1>3. ASSUME NEW w \in Workspaces, SendEvent(w)
      PROVE  phase'[v] = (IF v = w /\ phase[v] = "exiting" THEN "exited" ELSE phase[v]) /\ status' = status
  BY <1>t, <1>3 DEF SendEvent
<1>4. HandleEvent => phase' = phase /\ status' = status
  BY DEF HandleEvent
<1>5. ASSUME NEW t \in Tasks, NEW w \in Workspaces, DispatchWorkspace(t, w)
      PROVE  phase[w] = "unborn" /\ phase'[v] = (IF v = w THEN "running" ELSE phase[v]) /\ status' = status
  BY <1>t, <1>5 DEF DispatchWorkspace, Spawn
<1>6. UNCHANGED mirrorVars => phase' = phase /\ status' = status
  BY DEF mirrorVars
<1> QED BY <1>t, <1>1, <1>2, <1>3, <1>4, <1>5, <1>6, StepCases DEF Phases

-----------------------------------------------------------------------------
(* The invariant.                                                          *)

\* set_snapshot changes no context but the one of the snapshot, and keeps it.
LEMMA ContextSteps ==
  ASSUME MigrationInv, NEW v \in Workspaces,
         \/ HandleEvent /\ SetSnapshot(Head(events))
         \/ ~HandleEvent /\ UNCHANGED migration
  PROVE  /\ MigrationTypeOK'
         /\ Tracked(v)' <=> Tracked(v)
         /\ Received(v)' => Received(v) \/ (HandleEvent /\ Snap(events[1], v))
<1>t. migration \in [Workspaces -> Contexts \cup {NoMigration}] /\ TypeOK
  BY DEF MigrationInv, MigrationTypeOK, RuntimeInv
<1>1. CASE UNCHANGED migration /\ ~HandleEvent
  BY <1>t, <1>1 DEF MigrationTypeOK, Tracked, Received
<1>2. CASE HandleEvent /\ SetSnapshot(Head(events))
  <2>1. Head(events) = events[1] /\ events[1] \in Events /\ events[1].ws \in Workspaces
    <3>1. events \in Seq(Events) /\ events # <<>>
      BY <1>t, <1>2 DEF TypeOK, ActorTypeOK, HandleEvent
    <3>2. Head(events) = events[1] /\ events[1] \in Events
      BY <3>1
    <3> QED BY <3>2 DEF Events
  <2>e. PICK e : e = events[1]
    OBVIOUS
  <2> DEFINE Set(c) == IF e.kind = "MigrationSnapshot" /\ c # NoMigration THEN [c EXCEPT !.snapshot = TRUE] ELSE c
  <2>2. migration' = [migration EXCEPT ![e.ws] = Set(migration[e.ws])]
    BY <1>2, <2>1, <2>e DEF SetSnapshot
  <2>3. \A c \in Contexts \cup {NoMigration} :
          /\ Set(c) \in Contexts \cup {NoMigration}
          /\ Set(c) = NoMigration <=> c = NoMigration
          /\ e.kind # "MigrationSnapshot" => Set(c) = c
    BY NoMigrationAssumption DEF Contexts
  <2> HIDE DEF Set
  <2>4. migration'[v] = (IF v = e.ws THEN Set(migration[v]) ELSE migration[v]) /\ migration[v] \in Contexts \cup {NoMigration}
    BY <1>t, <2>1, <2>2, <2>e
  <2>5. MigrationTypeOK'
    BY <1>t, <2>1, <2>2, <2>3, <2>e DEF MigrationTypeOK
  <2>6. Tracked(v)' <=> Tracked(v)
    BY <2>3, <2>4 DEF Tracked
  <2>7. Received(v)' => Received(v) \/ Snap(events[1], v)
    BY <2>3, <2>4, <2>6, <2>e DEF Received, Snap
  <2> QED BY <1>2, <2>5, <2>6, <2>7
<1> QED BY <1>1, <1>2

\* A step of the runtime keeps it.
LEMMA RuntimeKeeps ==
  ASSUME MigrationInv, [Next]_vars, NEW v \in Workspaces,
         \/ HandleEvent /\ SetSnapshot(Head(events))
         \/ ~HandleEvent /\ UNCHANGED migration
  PROVE  Migrates(v)'
<1>0. /\ TypeOK /\ RuntimeInv /\ ReportsSettle /\ PhaseShape(v) /\ Migrates(v)
      /\ phase[v] \in Phases /\ status[v] \in WorkspaceStates
  BY DEF MigrationInv, RuntimeInv, Migrates, ActorLifecycle, TypeOK, ActorTypeOK
<1>1. Underway(v) \in Seq(Commands)
  BY <1>0, UnderwayType
<1>2. /\ Tracked(v)' <=> Tracked(v)
      /\ Received(v)' => Received(v) \/ (HandleEvent /\ Snap(events[1], v))
  BY ContextSteps
<1>3. /\ phase'[v] \in {"exiting", "exited"} => status'[v] \in TerminalStates
      /\ phase'[v] = "unborn" => phase[v] = "unborn"
      /\ phase'[v] = "running" => phase[v] \in {"unborn", "running"}
  BY <1>0, PhaseSteps DEF Migrates, Borders
<1>4. Borders(v)'
  <2>1. ASSUME phase'[v] = "unborn" PROVE Underway(v)' = <<>>
    <3>1. phase[v] = "unborn" /\ Underway(v) = <<>> /\ v \notin handles
      BY <1>0, <1>3, <2>1 DEF Migrates, Borders, PhaseShape
    <3>2. ~Takes(v) /\ ~Drops(v) /\ ~\E c \in Commands : Sends(v, c)
      BY <2>1, <3>1 DEF Takes, Drops, Sends
    <3> QED BY <1>0, <3>1, <3>2, UnderwaySteps
  <2> QED BY <1>3, <2>1 DEF Borders
<1>5. phase'[v] = "running" => Balanced(Underway(v), status[v], Tracked(v))'
  <2> SUFFICES ASSUME phase'[v] = "running" PROVE Balanced(Underway(v)', status'[v], Tracked(v)')
    OBVIOUS
  <2> DEFINE tr == Tracked(v)
  <2>1. Tracked(v)' = tr /\ tr \in BOOLEAN
    BY <1>2 DEF Tracked
  <2>2. Balanced(Underway(v), status[v], tr)
    <3>1. CASE phase[v] = "running"
      BY <1>0, <3>1 DEF Migrates
    <3>2. CASE phase[v] = "unborn"
      <4>1. status[v] = "Idle" /\ Underway(v) = <<>>
        BY <1>0, <3>2 DEF Migrates, Borders, PhaseShape
      <4> QED BY <4>1 DEF Balanced
    <3> QED BY <1>3, <3>1, <3>2
  <2>3. ASSUME NEW u, Balanced(u, status[v], tr), Calm(v) PROVE Balanced(u, status'[v], tr)
    BY <2>3 DEF Balanced, Calm
  <2> HIDE DEF tr
  <2>4. CASE Calm(v) /\ Underway(v)' = Underway(v)
    BY <2>1, <2>2, <2>3, <2>4
  <2>5. ASSUME NEW c \in Commands, Calm(v), Neutral(c), Sends(v, c) PROVE Balanced(Underway(v)', status'[v], Tracked(v)')
    <3>1. Balanced(Append(Underway(v), c), status[v], tr)
      BY <1>1, <2>1, <2>2, <2>5, BalancedAppend
    <3> QED BY <2>1, <2>3, <2>5, <3>1 DEF Sends
  <2>6. CASE Takes(v)
    <3>1. status'[v] = "Migrating" => ~EndsMigration(Underway(v)[1]) /\ (status[v] = "Migrating" \/ Begins(Underway(v)[1]))
      BY <1>0, <2>6, TakeEffects DEF Takes
    <3>2. Underway(v) # <<>> /\ Underway(v)' = Tail(Underway(v))
      BY <2>6 DEF Takes
    <3>3. Balanced(Tail(Underway(v)), status'[v], tr)
      BY <1>1, <2>1, <2>2, <3>1, <3>2, BalancedTail
    <3> QED BY <2>1, <3>2, <3>3
  <2>7. ~Drops(v)
    BY DEF Drops
  <2> QED BY <1>0, <2>4, <2>5, <2>6, <2>7, UnderwaySteps
<1>6. /\ OneSnap(outbox[v], v) /\ OneSnap(events, v) /\ (SnapIn(outbox[v], v) => ~SnapIn(events, v))
      /\ Received(v) => ~SnapIn(outbox[v], v) /\ ~SnapIn(events, v)
  BY <1>0 DEF Migrates, OneSnapshot
<1>7. (Emits(v) /\ ~HandleEvent) \/ Advances(v)
  BY <1>0, <1>6, SnapshotSteps
<1>8. /\ \A i \in 1..Len(Underway(v)) : Restores(Underway(v)[i]) => status[v] \in {"Migrating", "Failed"} /\ ~Snapped(v)
      /\ \A i, j \in 1..Len(Underway(v)) : Restores(Underway(v)[i]) /\ Restores(Underway(v)[j]) => i = j
      /\ Snapped(v) => status[v] \in {"Migrating", "Failed"}
  BY <1>0 DEF Migrates, OneRestore
<1>k. PICK k \in Nat :
        /\ Calm(v) \/ (k = 1 /\ Takes(v))
        /\ \A i \in 1..Len(Underway(v)') : Restores(Underway(v)'[i]) =>
             i + k \in 1..Len(Underway(v)) /\ Restores(Underway(v)[i + k])
  BY <1>0, RestoreSteps
<1>9. \A i, j \in 1..Len(Underway(v)') : Restores(Underway(v)'[i]) /\ Restores(Underway(v)'[j]) => i = j
  <2> SUFFICES ASSUME NEW i \in 1..Len(Underway(v)'), NEW j \in 1..Len(Underway(v)'),
                      Restores(Underway(v)'[i]), Restores(Underway(v)'[j])
               PROVE  i = j
    OBVIOUS
  <2>1. i + k = j + k
    BY <1>8, <1>k
  <2> QED BY <2>1
<1>10. CASE Emits(v) /\ ~HandleEvent
  <2>1. Selecting(v) /\ Begins(Head(coordQ[v])) /\ status'[v] = "Migrating" /\ events' = events /\ OneSnap(outbox'[v], v)
    BY <1>10 DEF Emits, HandleCommand
  <2>2. status[v] # "Migrating"
    <3> SUFFICES ASSUME status[v] = "Migrating" PROVE FALSE
      OBVIOUS
    <3>1. Balanced(Underway(v), "Migrating", Tracked(v))
      BY <1>0, <2>1 DEF Migrates, Selecting
    <3>2. coordQ[v] \in Seq(Commands) /\ coordQ[v] # <<>>
      BY <1>0, <1>10 DEF Emits, HandleCommand, TypeOK, ActorTypeOK
    <3>3. Underway(v)[1] = Head(coordQ[v]) /\ Len(Underway(v)) \in Nat \ {0}
      <4>1. CASE Underway(v) = coordQ[v]
        BY <3>2, <4>1
      <4>2. CASE Underway(v) = Append(coordQ[v], send.msg)
        BY <3>2, <4>2
      <4> QED BY <4>1, <4>2 DEF Underway
    <3>4. 1 \in 1..Len(Underway(v))
      BY <3>3
    <3>5. PICK m \in 1..Len(Underway(v)) : m < 1
      BY <2>1, <3>1, <3>3, <3>4 DEF Balanced
    <3> QED BY <3>3, <3>5
  <2>3. ~Snapped(v) /\ \A i \in 1..Len(Underway(v)) : ~Restores(Underway(v)[i])
    BY <1>8, <2>1, <2>2 DEF Selecting, TerminalStates
  <2>4. ~Received(v)' /\ ~SnapIn(events', v)
    BY <1>2, <1>10, <2>1, <2>3 DEF Snapped
  <2>5. OneSnapshot(v)'
    BY <1>6, <2>1, <2>4 DEF OneSnapshot
  <2>6. \A i \in 1..Len(Underway(v)') : ~Restores(Underway(v)'[i])
    BY <1>k, <2>3
  <2>7. OneRestore(v)'
    BY <2>1, <2>6 DEF OneRestore
  <2> QED BY <1>4, <1>5, <2>5, <2>7 DEF Migrates
<1>11. CASE Advances(v)
  <2>1. OneSnapshot(v)'
    BY <1>2, <1>6, <1>11 DEF OneSnapshot, Advances
  <2>2. Snapped(v)' => Snapped(v)
    <3>1. HandleEvent => 1 \in 1..Len(events)
      <4>1. HandleEvent => Len(events) \in Nat \ {0}
        BY <1>0, HandleEventFacts
      <4> QED BY <4>1
    <3> QED BY <1>2, <1>11, <3>1 DEF Snapped, Advances, SnapIn
  <2>3. ASSUME status[v] \in {"Migrating", "Failed"}, Takes(v) => ~Restores(Underway(v)[1])
        PROVE  status'[v] \in {"Migrating", "Failed"}
    <3>1. CASE Calm(v)
      BY <2>3, <3>1 DEF Calm
    <3>2. CASE Takes(v)
      <4>1. HandleCommand(v) /\ Underway(v)[1] = Head(coordQ[v]) /\ status[v] # "Failed"
        BY <3>2 DEF Takes, HandleCommand, Selecting, TerminalStates
      <4> QED BY <1>0, <2>3, <3>2, <4>1, TakeEffects
    <3> QED BY <1>k, <3>1, <3>2
  <2>4. Takes(v) => 1 \in 1..Len(Underway(v))
    <3> SUFFICES ASSUME Takes(v) PROVE 1 \in 1..Len(Underway(v))
      OBVIOUS
    <3>1. Len(Underway(v)) \in Nat \ {0}
      BY <1>1 DEF Takes
    <3> QED BY <3>1
  <2>5. Snapped(v)' => status'[v] \in {"Migrating", "Failed"}
    BY <1>8, <2>2, <2>3, <2>4
  <2>6. ASSUME NEW i \in 1..Len(Underway(v)'), Restores(Underway(v)'[i])
        PROVE  status'[v] \in {"Migrating", "Failed"} /\ ~Snapped(v)'
    <3>1. i + k \in 1..Len(Underway(v)) /\ Restores(Underway(v)[i + k])
      BY <1>k, <2>6
    <3>2. status[v] \in {"Migrating", "Failed"} /\ ~Snapped(v)
      BY <1>8, <3>1
    <3>3. CASE Calm(v)
      BY <2>2, <3>2, <3>3 DEF Calm
    <3>4. CASE k = 1 /\ Takes(v)
      <4>1. i + k # 1
        BY <3>4
      <4>2. ~Restores(Underway(v)[1])
        BY <1>8, <2>4, <3>1, <3>4, <4>1
      <4> QED BY <2>2, <2>3, <3>2, <4>2
    <3> QED BY <1>k, <3>3, <3>4
  <2>7. OneRestore(v)'
    BY <1>9, <2>5, <2>6 DEF OneRestore
  <2> QED BY <1>4, <1>5, <2>1, <2>7 DEF Migrates
<1> QED BY <1>7, <1>10, <1>11

\* A migration operation takes a turn of the loop and may send w a command.
Operates(w, c) ==
  /\ TakeOperation
  /\ c \in Commands
  /\ Forward(w, "coordinator", c)

\* The three operations, with the command each sends.
LEMMA Operations ==
  ASSUME MigrationInv, NEW w \in Workspaces, StartMigration(w) \/ CompleteMigration(w) \/ FailMigration(w)
  PROVE  \E c \in Commands :
           /\ Operates(w, c)
           /\ \/ Begins(c) /\ Track(w)
              \/ EndsMigration(c) /\ Untrack(w) /\ (Restores(c) => Received(w))
<1>1. ASSUME NEW k \in DOMAIN CommandTrigger PROVE Command(k) \in Commands /\ Command(k).kind = k
  BY CommandType DEF Command
<1>2. /\ "MigrateBegin" \in DOMAIN CommandTrigger /\ "MigrationComplete" \in DOMAIN CommandTrigger
      /\ "MigrationCompleteBlocked" \in DOMAIN CommandTrigger /\ "MigrationFailed" \in DOMAIN CommandTrigger
  BY DEF CommandTrigger
<1>3. CASE StartMigration(w)
  BY <1>1, <1>2, <1>3 DEF StartMigration, Operates, Begins
<1>4. CASE FailMigration(w)
  BY <1>1, <1>2, <1>4 DEF FailMigration, Operates, EndsMigration, Restores
<1>5. CASE CompleteMigration(w)
  <2>1. PICK k \in {"MigrationComplete", "MigrationCompleteBlocked"} : Forward(w, "coordinator", Command(k))
    BY <1>5 DEF CompleteMigration
  <2>2. TakeOperation /\ Untrack(w) /\ Received(w)
    BY <1>5 DEF CompleteMigration, Untrack, Received
  <2>3. Command(k) \in Commands /\ EndsMigration(Command(k))
    BY <1>1, <1>2, <2>1 DEF EndsMigration
  <2> QED BY <2>1, <2>2, <2>3 DEF Operates
<1> QED BY <1>3, <1>4, <1>5

\* A command sent by an operation keeps the runtime's invariant.
LEMMA OperatesRuntime ==
  ASSUME RuntimeInv, NEW w \in Workspaces, NEW c, Operates(w, c)
  PROVE  RuntimeInv'
<1>0. TypeOK /\ pc = "select" /\ send = NoSend /\ c \in Commands /\ Forward(w, "coordinator", c)
  BY DEF RuntimeInv, Operates, TakeOperation, TypeOK
<1>1. /\ pc' \in {"select", "sending"}
      /\ IF pc' = "sending" THEN send' \in SendRecords ELSE send' = NoSend
  BY <1>0, ForwardType
<1>2. TypeOK'
  <2>1. UNCHANGED <<actorVars, treeVars, taskVars, gateVars, escVars, toAbort>> /\ requests' = requests + 1
    BY DEF Operates, TakeOperation
  <2>2. ActorTypeOK'
    BY <1>0, <2>1 DEF TypeOK, ActorTypeOK, actorVars
  <2> QED BY <1>0, <1>1, <2>1, <2>2 DEF TypeOK, treeVars, taskVars, gateVars, escVars
<1>3. UNCHANGED <<phase, status, outbox, events, tree, handles, lastCp>>
  BY DEF Operates, TakeOperation, actorVars, treeVars
<1>4. ReportsSettle'
  BY <1>3 DEF RuntimeInv, ReportsSettle, OutboxCurrent, TerminalRepeats, TreeSettled, Reports
<1>5. ActorLifecycle' /\ BookkeepingBounded'
  BY <1>3 DEF RuntimeInv, ActorLifecycle, PhaseShape, TerminatedLast, BookkeepingBounded
<1>6. MirrorConsistent'
  BY <1>3 DEF RuntimeInv, MirrorConsistent, LastReport, NoReport, Reports
<1> QED BY <1>2, <1>4, <1>5, <1>6 DEF RuntimeInv

\* An operation keeps the invariant.
LEMMA OperationKeeps ==
  ASSUME MigrationInv, NEW w \in Workspaces, StartMigration(w) \/ CompleteMigration(w) \/ FailMigration(w)
  PROVE  MigrationInv'
<1>1. PICK c \in Commands :
        /\ Operates(w, c)
        /\ \/ Begins(c) /\ Track(w)
           \/ EndsMigration(c) /\ Untrack(w) /\ (Restores(c) => Received(w))
  BY Operations
<1>2. RuntimeInv'
  BY <1>1, OperatesRuntime DEF MigrationInv
<1>t. migration \in [Workspaces -> Contexts \cup {NoMigration}] /\ TypeOK /\ ActorLifecycle /\ BookkeepingBounded
  BY DEF MigrationInv, MigrationTypeOK, RuntimeInv
<1>3. /\ MigrationTypeOK'
      /\ \A v \in Workspaces \ {w} : migration'[v] = migration[v]
      /\ ~Received(w)' /\ (Tracked(w)' <=> ~Tracked(w)) /\ (Track(w) => ~Tracked(w)) /\ (Untrack(w) => Tracked(w))
  <2>1. CASE Track(w)
    <3> DEFINE ctx == [pre |-> tree[w], snapshot |-> FALSE]
    <3>0. ctx \in Contexts /\ ctx.snapshot = FALSE
      BY <2>1, Zenon DEF Contexts, Track
    <3>1. ctx \in Contexts /\ ctx # NoMigration /\ ctx.snapshot = FALSE
      <4> HIDE DEF ctx
      <4> QED BY <3>0, NoMigrationAssumption
    <3>2. migration' = [migration EXCEPT ![w] = ctx] /\ ~Tracked(w)
      BY <2>1 DEF Track
    <3> HIDE DEF ctx
    <3>3. migration'[w] = ctx
      BY <1>t, <3>2
    <3> QED BY <1>t, <3>1, <3>2, <3>3 DEF MigrationTypeOK, Received, Tracked, Untrack
  <2>2. CASE Untrack(w)
    BY <1>t, <2>2 DEF Untrack, MigrationTypeOK, Received, Tracked, Track
  <2> QED BY <1>1, <2>1, <2>2
<1>4. UNCHANGED <<phase, status, outbox, events, coordQ>> /\ pc = "select"
  BY <1>1 DEF Operates, TakeOperation, actorVars
<1>5. ASSUME NEW v \in Workspaces PROVE Underway(v)' = IF v = w /\ w \in handles THEN Append(Underway(v), c) ELSE Underway(v)
  <2>1. \/ w \in handles /\ StartSend(w, "coordinator", c, FALSE, "select")
        \/ w \notin handles /\ UNCHANGED <<pc, send>>
    BY <1>1 DEF Operates, Forward
  <2>2. CASE w \in handles /\ StartSend(w, "coordinator", c, FALSE, "select")
    BY <1>t, <1>4, <2>2, StartedSend
  <2>3. CASE w \notin handles /\ UNCHANGED <<pc, send>>
    BY <1>4, <2>3 DEF Underway
  <2> QED BY <2>1, <2>2, <2>3
<1>6. ASSUME NEW v \in Workspaces PROVE Migrates(v)'
  <2>0. Migrates(v) /\ Underway(v) \in Seq(Commands) /\ PhaseShape(v)
    BY <1>t, UnderwayType DEF MigrationInv, ActorLifecycle
  <2>1. Snapped(v)' => Snapped(v)
    BY <1>3, <1>4 DEF Snapped, Received, Tracked
  <2>2. OneSnapshot(v)'
    BY <1>3, <1>4, <2>0 DEF Migrates, OneSnapshot, Received, Tracked
  <2>3. CASE ~(v = w /\ w \in handles)
    <3>1. Underway(v)' = Underway(v)
      BY <1>5, <2>3
    <3>2. phase[v] = "running" => v # w
      BY <1>t, <2>3 DEF BookkeepingBounded
    <3>3. v # w => (Tracked(v)' <=> Tracked(v))
      BY <1>3 DEF Tracked
    <3>4. phase'[v] = "running" => Balanced(Underway(v)', status'[v], Tracked(v)')
      BY <1>4, <2>0, <3>1, <3>2, <3>3 DEF Migrates, Balanced
    <3>5. Borders(v)' /\ OneRestore(v)'
      BY <1>4, <2>0, <2>1, <3>1 DEF Migrates, Borders, OneRestore
    <3> QED BY <2>2, <3>4, <3>5 DEF Migrates
  <2>4. CASE v = w /\ w \in handles
    <3> DEFINE u == Underway(v)
    <3>1. Underway(v)' = Append(u, c)
      BY <1>5, <2>4
    <3>2. /\ Len(Append(u, c)) = Len(u) + 1 /\ Len(u) \in Nat /\ Append(u, c)[Len(u) + 1] = c
          /\ \A i \in 1..Len(u) : Append(u, c)[i] = u[i]
      BY <2>0, AppendFacts
    <3>3. Borders(v)'
      BY <1>4, <2>0, <2>4 DEF Migrates, Borders, PhaseShape
    <3>4. phase'[v] = "running" => Balanced(Underway(v)', status'[v], Tracked(v)')
      <4> SUFFICES ASSUME phase[v] = "running" PROVE Balanced(Append(u, c), status[v], Tracked(v)')
        BY <1>4, <3>1
      <4>1. Balanced(u, status[v], Tracked(v)) /\ Tracked(v) \in BOOLEAN /\ Tracked(v)' \in BOOLEAN
        BY <2>0 DEF Migrates, Tracked
      <4>2. \/ Begins(c) /\ ~Tracked(v) /\ Tracked(v)'
            \/ EndsMigration(c) /\ ~Tracked(v)'
        BY <1>1, <1>3, <2>4
      <4> HIDE DEF u
      <4> QED BY <2>0, <4>1, <4>2, BalancedAppend DEF u
    <3>5. OneRestore(v)'
      <4>1. /\ \A i \in 1..Len(u) : Restores(u[i]) => status[v] \in {"Migrating", "Failed"} /\ ~Snapped(v)
            /\ \A i, j \in 1..Len(u) : Restores(u[i]) /\ Restores(u[j]) => i = j
            /\ Snapped(v) => status[v] \in {"Migrating", "Failed"}
        BY <2>0 DEF Migrates, OneRestore
      <4>2. Restores(c) => Snapped(v) /\ ~Snapped(v)'
        <5> SUFFICES ASSUME Restores(c) PROVE Snapped(v) /\ ~Snapped(v)'
          OBVIOUS
        <5>1. Received(v)
          BY <1>1, <2>4, KindsApart
        <5>2. ~SnapIn(outbox[v], v) /\ ~SnapIn(events, v)
          BY <2>0, <5>1 DEF Migrates, OneSnapshot
        <5> QED BY <1>3, <1>4, <2>4, <5>1, <5>2 DEF Snapped
      <4>3. \A i \in 1..Len(Append(u, c)) : i \in 1..Len(u) \/ i = Len(u) + 1
        BY <3>2
      <4> HIDE DEF u
      <4>4. \A i \in 1..Len(Append(u, c)) : Restores(Append(u, c)[i]) => status[v] \in {"Migrating", "Failed"} /\ ~Snapped(v)'
        BY <2>1, <3>2, <4>1, <4>2, <4>3
      <4>5. \A i, j \in 1..Len(Append(u, c)) : Restores(Append(u, c)[i]) /\ Restores(Append(u, c)[j]) => i = j
        BY <3>2, <4>1, <4>2, <4>3
      <4>6. Snapped(v)' => status[v] \in {"Migrating", "Failed"}
        BY <2>1, <4>1
      <4> QED BY <1>4, <3>1, <4>4, <4>5, <4>6 DEF OneRestore
    <3> QED BY <2>2, <3>3, <3>4, <3>5 DEF Migrates
  <2> QED BY <2>3, <2>4
<1> QED BY <1>2, <1>3, <1>6 DEF MigrationInv

\* The inductive invariant holds of every reachable state.
THEOREM MigrationInvariant == MigrationSpec => []MigrationInv
<1>1. MigrationInit => MigrationInv
  <2> SUFFICES ASSUME MigrationInit PROVE MigrationInv
    OBVIOUS
  <2>1. RuntimeInv
    BY InitType, SettleInit, LifecycleInit, MirrorInit DEF MigrationInit, RuntimeInv
  <2>2. /\ MigrationTypeOK
        /\ \A w \in Workspaces : /\ phase[w] = "unborn" /\ ~Tracked(w) /\ Underway(w) = <<>>
                                 /\ outbox[w] = <<>> /\ events = <<>>
    BY DEF MigrationInit, Init, ActorInit, MigrationTypeOK, Tracked, Underway
  <2>3. Len(<<>>) = 0
    OBVIOUS
  <2> QED BY <2>1, <2>2, <2>3 DEF MigrationInv, Migrates, Borders, OneSnapshot, OneSnap, SnapIn, OneRestore, Snapped, Received
<1>2. MigrationInv /\ [MigrationNext]_migrationVars => MigrationInv'
  <2> SUFFICES ASSUME MigrationInv, [MigrationNext]_migrationVars PROVE MigrationInv'
    OBVIOUS
  <2>1. ASSUME NEW w \in Workspaces, StartMigration(w) \/ CompleteMigration(w) \/ FailMigration(w) PROVE MigrationInv'
    BY <2>1, OperationKeeps
  <2>2. CASE RuntimeNext
    <3>1. /\ [Next]_vars
          /\ \/ HandleEvent /\ SetSnapshot(Head(events))
             \/ ~HandleEvent /\ UNCHANGED migration
      BY <2>2 DEF RuntimeNext, Next, LoopNext
    <3>2. RuntimeInv'
      BY <3>1, NextType, SettleStep, LifecycleStep, MirrorStep DEF MigrationInv, RuntimeInv
    <3>3. \A v \in Workspaces : Migrates(v)' /\ MigrationTypeOK'
      BY <3>1, RuntimeKeeps, ContextSteps
    <3>4. Workspaces = {} => MigrationTypeOK'
      BY <3>1 DEF MigrationInv, MigrationTypeOK, SetSnapshot
    <3> QED BY <3>2, <3>3, <3>4 DEF MigrationInv
  <2>3. CASE UNCHANGED migrationVars
    <3>1. [Next]_vars /\ ~HandleEvent /\ UNCHANGED migration
      <4>1. UNCHANGED vars /\ UNCHANGED migration
        BY <2>3 DEF migrationVars
      <4>2. HandleEvent => FALSE
        <5> SUFFICES ASSUME HandleEvent PROVE FALSE
          OBVIOUS
        <5>1. Len(events) \in Nat \ {0} /\ Len(events') = Len(events) - 1
          BY HandleEventFacts DEF MigrationInv, RuntimeInv
        <5>2. events' = events
          BY <4>1 DEF vars, actorVars
        <5> QED BY <5>1, <5>2
      <4> QED BY <4>1, <4>2
    <3>2. RuntimeInv'
      BY <3>1, NextType, SettleStep, LifecycleStep, MirrorStep DEF MigrationInv, RuntimeInv
    <3>3. \A v \in Workspaces : Migrates(v)'
      BY <3>1, RuntimeKeeps
    <3> QED BY <3>1, <3>2, <3>3 DEF MigrationInv, MigrationTypeOK
  <2> QED BY <2>1, <2>2, <2>3 DEF MigrationNext
<1> QED BY <1>1, <1>2, PTL DEF MigrationSpec

\* No workspace is left frozen: one that is Migrating has a context, which the
\* timeout will end, or the command that unfreezes it is underway.
THEOREM NoneLeftFrozen == MigrationSpec => []FrozenIsTracked
<1>1. MigrationInv => FrozenIsTracked
  <2> SUFFICES ASSUME MigrationInv, NEW w \in Workspaces, status[w] = "Migrating", ~Tracked(w)
               PROVE  \E i \in DOMAIN Underway(w) : EndsMigration(Underway(w)[i])
    BY DEF FrozenIsTracked
  <2>1. TypeOK /\ Migrates(w) /\ PhaseShape(w)
    BY DEF MigrationInv, RuntimeInv, ActorLifecycle
  <2>2. phase[w] = "running"
    BY <2>1 DEF Migrates, Borders, PhaseShape, TerminalStates, TypeOK, ActorTypeOK, Phases
  <2>3. \E i \in 1..Len(Underway(w)) : EndsMigration(Underway(w)[i])
    BY <2>1, <2>2 DEF Migrates, Balanced
  <2>4. Underway(w) \in Seq(Commands)
    BY <2>1, UnderwayType
  <2> QED BY <2>3, <2>4
<1> QED BY <1>1, MigrationInvariant, PTL

\* A snapshot kept in a context stays true: until the context is gone the
\* workspace is Migrating or has failed.
THEOREM SnapshotsStayTrue == MigrationSpec => []SnapshotIsFrozen
<1>1. MigrationInv => SnapshotIsFrozen
  BY DEF MigrationInv, Migrates, OneRestore, Snapped, Received, SnapshotIsFrozen
<1> QED BY <1>1, MigrationInvariant, PTL
=============================================================================
