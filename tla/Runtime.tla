------------------------------- MODULE Runtime -------------------------------
(***************************************************************************)
(* The runtime loop (crate wacp-runtime) and the coordinator it drives     *)
(* (crate wacp-coordinator), composed with the workspace actors.           *)
(*                                                                         *)
(* One task runs the loop.  Its biased select takes an actor event when    *)
(* there is one, and a client request only when there is none.  Handling   *)
(* either may await a send into an actor's bounded channel; until that     *)
(* send completes the loop takes nothing else.  pc says where the loop is  *)
(* and send what it is sending.                                            *)
(*                                                                         *)
(* Clients are the environment: any request may be the next one.  Reads    *)
(* and subscriptions change none of this state and are left out; ids are   *)
(* never reused, so a new workspace or task is any id not used yet.  All   *)
(* workspaces the runtime creates are children of the root, so the tree is *)
(* the status of each node.                                                *)
(***************************************************************************)
EXTENDS WorkspaceActor, TaskFsm

CONSTANTS Tasks,        \* the task ids that may be created
          NoWs, NoTask, \* no workspace, no task
          Ops,          \* the request kinds the clients use
          MaxRequests   \* bound: requests the loop takes in one behaviour

ASSUME NoneAssumption == NoWs \notin Workspaces /\ NoTask \notin Tasks

VARIABLES tree,         \* Coordinator.tree: status of each node
          handles,      \* Coordinator.workspace_handles
          lastCp,       \* workspaces with an entry in last_checkpoint
          taskOf,       \* task_id of each tree node
          task,         \* TaskGraph.tasks: status of each task
          wsRef,        \* Task.workspace_ref
          cpIndex,      \* checkpoint_index: the workspace of each cp-<n>
          gates,        \* pending checkpoint gates
          nextGate,     \* GateController.next_id
          escalations,  \* escalation_index
          nextEsc,      \* the next escalation id
          pc,           \* where the loop is
          send,         \* the send the loop awaits
          toAbort,      \* workspaces shutdown() has still to abort
          requests      \* requests taken so far

treeVars == <<tree, handles, lastCp, taskOf>>
taskVars == <<task, wsRef>>
gateVars == <<cpIndex, gates, nextGate>>
escVars  == <<escalations, nextEsc>>
loopVars == <<pc, send, toAbort, requests>>

vars == <<actorVars, treeVars, taskVars, gateVars, escVars, loopVars>>

Absent == "absent"
Gates == [id : Nat, ws : Workspaces]
NoSend == [ws |-> NoWs]

\* The request kinds, one action each below.
AllOps ==
  {"SubmitGoal", "Decompose", "Dispatch", "CancelTask", "AbortWorkspace",
   "SuspendWorkspace", "ResumeWorkspace", "TriggerIntegration",
   "SendDirective", "SendFeedback", "InjectEnvelope", "SendEnvelope",
   "Started", "Blocked", "Complete", "Failed", "Escalation",
   "Provisional", "Final", "Unspecified",
   "Approve", "Reject", "EscFeedback", "EscAbort", "EscDelegate", "Shutdown"}

ASSUME OpsAssumption == Ops \subseteq AllOps /\ MaxRequests \in Nat

-----------------------------------------------------------------------------
(* Awaited sends.                                                          *)

\* The loop starts to send msg on one of w's channels and returns to back;
\* gate tells whether a checkpoint gate is opened once the send is over.
StartSend(w, chan, msg, gate, back) ==
  /\ pc' = "sending"
  /\ send' = [ws |-> w, chan |-> chan, msg |-> msg, gate |-> gate, back |-> back]

\* A handler that forwards msg to w if the coordinator has a handle for it.
Forward(w, chan, msg) ==
  IF w \in handles
  THEN StartSend(w, chan, msg, FALSE, "select")
  ELSE UNCHANGED <<pc, send>>

\* open_checkpoint_gate
OpenCheckpointGate(w) ==
  /\ gates' = gates \cup {[id |-> nextGate, ws |-> w]}
  /\ nextGate' = nextGate + 1

\* The awaited send completes: with an error when the actor is gone, with
\* the message queued when there is room.
CompleteSend ==
  /\ pc = "sending"
  /\ LET w == send.ws
     IN  \/ /\ Closed(w)
            /\ UNCHANGED <<coordQ, agentQ>>
         \/ /\ ~Closed(w)
            /\ send.chan = "coordinator"
            /\ Room(coordQ[w], CoordCap)
            /\ coordQ' = [coordQ EXCEPT ![w] = Append(@, send.msg)]
            /\ UNCHANGED agentQ
         \/ /\ ~Closed(w)
            /\ send.chan = "agent"
            /\ Room(agentQ[w], AgentCap)
            /\ agentQ' = [agentQ EXCEPT ![w] = Append(@, send.msg)]
            /\ UNCHANGED coordQ
  /\ pc' = send.back
  /\ send' = NoSend
  /\ IF send.gate THEN OpenCheckpointGate(send.ws) ELSE UNCHANGED <<gates, nextGate>>
  /\ UNCHANGED <<phase, status, firstEnvelope, inbox, checkpoints, outbox, events,
                 treeVars, taskVars, cpIndex, escVars, toAbort, requests>>

-----------------------------------------------------------------------------
(* Actor events.                                                           *)

\* Mutant: no answer when no checkpoint was cached.
Mutant_IntegrateOnlyCheckpointed(w) ==
  IF w \in handles \cap lastCp
  THEN StartSend(w, "coordinator", Command("IntegrationSucceeded"), FALSE, pc)
  ELSE UNCHANGED <<pc, send>>

\* auto_integrate: the engine always succeeds, and without a checkpoint the
\* answer is the same; an unknown workspace gets none.
AutoIntegrate(w) ==
  IF w \in handles
  THEN StartSend(w, "coordinator", Command("IntegrationSucceeded"), FALSE, pc)
  ELSE UNCHANGED <<pc, send>>

\* handle_event, StateChanged.  A failed node has no children to cascade to.
OnStateChanged(e) ==
  /\ e.kind = "StateChanged"
  /\ tree' = [tree EXCEPT ![e.ws] = e.val]
  /\ IF e.val = "Integrating" THEN AutoIntegrate(e.ws) ELSE UNCHANGED <<pc, send>>
  /\ UNCHANGED <<handles, lastCp, escVars>>

OnCheckpointCreated(e) ==
  /\ e.kind = "CheckpointCreated"
  /\ lastCp' = lastCp \cup {e.ws}
  /\ UNCHANGED <<tree, handles, escVars, pc, send>>

\* Mutant: the checkpoint cache keeps ended workspaces.
Mutant_KeepCheckpoint(e) ==
  /\ e.kind = "Terminated"
  /\ tree' = [tree EXCEPT ![e.ws] = e.val]
  /\ handles' = handles \ {e.ws}
  /\ UNCHANGED <<lastCp, escVars, pc, send>>

\* Mutant: the handle of an ended workspace is kept.
Mutant_KeepHandle(e) ==
  /\ e.kind = "Terminated"
  /\ tree' = [tree EXCEPT ![e.ws] = e.val]
  /\ lastCp' = lastCp \ {e.ws}
  /\ UNCHANGED <<handles, escVars, pc, send>>

OnTerminated(e) ==
  /\ e.kind = "Terminated"
  /\ tree' = [tree EXCEPT ![e.ws] = e.val]
  /\ handles' = handles \ {e.ws}
  /\ lastCp' = lastCp \ {e.ws}
  /\ UNCHANGED <<escVars, pc, send>>

\* fan_out_event indexes an Escalation signal so that it can be answered;
\* the drain of shutdown() does not fan out.
OnSignal(e) ==
  /\ e.kind = "Signal"
  /\ IF e.val = "Escalation" /\ pc = "select"
     THEN /\ escalations' = escalations \cup {[id |-> nextEsc, ws |-> e.ws]}
          /\ nextEsc' = nextEsc + 1
     ELSE UNCHANGED escVars
  /\ UNCHANGED <<tree, handles, lastCp, pc, send>>

\* Events that are only recorded on the trail.
OnOther(e) ==
  /\ e.kind \in {"Error", "MigrationSnapshot"}
  /\ UNCHANGED <<tree, handles, lastCp, escVars, pc, send>>

\* One turn of the loop of run(), or of the drain of shutdown(), on an event.
HandleEvent ==
  /\ pc \in {"select", "draining"}
  /\ events # <<>>
  /\ events' = Tail(events)
  /\ LET e == Head(events)
     IN  \/ OnStateChanged(e)
         \/ OnCheckpointCreated(e)
         \/ OnTerminated(e)
         \/ OnSignal(e)
         \/ OnOther(e)
  /\ UNCHANGED <<phase, status, firstEnvelope, inbox, checkpoints, coordQ, agentQ,
                 outbox, taskOf, taskVars, gateVars, toAbort, requests>>

-----------------------------------------------------------------------------
(* Requests.                                                               *)

\* The select takes a request only when no event waits.
Take(op) ==
  /\ op \in Ops
  /\ pc = "select"
  /\ events = <<>>
  /\ requests < MaxRequests
  /\ requests' = requests + 1
  /\ UNCHANGED toAbort

\* Coordinator::dispatch: tree node, actor, handle.
DispatchWorkspace(t, w) ==
  /\ Spawn(w)
  /\ tree' = [tree EXCEPT ![w] = "Idle"]
  /\ handles' = handles \cup {w}
  /\ taskOf' = [taskOf EXCEPT ![w] = t]
  /\ UNCHANGED lastCp

\* bind() then transition(Assign); the callers ignore the errors of both.
BindAndAssign(t, w) ==
  /\ wsRef' = [wsRef EXCEPT ![t] = IF @ = NoWs THEN w ELSE @]
  /\ task' = [task EXCEPT ![t] = TaskNext(@, "Assign")]

SubmitGoal(t, w) ==
  /\ Take("SubmitGoal")
  /\ task[t] = Absent
  /\ DispatchWorkspace(t, w)
  /\ wsRef' = [wsRef EXCEPT ![t] = w]
  /\ task' = [task EXCEPT ![t] = TaskNext(TaskNext("Draft", "Approve"), "Assign")]
  /\ UNCHANGED <<gateVars, escVars, pc, send>>

Decompose(t) ==
  /\ Take("Decompose")
  /\ task[t] = Absent
  /\ task' = [task EXCEPT ![t] = TaskNext("Draft", "Approve")]
  /\ UNCHANGED <<actorVars, treeVars, wsRef, gateVars, escVars, pc, send>>

\* Dispatch: only the task's existence is checked.
Dispatch(t, w) ==
  /\ Take("Dispatch")
  /\ task[t] # Absent
  /\ DispatchWorkspace(t, w)
  /\ BindAndAssign(t, w)
  /\ UNCHANGED <<gateVars, escVars, pc, send>>

\* Mutant: cancelling leaves the workspace alone.
Mutant_CancelOnly(t) ==
  /\ Take("CancelTask")
  /\ task[t] # Absent
  /\ task' = [task EXCEPT ![t] = TaskNext(@, "Cancel")]
  /\ UNCHANGED <<actorVars, treeVars, wsRef, gateVars, escVars, pc, send>>

\* CancelTask: a refused transition is reported, a legal one aborts the
\* workspace the task is bound to.
CancelTask(t) ==
  /\ Take("CancelTask")
  /\ task[t] # Absent
  /\ task' = [task EXCEPT ![t] = TaskNext(@, "Cancel")]
  /\ IF TaskLegal(task[t], "Cancel") /\ wsRef[t] # NoWs
     THEN Forward(wsRef[t], "coordinator", Command("Abort"))
     ELSE UNCHANGED <<pc, send>>
  /\ UNCHANGED <<actorVars, treeVars, wsRef, gateVars, escVars>>

\* A request that only forwards one command; without a handle it is refused.
CommandRequest(op, w, kind) ==
  /\ Take(op)
  /\ w \in handles
  /\ Forward(w, "coordinator", Command(kind))
  /\ UNCHANGED <<actorVars, treeVars, taskVars, gateVars, escVars>>

AbortWorkspace(w)     == CommandRequest("AbortWorkspace", w, "Abort")
SuspendWorkspace(w)   == CommandRequest("SuspendWorkspace", w, "Suspend")
ResumeWorkspace(w)    == CommandRequest("ResumeWorkspace", w, "Resume")
TriggerIntegration(w) == CommandRequest("TriggerIntegration", w, "IntegrationSucceeded")
SendDirective(w)      == CommandRequest("SendDirective", w, "DeliverEnvelope")
SendFeedback(w)       == CommandRequest("SendFeedback", w, "DeliverEnvelope")
InjectEnvelope(w)     == CommandRequest("InjectEnvelope", w, "DeliverEnvelope")
SendEnvelope(w)       == CommandRequest("SendEnvelope", w, "DeliverEnvelope")

\* AgentRequest::EmitSignal
AgentSignal(w, sig) ==
  /\ Take(sig)
  /\ w \in handles
  /\ Forward(w, "agent", [kind |-> "EmitSignal", val |-> sig])
  /\ UNCHANGED <<actorVars, treeVars, taskVars, gateVars, escVars>>

\* proto_to_checkpoint_status: the default of the wire enum means Provisional.
FromWireStatus(st) == IF st = "Unspecified" THEN "Provisional" ELSE st

\* AgentRequest::CreateCheckpoint: index it, forward it, then open a gate if
\* the wire status says Provisional and the workspace is in the tree.
AgentCheckpoint(w, wire) ==
  /\ Take(wire)
  /\ cpIndex' = Append(cpIndex, w)
  /\ LET msg   == [kind |-> "CreateCheckpoint", val |-> FromWireStatus(wire)]
         gated == wire = "Provisional" /\ tree[w] # Absent
     IN  \/ /\ w \in handles
            /\ StartSend(w, "agent", msg, gated, "select")
            /\ UNCHANGED <<gates, nextGate>>
         \/ /\ w \notin handles
            /\ gated
            /\ OpenCheckpointGate(w)
            /\ UNCHANGED <<pc, send>>
         \/ /\ w \notin handles
            /\ ~gated
            /\ UNCHANGED <<gates, nextGate, pc, send>>
  /\ UNCHANGED <<actorVars, treeVars, taskVars, escVars>>

\* Mutant: the answered gate stays pending.
Mutant_KeepGate(g, op) ==
  /\ Take(op)
  /\ Forward(g.ws, "coordinator",
             [kind |-> IF op = "Approve" THEN "CheckpointApproved"
                                         ELSE "CheckpointRejected",
              gate |-> g.id])
  /\ UNCHANGED <<actorVars, treeVars, taskVars, gateVars, escVars>>

\* HighwayRequest::RespondToGate on a checkpoint gate: resolve_checkpoint
\* detaches the gate, then the decision goes to the actor.  A gate that is
\* not pending any more is left alone.
RespondToGate(g, op) ==
  /\ Take(op)
  /\ gates' = gates \ {g}
  /\ Forward(g.ws, "coordinator",
             [kind |-> IF op = "Approve" THEN "CheckpointApproved"
                                         ELSE "CheckpointRejected",
              gate |-> g.id])
  /\ UNCHANGED <<actorVars, treeVars, taskVars, cpIndex, nextGate, escVars>>

\* HighwayRequest::RespondToEscalation
RespondToEscalation(x, op) ==
  /\ Take(op)
  /\ escalations' = escalations \ {x}
  /\ CASE op = "EscFeedback" -> Forward(x.ws, "coordinator", Command("DeliverEnvelope"))
       [] op = "EscAbort"    -> Forward(x.ws, "coordinator", Command("Abort"))
       [] op = "EscDelegate" -> UNCHANGED <<pc, send>>
  /\ UNCHANGED <<actorVars, treeVars, taskVars, gateVars, nextEsc>>

-----------------------------------------------------------------------------
(* Shutdown.                                                               *)

\* Mutant: shutdown overlooks workspaces that are not Active.
Mutant_AbortOnlyActive ==
  /\ "Shutdown" \in Ops
  /\ pc = "select"
  /\ events = <<>>
  /\ pc' = "aborting"
  /\ toAbort' = {w \in Workspaces : tree[w] = "Active"}
  /\ UNCHANGED <<actorVars, treeVars, taskVars, gateVars, escVars, send, requests>>

\* ctrl_c ends the loop; shutdown() collects the active workspaces.
Shutdown ==
  /\ "Shutdown" \in Ops
  /\ pc = "select"
  /\ events = <<>>
  /\ pc' = "aborting"
  /\ toAbort' = {w \in Workspaces : tree[w] \notin TerminalStates \cup {Absent}}
  /\ UNCHANGED <<actorVars, treeVars, taskVars, gateVars, escVars, send, requests>>

\* Mutant: the abort loop does not advance.
Mutant_AbortForever(w) ==
  /\ pc = "aborting"
  /\ w \in toAbort
  /\ UNCHANGED toAbort
  /\ IF w \in handles
     THEN StartSend(w, "coordinator", Command("Abort"), FALSE, "aborting")
     ELSE UNCHANGED <<pc, send>>
  /\ UNCHANGED <<actorVars, treeVars, taskVars, gateVars, escVars, requests>>

\* abort_workspace for each of them in turn, in any order.
AbortNext(w) ==
  /\ pc = "aborting"
  /\ w \in toAbort
  /\ toAbort' = toAbort \ {w}
  /\ IF w \in handles
     THEN StartSend(w, "coordinator", Command("Abort"), FALSE, "aborting")
     ELSE UNCHANGED <<pc, send>>
  /\ UNCHANGED <<actorVars, treeVars, taskVars, gateVars, escVars, requests>>

BeginDrain ==
  /\ pc = "aborting"
  /\ toAbort = {}
  /\ pc' = "draining"
  /\ UNCHANGED <<actorVars, treeVars, taskVars, gateVars, escVars, send, toAbort,
                 requests>>

\* An actor with nothing to handle and nothing to send.
Quiet(w) ==
  \/ phase[w] \in {"unborn", "exited"}
  \/ /\ Selecting(w)
     /\ coordQ[w] = <<>>
     /\ agentQ[w] = <<>>

\* The drain ends when no event came for 500 ms.  Assumed: that is long
\* enough for every actor that has something to do to do it.
DrainTimeout ==
  /\ pc = "draining"
  /\ events = <<>>
  /\ \A w \in Workspaces : Quiet(w)
  /\ pc' = "stopped"
  /\ UNCHANGED <<actorVars, treeVars, taskVars, gateVars, escVars, send, toAbort,
                 requests>>

-----------------------------------------------------------------------------

Init ==
  /\ ActorInit
  /\ tree = [w \in Workspaces |-> Absent]
  /\ handles = {}
  /\ lastCp = {}
  /\ taskOf = [w \in Workspaces |-> NoTask]
  /\ task = [t \in Tasks |-> Absent]
  /\ wsRef = [t \in Tasks |-> NoWs]
  /\ cpIndex = <<>>
  /\ gates = {}
  /\ nextGate = 1
  /\ escalations = {}
  /\ nextEsc = 1
  /\ pc = "select"
  /\ send = NoSend
  /\ toAbort = {}
  /\ requests = 0

ActorNext(w) ==
  /\ ActorStep(w)
  /\ UNCHANGED <<treeVars, taskVars, gateVars, escVars, loopVars>>

LoopNext ==
  \/ HandleEvent
  \/ CompleteSend
  \/ \E w \in Workspaces : AbortNext(w)
  \/ BeginDrain
  \/ DrainTimeout

RequestNext ==
  \/ \E t \in Tasks, w \in Workspaces : SubmitGoal(t, w) \/ Dispatch(t, w)
  \/ \E t \in Tasks : Decompose(t) \/ CancelTask(t)
  \/ \E w \in Workspaces :
       \/ AbortWorkspace(w) \/ SuspendWorkspace(w) \/ ResumeWorkspace(w)
       \/ TriggerIntegration(w)
       \/ SendDirective(w) \/ SendFeedback(w) \/ InjectEnvelope(w) \/ SendEnvelope(w)
       \/ \E sig \in SignalTypes : AgentSignal(w, sig)
       \/ \E wire \in CheckpointStatuses \cup {"Unspecified"} : AgentCheckpoint(w, wire)
  \/ \E g \in gates, op \in {"Approve", "Reject"} : RespondToGate(g, op)
  \/ \E x \in escalations, op \in {"EscFeedback", "EscAbort", "EscDelegate"} :
       RespondToEscalation(x, op)
  \/ Shutdown

Next ==
  \/ \E w \in Workspaces : ActorNext(w)
  \/ LoopNext
  \/ RequestNext

Spec == Init /\ [][Next]_vars

\* The tokio scheduler runs every task that can make progress, so each
\* actor and the loop are weakly fair; the clients are not.
FairSpec ==
  /\ Spec
  /\ \A w \in Workspaces : WF_vars(ActorNext(w))
  /\ WF_vars(LoopNext)

-----------------------------------------------------------------------------
(* Properties.                                                             *)

SendRecords ==
  [ws : Workspaces, chan : {"coordinator"}, msg : Commands, gate : BOOLEAN,
   back : {"select", "aborting", "draining"}]
    \cup
  [ws : Workspaces, chan : {"agent"}, msg : AgentMessages, gate : BOOLEAN,
   back : {"select"}]

\* Types, with every channel within its capacity: a sender waits for room, it
\* does not overrun.
TypeOK ==
  /\ ActorTypeOK
  /\ tree \in [Workspaces -> WorkspaceStates \cup {Absent}]
  /\ handles \subseteq Workspaces
  /\ lastCp \subseteq Workspaces
  /\ taskOf \in [Workspaces -> Tasks \cup {NoTask}]
  /\ task \in [Tasks -> TaskStates \cup {Absent}]
  /\ wsRef \in [Tasks -> Workspaces \cup {NoWs}]
  /\ cpIndex \in Seq(Workspaces)
  /\ gates \subseteq Gates
  /\ nextGate \in Nat
  /\ escalations \subseteq Gates
  /\ nextEsc \in Nat
  /\ pc \in {"select", "sending", "aborting", "draining", "stopped"}
  /\ IF pc = "sending" THEN send \in SendRecords ELSE send = NoSend
  /\ toAbort \subseteq Workspaces
  /\ requests \in Nat

\* An event that tells the coordinator the status of w.
Reports(e, w) == e.ws = w /\ e.kind \in {"StateChanged", "Terminated"}

LastReport(q, w, s) ==
  \E i \in 1..Len(q) :
    /\ Reports(q[i], w)
    /\ q[i].val = s
    /\ \A j \in (i + 1)..Len(q) : ~Reports(q[j], w)

NoReport(q, w) == \A i \in 1..Len(q) : ~Reports(q[i], w)

\* The coordinator's tree never diverges from an actor, it only lags: the
\* newest report of an actor still in flight (in its outbox, else in the
\* event channel) carries its status, and with none in flight the tree does.
MirrorConsistent ==
  \A w \in Workspaces : phase[w] # "unborn" =>
    \/ LastReport(outbox[w], w, status[w])
    \/ NoReport(outbox[w], w) /\ LastReport(events, w, status[w])
    \/ NoReport(outbox[w], w) /\ NoReport(events, w) /\ tree[w] = status[w]

\* A workspace the coordinator has recorded as Closed or Failed keeps that
\* record: no event still queued when the actor ended may undo it.
TreeTerminalSticky ==
  [][\A w \in Workspaces : tree[w] \in TerminalStates => tree'[w] = tree[w]]_vars

\* What makes the two properties above inductive.  An actor changes its status
\* only with an empty outbox, so what it has still to send is current.
OutboxCurrent(w) ==
  \A i \in 1..Len(outbox[w]) :
    /\ outbox[w][i].ws = w
    /\ Reports(outbox[w][i], w) => outbox[w][i].val = status[w]

\* Once a terminal report is on its way, or handled, every later one repeats it.
TerminalRepeats(w) ==
  \A i \in 1..Len(events) :
    Reports(events[i], w) /\ events[i].val \in TerminalStates =>
      \A j \in i..Len(events) : Reports(events[j], w) => events[j].val = status[w]

TreeSettled(w) ==
  tree[w] \in TerminalStates =>
    /\ tree[w] = status[w]
    /\ \A j \in 1..Len(events) : Reports(events[j], w) => events[j].val = status[w]

ReportsSettle ==
  \A w \in Workspaces : OutboxCurrent(w) /\ TerminalRepeats(w) /\ TreeSettled(w)

\* The checkpoint cache and the handles are dropped with the actor: the cache
\* holds no workspace whose handle is gone (no CheckpointCreated is handled
\* after Terminated), and an actor that still runs is never out of reach.
BookkeepingBounded ==
  /\ lastCp \subseteq handles
  /\ \A w \in Workspaces : phase[w] \in {"running", "exiting"} => w \in handles

\* What makes BookkeepingBounded inductive: Terminated is the last event of an
\* actor, sent on its way out, and the handle outlives every event before it.
PhaseShape(w) ==
  /\ phase[w] = "unborn" =>
       status[w] = "Idle" /\ tree[w] = Absent /\ w \notin handles
  /\ phase[w] \in {"unborn", "exited"} => outbox[w] = <<>>
  /\ phase[w] = "running" =>
       \A i \in 1..Len(outbox[w]) : outbox[w][i].kind # "Terminated"
  /\ phase[w] = "exiting" => Len(outbox[w]) = 1

TerminatedLast ==
  \A i \in 1..Len(events) :
    /\ events[i].ws \in handles
    /\ events[i].kind = "Terminated" =>
         /\ phase[events[i].ws] = "exited"
         /\ \A j \in (i + 1)..Len(events) : events[j].ws # events[i].ws

ActorLifecycle == (\A w \in Workspaces : PhaseShape(w)) /\ TerminatedLast

\* The gate ids answered by the commands in flight.
AnswersInFlight(w) ==
  {coordQ[w][i].gate : i \in DOMAIN coordQ[w]} \ {0}

\* First response wins: a gate that is pending has no decision in flight, no
\* gate has two, and ids are not reused.
FirstResponseWins ==
  /\ \A g \in gates : g.id < nextGate
  /\ \A g \in gates, w \in Workspaces : g.id \notin AnswersInFlight(w)
  /\ pc = "sending" /\ send.chan = "coordinator" /\ send.msg.gate # 0 =>
       /\ \A g \in gates : g.id # send.msg.gate
       /\ \A w \in Workspaces : send.msg.gate \notin AnswersInFlight(w)
  /\ \A w \in Workspaces : \A i, j \in DOMAIN coordQ[w] :
       i # j /\ coordQ[w][i].gate # 0 => coordQ[w][i].gate # coordQ[w][j].gate
  /\ \A w, v \in Workspaces :
       w # v => AnswersInFlight(w) \cap AnswersInFlight(v) = {}

AbortQueued(w) == \E i \in DOMAIN coordQ[w] : coordQ[w][i].kind = "Abort"

\* Abort precedence: an agent message accepted before the abort but not yet
\* handled cannot complete the workspace once the abort is queued.
AbortPrecedence ==
  [][\A w \in Workspaces :
       AbortQueued(w) /\ status[w] # "Integrating" => status'[w] # "Integrating"]_vars

\* shutdown() returns only when every workspace has ended, in its actor and
\* in the tree.
StoppedMeansEnded ==
  pc = "stopped" =>
    \A w \in Workspaces : /\ phase[w] \in {"unborn", "exited"}
                          /\ tree[w] \in TerminalStates \cup {Absent}

\* Automatic integration: a workspace whose agent completed is closed
\* without any further request.
IntegratingCloses ==
  \A w \in Workspaces : status[w] = "Integrating" ~> status[w] = "Closed"

\* An actor that ended is eventually forgotten by the coordinator, with its
\* final status recorded.
EndedForgotten ==
  \A w \in Workspaces :
    status[w] \in TerminalStates ~> w \notin handles /\ tree[w] = status[w]

\* Cancelling a bound task ends its workspace.
CancelledStops ==
  \A t \in Tasks, w \in Workspaces :
    task[t] = "Cancelled" /\ wsRef[t] = w ~> status[w] \in TerminalStates

\* A shutdown that has begun ends.
ShutdownEnds == pc = "aborting" ~> pc = "stopped"

-----------------------------------------------------------------------------
(* Statements of the documents that the code does not keep.                *)

InFlight(w) ==
  \/ coordQ[w] # <<>> \/ agentQ[w] # <<>> \/ outbox[w] # <<>>
  \/ pc = "sending" /\ send.ws = w

\* A workspace blocked on a checkpoint can be resumed: with nothing in
\* flight, a Blocked workspace has a pending gate (for clients that send no
\* Blocked signal).
BlockedHasGate ==
  \A w \in Workspaces :
    status[w] = "Blocked" /\ ~InFlight(w) => \E g \in gates : g.ws = w

\* A rejection that reaches a workspace that is not Blocked is an illegal
\* transition and leaves its state alone.
RejectOnlyBlocked ==
  [][\A w \in Workspaces :
       /\ coordQ[w] # <<>> /\ Head(coordQ[w]).kind = "CheckpointRejected"
       /\ status[w] # "Blocked"
       => status'[w] = status[w]]_vars

\* Dispatching a task that is not ready is an error: no task has two running
\* workspaces and no cancelled task gets one.
DispatchOnlyReady ==
  [][\A w \in Workspaces, t \in Tasks :
       phase[w] = "unborn" /\ phase'[w] = "running" /\ taskOf'[w] = t
         => task[t] \in {Absent, "Pending"}]_vars

\* The loop waits for room in a channel of an actor that waits for the loop
\* to make room in the event channel.
WaitCycle ==
  /\ pc = "sending"
  /\ LET w    == send.ws
         full == IF send.chan = "coordinator" THEN ~Room(coordQ[w], CoordCap)
                                              ELSE ~Room(agentQ[w], AgentCap)
     IN  ~Closed(w) /\ full /\ outbox[w] # <<>> /\ ~Room(events, EventCap)

\* handle_event is async "so the coordinator-tx send can complete before the
\* next event is processed": the answer of auto_integrate gets through.
IntegrationAnswerSent ==
  ~(WaitCycle /\ send.msg = Command("IntegrationSucceeded"))
=============================================================================
