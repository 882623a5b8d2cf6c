----------------------------- MODULE Scheduling -----------------------------
(***************************************************************************)
(* The task graph with its readiness counters, the scheduling operations   *)
(* (retry, cancellation, decomposition), the task-approval gates, and the  *)
(* dispatcher, which creates workspaces in the topology.                   *)
(*                                                                         *)
(* The caller is the coordinator: it owns all of this mutably, so each     *)
(* operation is one step, and it tells the graph that a task is done in    *)
(* the same breath in which it integrates it (Integrate).  Workspace k of  *)
(* the dispatcher ("ws-k") is the node k.                                  *)
(***************************************************************************)
EXTENDS Topology, TaskFsm, SequencesExt

CONSTANTS
  NoTask,
  MaxConcurrent,   \* DispatchConfig::max_concurrent_workspaces
  MaxAttempts,     \* RetryPolicy::max_attempts
  MaxGates,        \* bound on opened task gates
  MaxDispatched,   \* bound on workspaces the dispatcher creates
  MaxEdges         \* bound on forward edges of a task, refused adds included

\* Task, with the bindings the graph keeps for it.
TaskRecord ==
  [status : TaskStates, deps : Seq(TaskIds), parent : TaskIds \cup {NoTask},
   ws : Nodes \cup {NoNode}, history : Seq(Nodes)]

ASSUME SchedulingAssumption ==
  /\ NoTask \notin TaskIds \cup TaskRecord
  /\ MaxConcurrent \in Nat /\ MaxAttempts \in Nat /\ MaxGates \in Nat
  /\ MaxEdges \in Nat /\ MaxDispatched \in Nat
  /\ 1..MaxDispatched \subseteq Nodes \ {Root}

VARIABLES
  graph,   \* TaskGraph: tasks, remaining_deps, forward, workspace_task
  gates,   \* GateController: per gate id the task, the fallback, the outcome
  nextWs   \* Dispatcher::next_ws_id

schedulingVars == <<topologyVars, graph, gates, nextWs>>

Finished == {"Integrated", "Cancelled"}

Known(g, t) == g.task[t] # NoTask
NewTask(status, deps, parent) ==
  [status |-> status, deps |-> deps, parent |-> parent,
   ws |-> NoNode, history |-> << >>]

(* ------------------------------ the graph ------------------------------- *)
\* Mutant: a cancelled dependency is counted as outstanding.
Mutant_CountCancelled(g, t, new) ==
  LET unknown == {i \in DOMAIN new.deps : ~Known(g, new.deps[i])}
      linked  == {new.deps[i] : i \in {j \in DOMAIN new.deps :
                                          \A u \in unknown : j < u}}
      edges   == [g EXCEPT !.forward = [d \in TaskIds |->
                    IF d \in linked THEN Append(@[d], t) ELSE @[d]]]
  IN  IF unknown # {} THEN edges
      ELSE [edges EXCEPT !.task[t] = new,
              !.remaining[t] = Cardinality({d \in linked :
                                   g.task[d].status # "Integrated"})]

\* TaskGraph::add_task on a new id.  Edges are pushed while the dependencies
\* are validated: those before the first unknown one stay when it is refused.
AddTask(g, t, new) ==
  LET unknown == {i \in DOMAIN new.deps : ~Known(g, new.deps[i])}
      linked  == {new.deps[i] : i \in {j \in DOMAIN new.deps :
                                          \A u \in unknown : j < u}}
      edges   == [g EXCEPT !.forward = [d \in TaskIds |->
                    IF d \in linked THEN Append(@[d], t) ELSE @[d]]]
  IN  IF unknown # {} THEN edges
      ELSE [edges EXCEPT !.task[t] = new,
              !.remaining[t] = Cardinality({d \in linked :
                                   g.task[d].status \notin Finished})]

Transition(g, t, trigger) ==
  [g EXCEPT !.task[t].status = TaskNext(@, trigger)]

\* TaskGraph::mark_completed: one decrement per forward edge, never below 0.
MarkCompleted(g, t) ==
  LET edges(u) == Cardinality({i \in DOMAIN g.forward[t] : g.forward[t][i] = u})
  IN  [g EXCEPT !.remaining = [u \in TaskIds |->
         IF edges(u) >= @[u] THEN 0 ELSE @[u] - edges(u)]]

\* TaskGraph::bind succeeds on an unbound task and an unbound workspace.
CanBind(g, t, w) == g.task[t].ws = NoNode /\ g.boundTask[w] = NoTask
Bind(g, t, w) ==
  [g EXCEPT !.task[t].ws = w, !.task[t].history = Append(@, w), !.boundTask[w] = t]

\* Mutant: the reverse map keeps the workspace.
Mutant_KeepReverse(g, t) == [g EXCEPT !.task[t].ws = NoNode]

Unbind(g, t) ==
  LET w == g.task[t].ws
  IN  IF w = NoNode THEN g
      ELSE [g EXCEPT !.task[t].ws = NoNode, !.boundTask[w] = NoTask]

Dispatchable(g) ==
  {t \in TaskIds : Known(g, t) /\ g.task[t].status = "Pending" /\ g.remaining[t] = 0}

\* TaskGraph::is_complete
IsComplete(g) == \A t \in TaskIds : Known(g, t) => g.task[t].status \in Finished

(* --------------------------- scheduling operations ---------------------- *)
\* Mutant: only the task itself is cancelled.
Mutant_NoCascade(g, t) == {t}

\* SchedulingOps::cancel_task recurses into the draft and pending dependents:
\* what it cancels is the least set that holds the task and, of each task it
\* holds, the dependents that wait.
CancelSet(g, t) ==
  LET waiting == {u \in TaskIds : Known(g, u) /\ g.task[u].status \in {"Draft", "Pending"}}
      closed(S) == \A d \in S : Range(g.forward[d]) \cap waiting \subseteq S
  IN  {u \in TaskIds : \A S \in SUBSET TaskIds : t \in S /\ closed(S) => u \in S}

Cancel(g, t) ==
  LET all == CancelSet(g, t)
  IN  [g EXCEPT !.task = [u \in TaskIds |->
         IF u \in all THEN [@[u] EXCEPT !.status = "Cancelled"] ELSE @[u]]]

\* SchedulingOps::should_retry: each binding was an attempt; whether the
\* reason of the failure is retried is the policy's flag for it.
ShouldRetry(g, t, retryOn) ==
  /\ Len(g.task[t].history) < MaxAttempts
  /\ retryOn

\* SchedulingOps::add_subtasks: in order, until the first that is refused.
AddOne(acc, parent, sub) ==
  IF ~acc.ok THEN acc
  ELSE IF Known(acc.g, sub.id) THEN [g |-> acc.g, ok |-> FALSE]
  ELSE LET new == AddTask(acc.g, sub.id, NewTask("Pending", sub.deps, parent))
       IN  [g |-> new, ok |-> Known(new, sub.id)]

AddSubtasks(g, parent, first, second) ==
  AddOne(AddOne([g |-> g, ok |-> TRUE], parent, first), parent, second).g

(* ------------------------------ the dispatcher -------------------------- *)
\* Dispatcher::select_parent
SelectParent(g, t) ==
  LET p == g.task[t].parent
  IN  IF p # NoTask /\ Known(g, p) /\ g.task[p].ws # NoNode
      THEN g.task[p].ws ELSE Root

\* Mutant: the root is not subtracted, or the bound is inclusive.
Mutant_CapacityInclusive(tp) == Cardinality(ActiveWorkspaces(tp)) - 1 <= MaxConcurrent

\* Dispatcher::has_capacity: the root does not count.
HasCapacity(tp) == Cardinality(ActiveWorkspaces(tp)) - 1 < MaxConcurrent

\* One round of try_dispatch's loop.  A task that is bound already (it is still
\* pending after a first dispatch) leaves a workspace nothing refers to.
DispatchOne(acc, t) ==
  LET w == acc.next
  IN  IF ~HasCapacity(acc.tp) \/ w > MaxDispatched THEN acc
      ELSE [tp |-> CreateWorkspace(acc.tp, w, SelectParent(acc.g, t),
                      acc.tp.node[Root].owner, System, "Idle", t),
            g |-> IF CanBind(acc.g, t, w) THEN Bind(acc.g, t, w) ELSE acc.g,
            next |-> w + 1]

\* try_dispatch's loop: what it has done after each of the tasks it goes over.
Dispatched(start, order) ==
  LET after[i \in 0..Len(order)] ==
        IF i = 0 THEN start ELSE DispatchOne(after[i - 1], order[i])
  IN  after

(* -------------------------------- actions ------------------------------- *)
NewGraph ==
  [task |-> [t \in TaskIds |-> NoTask], remaining |-> [t \in TaskIds |-> 0],
   forward |-> [t \in TaskIds |-> << >>], boundTask |-> [w \in Nodes |-> NoTask]]

SchedulingInit ==
  /\ TopologyInit
  /\ graph = NewGraph
  /\ gates = << >>
  /\ nextWs = 1

OnGraph(g) == graph' = g /\ UNCHANGED <<topologyVars, gates, nextWs>>

DepLists(t) ==
  {<< >>} \cup {<<a>> : a \in TaskIds \ {t}}
  \cup {s \in {<<a, b>> : a, b \in TaskIds \ {t}} : s[1] # s[2]}

Add(t, status, deps) ==
  /\ ~Known(graph, t)
  /\ \A d \in TaskIds : Len(graph.forward[d]) < MaxEdges
  /\ OnGraph(AddTask(graph, t, NewTask(status, deps, NoTask)))

Decompose(parent, a, b) ==
  /\ Known(graph, parent) /\ a # b
  /\ \A d \in TaskIds : Len(graph.forward[d]) < MaxEdges
  /\ OnGraph(AddSubtasks(graph, parent,
               [id |-> a, deps |-> << >>], [id |-> b, deps |-> <<a>>]))

Advance(t, trigger) ==
  /\ Known(graph, t) /\ TaskLegal(graph.task[t].status, trigger)
  /\ OnGraph(Transition(graph, t, trigger))

Integrate(t) ==
  /\ Known(graph, t) /\ TaskLegal(graph.task[t].status, "Integrate")
  /\ OnGraph(MarkCompleted(Transition(graph, t, "Integrate"), t))

CancelTask(t) ==
  /\ Known(graph, t) /\ TaskLegal(graph.task[t].status, "Cancel")
  /\ OnGraph(Cancel(graph, t))

\* A failed task is unbound for a retry and stays Failed (prepare_retry).
Retry(t, retryOn) ==
  /\ Known(graph, t) /\ graph.task[t].status = "Failed"
  /\ ShouldRetry(graph, t, retryOn)
  /\ OnGraph(Unbind(graph, t))

\* The coordinator assigns a task to an existing workspace.
Assign(t, w) ==
  /\ Known(graph, t) /\ Exists(topo, w) /\ w # Root
  /\ TaskLegal(graph.task[t].status, "Assign")
  /\ CanBind(graph, t, w)
  /\ OnGraph(Transition(Bind(graph, t, w), t, "Assign"))

\* Dispatcher::try_dispatch; a HashMap gives the tasks in any order.
TryDispatch(order) ==
  LET end == Dispatched([tp |-> topo, g |-> graph, next |-> nextWs], order)[Len(order)]
  IN  /\ Dispatchable(graph) # {}
      /\ HasCapacity(topo) /\ nextWs <= MaxDispatched
      /\ topo' = end.tp /\ graph' = end.g /\ nextWs' = end.next
      /\ UNCHANGED <<gates, nextEnvelope>>

\* GateController::open_gate: a fresh id per call, also for the same task.
OpenGate(t, fallback) ==
  /\ Known(graph, t) /\ graph.task[t].status = "Draft"
  /\ Len(gates) < MaxGates
  /\ gates' = Append(gates, [task |-> t, fallback |-> fallback, outcome |-> "Pending"])
  /\ UNCHANGED <<topologyVars, graph, nextWs>>

\* Mutant: an answer to a gate that is no longer pending is applied.
Mutant_AnswerAnyGate(id, outcome) ==
  /\ gates' = [gates EXCEPT ![id].outcome = outcome]
  /\ UNCHANGED <<topologyVars, graph, nextWs>>

\* GateController::resolve and ::timeout remove the pending gate; a second
\* answer finds none.  Modify is an approval; a timeout takes the fallback.
CloseGate(id, outcome) ==
  /\ gates[id].outcome = "Pending"
  /\ gates' = [gates EXCEPT ![id].outcome = outcome]
  /\ UNCHANGED <<topologyVars, graph, nextWs>>

ResolveGate(id, decision) ==
  CloseGate(id, IF decision = "Reject" THEN "Rejected" ELSE "ApprovedByHuman")
TimeoutGate(id) ==
  CloseGate(id, IF gates[id].fallback = "AutoApprove"
                THEN "ApprovedByTimeout" ELSE "Rejected")

EndWorkspace(w, status) ==
  /\ topo.node[w] # NoNode /\ topo.node[w].status \notin TerminalStates
  /\ topo' = Terminate(topo, w, status)
  /\ UNCHANGED <<nextEnvelope, graph, gates, nextWs>>

SchedulingNext ==
  \/ \E t \in TaskIds, status \in {"Draft", "Pending"} :
        \E deps \in DepLists(t) : Add(t, status, deps)
  \/ \E parent, a, b \in TaskIds : Decompose(parent, a, b)
  \/ \E t \in TaskIds, trigger \in {"Approve", "Assign", "Start", "Complete", "Fail"} :
        Advance(t, trigger)
  \/ \E t \in TaskIds : Integrate(t)
  \/ \E t \in TaskIds : CancelTask(t)
  \/ \E t \in TaskIds, retryOn \in BOOLEAN : Retry(t, retryOn)
  \/ \E t \in TaskIds, w \in Nodes : Assign(t, w)
  \/ \E order \in SetToSeqs(Dispatchable(graph)) : TryDispatch(order)
  \/ \E t \in TaskIds, fallback \in {"AutoApprove", "Cancel"} : OpenGate(t, fallback)
  \/ \E id \in DOMAIN gates, decision \in {"Approve", "Modify", "Reject"} :
        ResolveGate(id, decision)
  \/ \E id \in DOMAIN gates : TimeoutGate(id)
  \/ \E w \in Nodes \ {Root}, status \in TerminalStates : EndWorkspace(w, status)

SchedulingSpec == SchedulingInit /\ [][SchedulingNext]_schedulingVars

(* ------------------------------- properties ----------------------------- *)
\* No refused add_task has left an edge to t behind: one per dependency.
NoStrayEdge(t) ==
  \A d \in TaskIds :
     Cardinality({i \in DOMAIN graph.forward[d] : graph.forward[d][i] = t})
     = IF d \in Range(graph.task[t].deps) THEN 1 ELSE 0

\* The readiness counter of a task that still waits is the number of its
\* dependencies that are not integrated or cancelled: no interleaving of adds,
\* integrations and cancelled cascades makes a task ready early or leaves it
\* waiting for nobody (as long as no refused add left a stray edge to it).
ReadinessExact ==
  \A t \in TaskIds :
     /\ Known(graph, t) /\ graph.task[t].status \in {"Draft", "Pending"}
     /\ NoStrayEdge(t)
     => graph.remaining[t] =
          Cardinality({d \in Range(graph.task[t].deps) :
                          graph.task[d].status \notin Finished})

\* The two directions of the binding agree, so a workspace serves at most one
\* task and a bound workspace is always the latest attempt of its task.
BindingsAgree ==
  \A t \in TaskIds, w \in Nodes :
     Known(graph, t) => 
       /\ graph.task[t].ws = w <=> graph.boundTask[w] = t
       /\ graph.task[t].ws = w =>
            graph.task[t].history[Len(graph.task[t].history)] = w

\* The dispatcher never has more workspaces running than it is allowed,
\* counting the ones whose binding failed.
CapacityRespected ==
  Cardinality({w \in ActiveWorkspaces(topo) : topo.node[w].task # NoNode})
  <= MaxConcurrent

\* A draft or pending task never depends on a task cancelled after it was
\* added: cancelling takes along everything that waits for the task.
CancelCascades ==
  [][\A t, d \in TaskIds :
       /\ Known(graph, t) /\ Known(graph, d)
       /\ d \in Range(graph.task[t].deps)
       /\ graph.task[d].status # "Cancelled" /\ graph'.task[d].status = "Cancelled"
       => graph'.task[t].status \notin {"Draft", "Pending"}]_schedulingVars

\* First answer wins: a human's answer and the timeout of the same gate race,
\* and whichever comes second changes nothing.
FirstAnswerWins ==
  [][\A id \in DOMAIN gates :
       gates[id].outcome # "Pending" => gates'[id] = gates[id]]_schedulingVars

\* "Tasks in Pending state whose dependencies are all satisfied"
\* (task_graph.rs:195, ready_tasks).
ReadyHasNoOpenDependency ==
  \A t \in Dispatchable(graph) :
     \A d \in Range(graph.task[t].deps) : graph.task[d].status \in Finished

\* The task graph and its dispatcher hold together over any sequence of adds,
\* refused adds, bindings, retries, cancellations and gate answers.
SchedulingHolds ==
  /\ [](ReadinessExact /\ BindingsAgree /\ CapacityRespected)
  /\ CancelCascades
  /\ FirstAnswerWins
=============================================================================
