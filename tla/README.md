# A TLA+ model of WACP

This directory holds a formal model of the WACP platform: the runtime that
coordinates agents in workspaces (`wacp/`, Rust) and the Console that operators
use to launch and follow sessions on it (`wacp-console/`, Rust backend). TLC
checks the model on small instances; TLAPS proves the central invariants for
every value of the constants. `PROJECT.json` lists the components, the runs, the
source lines each definition stands for, the mutants each property must reject,
the hazards, the findings and the theorems.

## 1. The system

### 1.1 Inventory

Paths are below `wacp/crates/` (runtime) and `wacp-console/crates/` (Console). The last
column names the module; `PROJECT.json` has the status of every component.

| Component | State it keeps | Operations | Module |
|---|---|---|---|
| Lifecycle state machines (`wacp-fsm`) | none: tables of edges | `transition`; illegal edges are errors | `WorkspaceFsm`, `TaskFsm` |
| Workspace actor (`wacp-workspace`) | lifecycle status, inbox, taken ids, checkpoint register; two bounded channels (64) | `run` (biased select), command and message handlers, `push_inbox`, `pop_inbox`, snapshot and restore | `WorkspaceActor`, `Mailbox` |
| Runtime loop and its services (`wacp-runtime`, `wacp-transport`) | request channels, checkpoint and escalation index, subscriptions, trail index | `run`, one handler per request, `fan_out_event`, `shutdown` | `Runtime`, `Services` |
| Coordinator (`orchestrator.rs`, `gate.rs`) | mirror tree, handles, cached checkpoints, pending gates | `dispatch`, `handle_event`, `auto_integrate`, `route_envelope`, gates | `Runtime` |
| Migration (`migration.rs`) | a context per migrating workspace | `start`, `set_snapshot`, `complete`, `fail` | `Migration` |
| Task graph, scheduling, dispatcher | tasks, edges, readiness counters, bindings, task gates | `add_task`, `transition`, `bind`, retry, cancel, decompose, `try_dispatch` | `Scheduling` |
| Tree and topology | ancestry, owners, visibility, escalation routes, port rights | create, reparent, terminate, transfer, grant, revoke | `Topology` |
| Resource control (`resource.rs`) | timers, budgets, last activity | state change, check, raise, heartbeat | `Resources` |
| Integration (`integration.rs`, `integration_pipeline.rs`) | the queue and the one in progress | push, take, merge, resolve, complete, salvage | `Integration` |
| Trail and recovery (`wacp-trail`, `wacp-recovery`) | segment files, chain, index, snapshots, tiers, checkpoint store | append, rotate, truncate, replay, compact, move, merge, store | `Trail`, `Tiers`, `Blobs` |
| Clock (`wacp-clock`) | physical time, 16-bit counter | `now`, `send`, `receive`, recover | `Clock` |
| Tools (`wacp-tools`) | registry, breaker, permits and queue counter | register, discover, invoke, cancel | `Tools` |
| LLM gateway (`wacp-llm`) | windows of requests, costs | check, complete, stream, retry, record | `Llm` |
| SDKs (`wacp-sdk`, `wacp-coordinator-sdk`) | one client behind a mutex, streams | query, complete, wait, subscribe | `Services` |
| Start-up (`main.rs`, `config*.rs`, `init.rs`, `health.rs`) | configuration, what is up | load, override, validate, start, report | `Startup` |
| Taxonomy, permissions, authentication, filter | resolved tables, rights, tokens, failures per address | load, check, grant, consume, authenticate, redact | `Access` |
| Console sessions and monitor | the session row, a monitor task, a handle | launch, cancel, watch, record | `ConsoleSession` |
| Console highway | pending items, stream drivers, WebSocket clients | answer, prune, reconnect, broadcast | `Highway` |
| Console lists | nothing: cursors carry the position | one page after another | `Paging` |
| Profiles and session configuration | version rows, assignments | create, update, roll back, delete, patch, assign, launch | `Profiles` |
| Accounts | users, sessions, tokens, attempts, audit, settings | login, rotate, administer, bootstrap, set | `Accounts` |
| Console catalogue | taxonomy index, gRPC clients with their status | reload, validate, search, export, dial | `Catalog` |

### 1.2 How the parts interact

```
 clients --gRPC--> services --request channel--> runtime loop --- coordinator
                                                 |   ^              (tree, gates, tasks,
                              command channel 64 |   | events 256    migrations)
                              message channel 64 v   |
                                             workspace actors
 Console: HTTP handlers --> database row <-- session monitor <-- highway streams
                |                                                  ^
                +------- gRPC: submit, dispatch, abort ------> runtime
```

The runtime loop is one task. It prefers actor events to requests and handles one
thing at a time; when a handler sends to an actor it *awaits* room in that actor's
channel. An actor is one task too: it prefers commands to agent messages, and
awaits room in the event channel for each event it reports. The coordinator never
reads an actor's state; it keeps a mirror of it, fed by events.

In the Console every HTTP request is a task; between two awaits another launch or
cancel of the same session, the monitor or the runtime may act. The database row is
the only thing they share, and every write of its state is a guarded `UPDATE`.

### 1.3 What is hard, and what makes each part correct

* **Actors and mirror.** The mirror lags; it must not diverge, must not be rewritten
  after an end, and must not hold bookkeeping for actors that are gone.
* **Two channels per actor.** Commands overtake messages. An abort is meant to; the
  answer to a checkpoint that is still queued is not.
* **Bounded channels in a cycle.** The loop waits for an actor and the actor for the loop.
* **Gates.** One answer per gate, for checkpoints and for tasks, and nothing left
  waiting for an answer that can no longer come.
* **Ends.** Integration, cancellation and shutdown must end.
* **Migration.** Frozen workspaces are always thawed; what was recorded when the
  migration began must be true when it ends.
* **Indices kept twice.** Owners, rights, bindings, counters, pending lists: each has a
  second copy which a cascade, a refusal or a late message can leave behind.
* **Crashes.** A write may stop anywhere: in an entry, between two files of a move, in a
  snapshot, between two statements of the database.
* **Check, await, act.** Limiter, breaker, last-administrator guard, login lockout,
  versions of a profile: the check is one step and the write another.
* **Streams.** They break, lag and are subscribed again; what was missed must be said.
* **Sessions.** Concurrent launches and cancels, lost replies, crashes: no workspace
  may be left running that no session knows of, an ACTIVE session has a monitor, and
  a terminal state is final.

The hazards in `PROJECT.json` give the line where the most important of these bite.

## 2. The modules

### 2.1 Runtime

`WorkspaceFsm` and `TaskFsm` are the two tables of edges, with `NextState`,
`IsLegal` and `TaskNext`, `TaskLegal` over them.

`WorkspaceActor` is the actor. `status`, `inbox`, `checkpoints` and
`firstEnvelope` are fields of `WorkspaceState`; `coordQ`, `agentQ` and `events` are
the three channels. A handler of the code changes the state and then awaits one send
per event; in between nobody else can see the actor's state, so the model changes
the state in the handler's step and leaves the events in `outbox`, from which
`SendEvent` moves them one at a time when there is room. `HandleCommand` and
`HandleAgentMsg` require an empty outbox (the handler has returned);
`HandleAgentMsg` requires an empty command channel (the biased select). `Terminate`
is the end of `run`, which sends `Terminated`.

`Runtime` is the loop with the coordinator and the services. `pc` says where the
loop is: `select`, `sending` (an awaited send, described by `send`), and
`aborting`, `draining`, `stopped` for `shutdown`. `HandleEvent` is
`Coordinator::handle_event` followed by what `fan_out_event` keeps; `AutoIntegrate` is
the awaited answer to `Integrating`. Each request of the three services that
changes state is an action: it is taken only when no event waits (`Take`), and
an unknown workspace or task is an early return, that is, no step. All nodes the
services create are children of `ws-root`, so a tree is the status of each node. Ids
come from counters, so a new workspace or task is any unused id.

`Migration` extends `Runtime` with the migration contexts and the three
operations of the coordinator. Nothing in the repository calls them yet; the model
lets them be called whenever a request could be, and completes a migration only once
its snapshot arrived, as `impl/migration.md` prescribes.

`MCRuntime` adds the symmetry set of workspaces and tasks for TLC.

### 2.2 Console

`ConsoleSession` is one session. `row` is its row with the ids `finalize` writes;
`launch[l]` and `cancel[c]` are handlers with their program counters and locals, one
step per await; `mon` is the monitor task with the channel its stream drivers feed;
`handle` is the entry in `active_sessions`; `boot` is the process, from a crash
through recovery to serving; `pool` is what `GrpcPool::connect` reached at this start
(its `reconnect_*` functions have no caller). The runtime is external: `ws` says
whether a workspace exists, runs, was asked to stop, ended or was lost in a restart;
`AbortWorkspace` always answers Ok, as the service does.

Four kinds of step share a budget of *faults*: a call that fails or whose reply is lost, a
query that fails, a tolerated abort that fails, a crash. The history variables
`excused` and `unwatched` record what a fault separated, so that the properties say
what holds otherwise. Stream disconnections, runtime restarts, dropped changes of a
workspace and a start that reaches no service are not faults: they happen freely.

Creating, editing and assigning a session precede the launch and are in `Profiles`; the
monitor's pending gates and the frames it sends are in `Highway`.

### 2.3 The coordinator's structures

All four are owned mutably by the coordinator, so an operation is one step and the
question is which sequences of legal calls break an invariant.

* `Topology` keeps the whole `TopologySet` in one record `topo`: the compound operations
  update all of it in one call. `CreateWorkspace`, `Terminate` (which calls
  `CascadeFailure`), `TransferRight` and the rest are functions from one record to the
  next, as the code's methods are on `&mut self`. The traversals are written as what they
  collect: `Descendants` is the least set of nodes closed under taking children.
* `Scheduling` extends it with `graph` (tasks, forward edges, counters, both bindings), the
  task gates and the batch dispatcher. A refused `add_task` keeps the edges it
  added before it found the unknown dependency, as in the code. The tasks a cancellation
  reaches (`CancelSet`) are the least set closed under dependents. `Dispatched` is the loop
  of `try_dispatch`, a recursive function of the round, because each round sees what the
  earlier ones bound and counted.
* `Resources` has the timeout tracker, budgets with their verdicts and raises, and
  the liveness monitor; `Tick` is the time the coordinator passes in.
* `Integration` has the queue, the choice of checkpoint and strategy, the merge with
  its overlap check, the ordered resolution of conflicts and salvage. `Outcomes` is the
  loop of `resolve_all`, round by round (`ResolveNext`).

### 2.4 Storage

* `Trail`: a segment is a sequence of frames, a frame is an entry or the bytes a write
  left. A crash may strike inside an append; a write may fail and the process go on. The
  history `log` says what was written. `Recover` is `wacp-recovery`: truncate the
  tail, choose a snapshot, verify the chain, replay.
* `Tiers` extends it with the warm and cold tiers. Each move is its two file operations with a
  crash possible between them. `MergeWarm` pairs the small files by their rank among them.
* `Blobs` is the checkpoint store beside its in-memory twin, and the workspace snapshots.
* `Clock` is the hybrid logical clock of two nodes whose wall clocks may jump back.

### 2.5 What an agent uses

* `Tools`: concurrent callers walk through breaker, limiter and engine one step at a
  time; a caller may be dropped (its future cancelled) at each await.
* `Llm`: the sliding-window limiter with callers between check and record (`Pruned` drops
  entries from the front as long as they are too old, as the loop of `pop_front` does), retries,
  costs, and the conversion of conversations and streams of two wire formats.
* `Services`: request queues with reply channels, programs of SDK calls, subscribers
  fed with `try_send`, a trail index that outlives the process, and a loop that may stop.

### 2.6 Start and access

* `Startup`: configuration from defaults, file and environment, validation, then the
  start step by step; each server binds in a task of its own.
* `Access`: loading a taxonomy over the base one, the permissions built from it, port
  rights with send-once, the token tables, the limiter and the filter.
* `Mailbox`: the inbox of a workspace. **`PriorityQueues`** is the abstract
  specification of it: a set of envelopes numbered by arrival, of which the oldest of
  the most urgent is taken. `Queues == INSTANCE PriorityQueues WITH waiting <-
  Waiting(inbox), ...` is the refinement mapping (the inbox without its order), and the
  property `ImplementsQueues` says that every behaviour of the inbox, captures and
  restores included, is one of that set.

### 2.7 The Console's live and stored sides

* `Highway`: what the runtime has open, the four stream drivers with their
  reconnects, the monitor's pending lists and frames, the handlers that answer
  (call, audit, prune), and WebSocket clients behind a broadcast of bounded size.
* `Paging`: one walk through a list, a page per request, rows changing in between. The cursor is
  the key of the page's last row, 0 before the first page.
* `Profiles`: version rows written by two statements without a transaction, and the
  configuration and assignments of a session up to its launch.
* `Accounts`: requests of two clients statement by statement, logins with rotation
  and lockout, the first start, settings, and the audit entries.
* `Catalog`: overlapping reloads of the taxonomy index (built from the verticals in
  registration order; the last one that defines a name owns it), profile and session
  validation against it, search, YAML and the gRPC pool.

The MC modules of these parts choose a value of `part` in their initial state, and
a behaviour then moves only that part: structures that do not share state are
explored one by one instead of as a product. `steps` bounds the length where a
structure is not finite by itself.

## 3. What is checked

Every run terminates with the whole state space explored. `MaxRequests`, `MaxFaults`,
`MaxSteps`, `Ids` and the size of the sets are bounds of the instances; channel
capacities, windows and limits are parameters of the code, made small so that they are
reached.

| Run | Properties | Instance |
|---|---|---|
| `runtime` | `TypeOK`, `MirrorConsistent`, `BookkeepingBounded`, `FirstResponseWins`, `TreeTerminalSticky`, `AbortPrecedence` | 2 workspaces, 2 tasks, capacities 2/1/2, 5 requests of all 25 kinds |
| `runtime_shutdown` | `StoppedMeansEnded`, `ShutdownEnds` | 2 workspaces, capacities 2/1/8, 4 requests, shutdown at any moment |
| `runtime_liveness` | `IntegratingCloses`, `EndedForgotten`, `CancelledStops` | 2 workspaces, capacities 3/2/2, 5 requests |
| `migration` | `FrozenIsTracked`, `SnapshotIsFrozen` | 1 workspace, capacities 2/2/2, 7 requests or operations |
| `console_session` | `SessionTypeOK`, `NoSilentLeak`, `ActiveIsWatched`, `CompletedIsClosed`, `TerminalFinality` | 2 launches, 1 cancel, 1 assignment, 4 workspace ids, reconnect cap 2, 1 fault |
| `coordinator` | `TopologyHolds`, `SchedulingHolds`, `BudgetsHold`, `MergesSafe` | 4 nodes of 2 owners in 4 operations; 3 tasks with 2 edges in 7; 1 timer in 10; 2 sources and 1 artifact in 12 |
| `storage` | `NothingLost`, `RecoveryExact`, `StoreHonest`, `CausalOrder` | segments of 2 entries, trails of 3 to 5, 2 crashes, 1 failed write; 2 payloads; 2 nodes with a counter of 2 |
| `agent` | `ToolsSound`, `GatewaySound`, `ServicesSound` | 3 callers, 1 permit and 1 queue slot; 2 callers of the gateway in 9 steps; 2 SDK tasks, 1 coordinator client, 1 operator, 1 restart |
| `access` | `StartSound`, `AccessSound`, `OnlyTheLivingAuthenticate`, `SecondCopyWasWaiting`, `ImplementsQueues` | every configuration of the small sets with 1 failing step; 2 workspaces, 3 tokens, 3 addresses of which 2 are tracked; 4 deliveries of 2 envelopes |
| `console` | `HighwaySound`, `WalkExact` | 2 gates, 1 escalation, 2 operators, a broadcast of 1, 2 breaks; 3 rows, pages of 1 or 2, 2 changes |
| `console_data` | `ProfilesSound`, `AccountsSound`, `CatalogSound`, `LastAdminNeedsARace` | 2 profiles of 3 versions, 5 requests; 3 users, 2 clients with 3 calls; 2 verticals, 3 reloads |
| `cancel_race` | expects a violation of `CancelledIsStopped` (section 4) | as `console_session` |

The properties of the last six runs that pass are each a conjunction of named parts, one
idea a part, defined just above them in the module; most parts have a plausible bug of their own in the
module (`Mutant_...`, just before the definition it changes). `PROJECT.json` lists
one mutant for each property.

What they show:

* **`MirrorConsistent`**: for each actor that was started, the last report still in
  its outbox, else in the event channel, else the tree itself, is its status.
  **`TreeTerminalSticky`**: a node recorded as Closed or Failed is not rewritten.
* **`BookkeepingBounded`**: cached checkpoints belong to workspaces with a handle,
  and an actor that runs has one.
* **`FirstResponseWins`**: a pending gate has no decision in flight, no gate has two.
* **`AbortPrecedence`**: with an abort queued, a workspace does not become Integrating,
  even if the agent's Complete was accepted earlier.
* **`StoppedMeansEnded`**, **`ShutdownEnds`**: shutdown ends, and then every actor has
  ended and the tree says so.
* **`IntegratingCloses`**, **`EndedForgotten`**, **`CancelledStops`**: the answer to a
  completion, the clean-up after an end and the abort behind a cancelled task arrive.
* **`FrozenIsTracked`**, **`SnapshotIsFrozen`**: a Migrating workspace has a context or
  the command that thaws it is underway; a context with a snapshot belongs to a workspace
  that is still frozen, or failed.
* **`NoSilentLeak`**: a running workspace that nobody asked to stop is held by a
  launch that can roll it back, recorded in the row, or was separated by a fault. Two
  concurrent launches both pass the check of CONFIGURING, because the result of
  the guarded update is dropped; the property says that the guard of `finalize`
  makes up for it.
* **`ActiveIsWatched`**: the Console that serves has a monitor and a handle for an
  ACTIVE session, up to the launch that is about to insert them, unless recovery
  skipped it or the verdict could not be written.
* **`CompletedIsClosed`**, **`TerminalFinality`**: COMPLETED is written only for a root
  that closed, and none of the writers changes a terminal row.
* **`TopologyHolds`**: the tree is a tree, both sides of every index agree, the root sees
  everything, a failure fails its owner's descendants and nobody else's, and a right
  that expired or was revoked stays so.
* **`SchedulingHolds`**: a counter is the number of unfinished dependencies (for tasks no
  refused `add_task` touched), bindings agree, the dispatcher keeps the capacity, a
  cancellation reaches all dependents, and of a timeout and an answer the first counts.
* **`BudgetsHold`**: elapsed time is exactly the time in running states, an
  expired timer stays expired until it is raised, a raise never tightens a limit in force, and what
  is removed is forgotten.
* **`MergesSafe`**: one integration at a time, the first blocking conflict
  decides, and an overlap with earlier work finishes without a conflict only for a
  final checkpoint, merged directly or sent back for revision.
* **`NothingLost`**: an entry whose write was whole is in the files, in some tier, in
  order, where the index says, until retention deletes it (entries behind a failed
  append excepted, section 4), and the active segment stays hot.
* **`RecoveryExact`**: what recovery rebuilds is what replaying every surviving entry
  rebuilds, whatever snapshots there are, torn ones included.
* **`StoreHonest`**: a read returns a whole payload or an error, and the file store agrees with
  the in-memory one except for what a crash tore.
* **`CausalOrder`**: stamps of a node never go back whatever its wall clock does, across a
  restart never to an earlier microsecond, and a receipt is stamped after its
  message, up to the saturation of the counter.
* **`ToolsSound`**: permits and queue slots are conserved (a caller dropped in the
  queue is the one leak), an open breaker admits nobody, it trips only for failures
  within a window, and a capability always has its handler.
* **`GatewaySound`**: the limit is overshot by at most the callers between check and
  record, costs are exact up to the truncation and
  no more is charged to workspaces than the total, requests keep tool calls and
  results, and a stream put together is the answer.
* **`ServicesSound`**: a query returns an answer to itself, a completion follows its
  checkpoint, a subscriber sees no hole before it is cut off, no caller waits for a reply nobody will
  give, and success means that the loop served the request.
* **`StartSound`**: a start that serves has replayed the trail, has no two servers on one
  address, and `validate` agrees with `serve` up to the log file.
* **`AccessSound`**: an accepted taxonomy is closed and leaves base roles alone,
  send-once rights are used once per grant, a blocked address has its failures, the
  quietest is the one forgotten, and the filter leaves no match.
  **`OnlyTheLivingAuthenticate`**: a revoked, invalidated or expired token opens nothing,
  and an agent's token acts for the workspace it is bound to.
* **`SecondCopyWasWaiting`**, **`ImplementsQueues`**: the inbox of a workspace.
* **`HighwaySound`**: only closed items are pruned, audited answers were acknowledged, a
  lag notice precedes what follows a gap, the end of a session is the last frame, and
  a WebSocket client is told how much it missed.
* **`WalkExact`**: a walk lists no row twice under one key, and lists each row that stays.
* **`ProfilesSound`**: at most one current version, versions are only appended, and a
  launched session keeps its configuration.
* **`AccountsSound`**: sessions per user are bounded by the logins that overlap, the
  lockout is overshot by no more than those, what is audited was done, the first
  credential works, and the two readers of settings agree.
  **`LastAdminNeedsARace`**: the last administrator goes only through a stale count.
* **`CatalogSound`**: the index has no entry without its vertical, accepted profiles and
  sessions are usable and staffed, search keeps the best hits, YAML comes back,
  and healthy means dialed.

### 3.1 Why the bounds are enough

Two workspaces are needed for what actors do to each other: they meet only in the
event channel and in the loop. A workspace needs `SubmitGoal`, a directive (Idle to
Active), an agent's action and an answer before the interesting states, hence four to
seven requests. Capacity 1 makes every send wait at some point; capacity 2 lets two
things be in one channel, which the orders need. In the Console, four ids let both
launches create a root and a worker each, and the one fault may strike at any step of
either launch, the cancel, the monitor or the process. Two faults in one behaviour are
beyond that run; the theorems of section 5 cover any number of them for all five
properties.

In the topology, four nodes give a chain with a change of owner in the middle, and four
operations build it and end it. Three tasks give a dependency chain and a dependent
of a cancelled one; seven operations cover add, run, fail, retry and cancel. Trails of
three to five entries in segments of two cross a rotation, and two crashes allow a
crash during the recovery from one. Three callers with one permit and one slot
fill the limiter and leave one refused. Two overlapping requests suffice for each
check-then-write pair of the Console, and the third user of `Accounts` is the one both
compete over. Longer behaviours of these parts are not explored; the theorems of section 5
cover behaviours of any length.

CHECK_DEADLOCK is FALSE throughout: clients may stop sending requests, both systems
then rest, and the bounded runs end at their bound.

### 3.2 Fairness

`FairSpec` adds weak fairness of each actor (`ActorNext(w)`) and of the loop
(`LoopNext`: events, awaited sends, the steps of shutdown). Each is a tokio task; the
scheduler runs a task whose channel is ready. Clients and operators are not fair:
requests may stop at any time. The loop's preference of events over requests is the
biased select and part of the guards, not of the fairness. The other runs check
safety only: what they could promise eventually depends on clients, remote
services or an operator.

`runtime_liveness` and `runtime_shutdown` exclude full channels in the one place where
they stop the system (section 4, `IntegrationAnswerSent`): the first has a command channel of
three, which its five requests do not fill while the event channel is full; in the
second the event channel holds everything its four requests produce. The loop
that sends the aborts in `shutdown` drains no events, so with a full event channel the
same wait stops shutdown.

## 4. Where code and texts disagree

The run `cancel_race` expects a violation: a cancel that read LAUNCHING marks CANCELLED a
session that became ACTIVE meanwhile, and aborts nothing, against the comment at
`routes/sessions.rs:618`.

The modules state more sentences of the documents and comments that the code does not keep.
They are not part of a run; adding one to the cfg of its run gives the
behaviour.

| Definition | The code | The text |
|---|---|---|
| `Runtime!BlockedHasGate` | the gate is open as soon as the checkpoint is queued; an approval on the command channel overtakes it, is illegal, and the checkpoint then blocks the workspace with no gate left | `impl/wa3-5-checkpoint-gates.md:17` |
| `Runtime!RejectOnlyBlocked` | a rejection drives `CoordinatorAbort`, legal from Idle, Active, Suspended and Migrating too, and fails a workspace that is not Blocked | comment at `actor.rs:255` |
| `Runtime!DispatchOnlyReady` | Dispatch checks only that the task exists: assigned and cancelled tasks get another workspace | `impl/coordinator-sdk.md:268` |
| `Runtime!IntegrationAnswerSent` | `auto_integrate` awaits a full command channel whose actor awaits the full event channel that only the loop drains | comment at `orchestrator.rs:91` |
| `Migration!RecordsPreState` | the state to restore is read from the tree, which lags: a workspace blocked on a checkpoint comes back Active | `impl/migration.md:103` |
| `Scheduling!ReadyHasNoOpenDependency` | a refused `add_task` leaves forward edges; a later task of that name inherits them and its counters are lowered for dependencies it does not have | `task_graph.rs:195` |
| `Topology!FailedLosesRights` | descendants are collected after children of other owners moved away: nodes of the failing owner below them fail and keep their rights | comment at `topology.rs:123` |
| `Tiers!AnchorKeepsHot` | a segment id is compared with an anchor that is a sequence number | `snapshot_anchor` in `tiered.rs` |
| `Tools!HalfOpenHasProbe` | the probe the breaker admitted may be refused by the limiter or dropped: half-open then refuses everybody | half-open in `resilience.rs` |
| `Tools!CancelledWasRequested` | a timeout cancels the token the caller shares with other invocations | error codes in `handler.rs` |
| `Services!WaitGetsItsSignal` | the coordinator SDK subscribes without a filter on the workspace asked for, after its call | `wait_for_signal` |
| `Services!EveryEventIndexed` | the sequence of a stream restarts with the process, so rows of the trail index collide and are dropped | `emit_trail_entry` in `init.rs` |
| `Startup!ReadyMeansListening` | servers bind in spawned tasks; a failed bind panics the task and leaves health at ready | comment in `init.rs` |
| `Highway!ReconnectLags` | a stream that ends without an error is subscribed again without a Lag frame | `session_monitor.rs` |
| `Catalog!LaunchedAreValid` | launch validates the assignments, not the profiles themselves (needs `UseReloads` 3) | `session_validation.rs` |
| `Accounts!AnAdminRemains` | two administrators who demote each other both count two | message of `LAST_ADMIN` |
| `Profiles!AlwaysCurrent` | a crash or a late request between the two statements leaves no current version | `queries/profiles.rs` |
| `Profiles!DeletedStaysDeleted` | an update that read before the delete inserts a current version after it | `queries/profiles.rs` |
| `Profiles!AssignmentsFrozen` | `set_assignments` replaces rows after a launch took the session | `routes/sessions.rs` |

Behaviour met while modelling, in the model but stated by no definition:

* *Coordinator.* A second `try_dispatch` before the first workspace runs orphans it
  (`dispatch.rs:95`). A retried task is Pending in the graph and is not dispatched again
  (`scheduling.rs:94`). Raising a limit of 0, which means none, makes it finite.
  `record_activity` after `remove` registers a workspace again. A migration context
  outlives the end of its workspace, which keeps that id from migrating.
* *Storage.* After a failed append the next one is written behind the fragment and is cut with
  it (`fs_trail.rs:118`). After a restart, segments that went warm are reported as not
  found (`wacp-recovery/lib.rs:181`). The recovered clock drops its counter. Merging pairs
  small warm files across a large one. `hot_limit` 0 moves the active segment. A torn checkpoint
  file is taken for a duplicate from then on (`fs_checkpoint.rs:30`).
* *Agent.* Waiting exactly the advertised time is answered with a wait of 0
  (`rate_limit.rs:57`); an estimate above the maximum never passes. An OpenAI message
  keeps only the first of several tool results (`openai.rs:160`). 504 is not retried. The last
  usage event of a stream replaces the input tokens of the first. A chunk with usage
  and content drops the content. The checkpoint index is lost in a restart.
* *Access.* A derived role that overrides checkpoint types keeps the base's. Sessions are not
  renewed. The loop constructs the permission engine and calls none of its checks.
* *Console.* A gate that expired stays listed until somebody answers it
  (`highway.rs:111`). The failure counter of a stream is never reset
  (`session_monitor.rs:667`). A session whose launch a crash cut stays LAUNCHING
  (`queries/sessions.rs:204`, against `recovery.rs:9`). A cancel between the spawn of
  the monitor and the insertion of its handle leaves the monitor
  (`routes/sessions.rs:488`, against `wcon-sessions.md:881`). `update_user` may write the role and
  then refuse to disable. A crash between the first user and its credential file
  leaves an account nobody can enter (`main.rs:141`). `revoke_user_token` ignores
  the user id in its path. An older, slower reload overwrites a newer index. Tools are found by
  bare name, whichever vertical defines them. The `DELETED_PROFILE` error is never reached.

## 5. What is proved

Eight modules hold theorems, for any sets of workspaces, tasks, requests, launches,
cancels, ids, streams, nodes, payloads, segments, envelopes, callers, handlers, profiles, users,
rows and clients, any capacities, caps, counter widths and budgets, and behaviours of any
length. They state 36 of the 40 properties the passing runs check: every invariant and every
action property. Inductive invariants that are much larger than the property (`StopInv`,
`MigrationInv`, `WatchInv`) were checked with TLC on the instances of those runs before they were
proved.

### 5.1 `RuntimeProofs`

`TypeCorrect` comes first, one lemma per action, grouped by the part of the
state it touches. Besides types it says that no channel exceeds its capacity.

`RuntimeInvariant`, and from it `MirrorCorrect`, `BookkeepingCorrect` and
`TerminalRecordsStay`; `AbortWins` follows from the types. The inductive invariant
`RuntimeInv` has five parts:

1. `TypeOK`;
2. `ReportsSettle`: what an actor has still to send reports its current status
   (an actor changes status only with an empty outbox), and after a terminal report,
   queued or handled, every later one repeats it. Without this a stale event in the
   channel could rewrite an ended node;
3. `ActorLifecycle`: `Terminated` is the last event of an actor and is in the channel only
   when the actor has exited, and every queued event belongs to a workspace with a
   handle. This is what keeps a late `CheckpointCreated` from reviving a cache entry;
4. `BookkeepingBounded`;
5. `MirrorConsistent`.

The argument reduces every step to four kinds (`StepCases`): an actor handles
something or moves an event, the loop handles an event, a workspace is created,
and steps that leave these variables alone. Lemmas about `Append` and `Tail` say how
the last report in a queue changes.

The next part follows a command from the request that starts the send, through the send
the loop awaits, to the actor's queue.

* `AnswersAreUnique` (`FirstResponseWins`). `GateInv` adds to the property that gate
  ids are below the counter, in the pending gates, the queues and the awaited send, and
  that the awaited send counts as in flight: the gate is removed when the send
  *starts*, and only later does the answer enter the queue.
* `ShutdownIsComplete` (`StoppedMeansEnded`). The property speaks of the end only;
  `StopInv` says why every actor gets there. From the moment `shutdown` begins, a
  running workspace that has not ended is still on the list, or an abort is on its way
  to it (`AbortComes`), or it is Integrating and the answer of `auto_integrate` is
  (`IntegrationComes`: the event, the awaited send, or the queue). `OnlySentKinds`
  and `Unfrozen` say that without migrations no workspace is Migrating or Conflicted
  when shutdown begins, so an abort or an answer always ends it.

Migrations: `MigrationInvariant`, and from it `NoneLeftFrozen` and
`SnapshotsStayTrue`, over the specification of `Migration` with all requests. The
commands underway to an actor are its queue and then the awaited send. `Balanced` says that in that
list two `MigrateBegin` have an end of the migration between them, that the last
one is followed by an end unless a context is there, and that an end comes before a
`MigrateBegin` for a workspace that is already Migrating, for which the actor would emit
a second snapshot. `OneSnapshot`
and `OneRestore` say that a snapshot is in one place (outbox, event channel or context),
that a restoring command exists only after it was received, and that the
workspace is Migrating or Failed from the one to the other.

### 5.2 `ConsoleSessionProofs`

`SessionTypeCorrect`, `TerminalRowsStay`, and

* `SessionInvariant`, `NoLeakWithoutFault`. `NoSilentLeak` is not inductive alone: a
  `finalize` that overwrote recorded ids would lose them. `RecordedOnce` (a row that is
  not yet ACTIVE records nothing) closes the gap, since `finalize` writes only a
  LAUNCHING row;
* `WatchInvariant`, `CompletedSessionsClosed`, `ActiveSessionsWatched`. `RootKnown`: a
  launch that may finalize, and an ACTIVE row, has a root. `ClosedNews`: unless the
  recorded root closed, no "closed" waits for the monitor, its verdict is not
  "completed" and neither is the row; two launches cannot exchange their roots under
  it because the root is recorded once. `StopsCancelled`: a monitor is told to stop only
  after the row was marked. `Watched` follows the monitor from the launch (or
  recovery) that is about to spawn it to its entry in the map.

### 5.3 `CoordinatorProofs`

* `BudgetsAlwaysHold` (`BudgetsHold`). `ResourcesInv`: the timer of a registered workspace
  has banked, and is running, exactly the time spent in timer-active states.
* `TopologyAlwaysHolds` (`TopologyHolds`). `TopoOk` is a predicate on the record, since the
  operations are functions on it: the nodes form one tree (`TreeOk`), the owner and
  originator indices are those of the nodes (`OwnersOk`), `canSee` and `seenBy` are inverse and the root sees
  all (`SightOk`), and the rights' indices name rights that exist (`RightsOk`), so that the
  id of a new right is in none. A cascade reaches the least closed set, which is contained in any
  set closed under children; that is how its effect is bounded.
* `SchedulingAlwaysHolds` (`SchedulingHolds`). `SchedulingOk` adds to `TopoOk` that of the
  graph: the dependencies of a task are known and have their edge to it (`DepsOk`), the counter of
  a task that waits and that no refused `add_task` touched is the number of its open dependencies
  (`ReadyOk`), both sides of a binding agree (`BindOk`), and a bound workspace is in the tree,
  whose active ones are within the capacity (`SpacesOk`).
* `MergesAlwaysSafe` (`MergesSafe`). `IntegrationInv`: only workspaces with a checkpoint are
  queued, the pipeline rests exactly when nothing is in progress, and its outcome is that of the
  first conflict that blocks (`Decided`).

The loops of the dispatcher and of the resolver are recursive functions of the round. That such a
function exists, and what holds after every round, is shown by induction on sets of numbers:
`LeastNumber` takes the least round at which a fact fails, as the least member of a set, so that no theorem
with an operator parameter is needed (`SetInduction`, `GreatestNumber`).

### 5.4 `StorageProofs`

* `ClockTypeCorrect` and `ClockRespectsCausality` (`CausalOrder`), from lemmas on what `now`
  and `recv` return.
* `StoresAreHonest` (`StoreHonest`): the file store and its in-memory twin agree but for
  the files a crash tore.
* `NothingIsLost` (`NothingLost`) and `RecoveryIsExact` (`RecoveryExact`), from `StorageInv`, which
  follows the frames through the tiers. `FilesOk` is the shape of the directories whatever they
  hold. While no append followed a failed one, half a frame is only at the end of the last hot file
  (`HotOk`), the files that left are whole, in order and before what is hot (`MovedOk`), and
  each position of the log is held by some file or was deleted. A crash between the copy and the removal of a
  file leaves it in two tiers; only the first segment can stay so, or no restart succeeds any
  more (`Stuck`). While in addition all segments are hot they read as the log, the process knows
  its end, and index rows and snapshots that are not torn are true of it (`WholeOk`). That is what a
  restart reads: the chain verifies (`EntriesVerify`), the snapshot taken is a state of the
  log (`SnapshotOk`), and replaying the rest from it is replaying all (`ReplaySplits`). What the
  segments concatenate to is a recursive function of their ids, treated as the loops above.

### 5.5 `AgentProofs`

* `ToolsAlwaysSound` (`ToolsSound`). Who holds a permit, who stands in line and who left a slot
  behind are sets of callers; a step moves one caller, or two when a permit is passed on, so the
  counters stay equal to the sizes of the sets (`PathOk`). `BreakerOk`: a closed breaker counts
  only failures that happened, and all of this instant.
* `ServicesAlwaysSound` (`ServicesSound`). A request in a queue, at a service or answered is the
  one its client waits for, and there is one of them (`ReqsOk`); a client's program goes on call by
  call (`ClientsOk`); what a subscription gave and holds is a stretch of the published items without
  gap until it is cut (`SubsOk`).
* `GatewayAlwaysSound` (`GatewaySound`), from `LlmInv`, which has four parts.
  `GatewayOk`: a caller passes when fewer entries than the limit are in the window, and pruning
  from the front drops no entry of it, so what is in the window beyond the limit are callers
  that passed before one of them recorded; and a charge truncates two products.
  `ChargesOk`: a charge adds the same to the total and to at most one workspace.
  The conversation is a sequence of messages that can be said: `ToolsReachProviders` compares what
  either provider is sent with what was said. `StreamOk`: what a reader has and what the units
  left say make up the answer (`Owed`), the units left go on until one ends them and are silent
  after it (`Ending`), and a data line of Anthropic's comes after an event line of its type,
  whatever keep-alive comment is between them (`Framing`). `AnthropicBegins`, `OpenAiBegins`,
  `NdjsonBegins` and `StubBegins` show it of the start of an answer in each format.

`FlattenSeq` and `FoldSet` are defined by a `CHOOSE` of a recursive function. That there is one, and
what it computes, is shown by induction on sets as in 5.3 (`FlatteningRuns`, `SummingRuns`,
`SeqInduct`, `SubsetInduct`). The lemmas then work with replacements of elements by sequences
(`FlatMap`) and their laws. Requests and stretches of lines are such replacements.

### 5.6 `AccessProofs`

* `StartIsSound` (`StartSound`). `StartInv`: past the load the configuration is the accepted one,
  each stage of `cmd_serve` has the earlier ones behind it, and a server that was started is one
  whose address was compared.
* `TheLivingAuthenticate` (`OnlyTheLivingAuthenticate`). `CredentialInv`: a token in the tables
  has an id of its own, which was never ended.
* `AccessIsSound` (`AccessSound`). `AccessInv`: a send-once right is granted, held or spent, and
  a tracked failure is one of the address's own attempts. What an accepted taxonomy means follows
  from the loader's checks alone.
* `InboxStaysSorted`, `SecondCopies` (`SecondCopyWasWaiting`) and the refinement
  `InboxImplementsQueues`. `MailboxInv` says of the inbox *and of the one
  in the capture* that it is sorted by rank and arrival, that its numbers do not exceed
  the deliveries, and that an envelope that waits although its id was popped arrived
  before that pop; a restore exchanges the one for the other. The step of `PushInbox` needs
  the least position of a lower rank, which `LeastMember` gives from the
  well-foundedness of the finite subsets.

### 5.7 `ConsoleProofs`

* `HighwayIsSound` (`HighwaySound`). The invariant follows an event from the stream that carries
  it through the monitor's channel to the sockets: a resolution that travels is of a closed item
  (`WireInv`, `MonitorInv`, `ItemsInv`), and what a socket forwarded and what it was told to have
  missed add up to its position in the frames (`SocketInv`).
* `WalksAreExact` (`WalkExact`). The rows listed are those up to the cursor, and the cursor moves
  past every row it lists, while rows come, go and change their keys.

### 5.8 `ConsoleDataProofs`

* `ProfileVersionsAreSound` (`ProfilesSound`, with the action property `VersionsAppendOnly`). A
  handler that stands between `UPDATE` and `INSERT` makes the
  invariant: what it will insert has the id and the successor of a version that is in
  the table, so that after any interleaving either the primary key refuses the row or no
  other row is current; handlers that create stand for different ids. The rest says
  that a session's configuration changes only before its launch claimed it.
* `AccountsAreSound` (`AccountsSound`): a row is added after a check that was made statements
  earlier, so the bounds are on sums. `SessionBudget` counts the sessions of a user with the
  logins that have deleted the old ones and not yet inserted theirs, `FailureBudget` the
  failures with the logins that have passed the limit and may still record one; each insert
  moves one from the second summand to the first. `AuditStage` says that a request whose entry
  is still to be written has committed, `BootInv` that the bootstrap credential is made once.
* `LastAdminFallsToARace` (`LastAdminNeedsARace`) rests on `NeverCountedOne`: a request that counted
  one administrator stops at the check, while the statement that leaves none finds exactly one.
* `CatalogAlwaysSound` (`CatalogSound`). A search sorts what it found by a strict total order, so
  the entry at a rank is the one with that many better ones; the index served is one
  built from a list of verticals (`IndexOk`), and a pinned role is that of the pinned version (`LaunchOk`).

### 5.9 Assumptions

The assumptions are those of the modules, and TLC evaluates them in every run. Null values are
not ids (`NoneAssumption`, `NoMigrationAssumption`, `SessionAssumption`, `TopologyAssumption`,
`SchedulingAssumption`, `ResourcesAssumption`, `IntegrationAssumption`, `ServicesAssumption`).
Capacities, caps, segment sizes, the price unit and the hot limit are positive, other limits are
natural numbers (`CapsAssumption`, `TrailAssumption`, `TiersAssumption`, `ToolsAssumption`,
`LlmAssumption`, `HighwayAssumption`, `ClockAssumption`, `AccessAssumption`). Clients, callers,
cost centres, rows, artifacts, verticals and search entities are finitely many (`AccountsAssumption`,
`PagingAssumption`, `CatalogAssumption`). Requests are of the listed kinds (`OpsAssumption`).
A hot limit of 0 is the case section 4 names: it moves the active segment, and `NothingLost`
does not hold then.

### 5.10 Only model-checked

* liveness (`IntegratingCloses`, `EndedForgotten`, `CancelledStops`, `ShutdownEnds`),
  which the installed provers do not reach;
* the violation of `CancelledIsStopped` in `cancel_race`.

## 6. What is left out

Not modelled at all: the test support crates and the integration tests, `packages/`
(a TypeScript client with an executor of its own), `wacp-cli`, the Python SDK, the
frontend, OpenAPI generation, the secret store (one look-up) and the audit log writer of
`wacp-security`, OAuth (an HTTP client), the coordinator's event bus and the views of its
request handler, which the running system does not construct, the assembly of agent
context, the CSRF check, reads of a single item, and `inject_directive`.

Abstracted inside the modelled parts: payloads, names, goals and artifacts, of which no
decision the properties are about reads more than identity; wording of errors and
logs; YAML and JSON parsing, except where a conversion decides something (an unspecified
checkpoint status becomes Provisional for the actor but opens no gate; optional groups
of an exported profile; the two wire formats of the LLM providers). Collision of hashes. The limit of
1000 on the sessions a user owns. `GrantVisibility`, `UpdateBudget` and
`GracefulTermination` commands of the actor, which no code outside the tests sends. The
remaining `reconnect_*` functions of the pool, which have no caller.

## 7. Plan

1. An abstract specification of a workspace (a state machine observed by a lagging
   mirror) that `Runtime` implements.
2. The bounded mixes of requests in `runtime` with three workspaces.
