--------------------------- MODULE ConsoleSession ---------------------------
(***************************************************************************)
(* One session of the Console: its row in the database, the HTTP handlers  *)
(* that launch and cancel it, the monitor task that follows it, and the    *)
(* recovery the Console runs when it starts again.  The coordination       *)
(* runtime is external here: a workspace exists, is asked to abort, ends,  *)
(* or is lost when the runtime restarts.                                   *)
(*                                                                         *)
(* A handler takes one step per await, so two launches, two cancels, the   *)
(* monitor and the runtime interleave between them.  A call to the runtime *)
(* may fail before it runs or lose its reply, a query may fail, the        *)
(* Console may crash; these faults share a budget.  GrpcPool connects once *)
(* per start and never drops a client, so a launch that got past its first *)
(* use of the pool finds the client again when it rolls back.              *)
(***************************************************************************)
EXTENDS Naturals, FiniteSets, Sequences

CONSTANTS
  Launches,      \* the POST /launch requests
  Cancels,       \* the POST /cancel requests
  Ids,           \* bound: the workspace ids the runtime may allocate
  None,          \* no workspace id
  Slots,         \* the number of assignments of the session
  Streams,       \* the highway streams a monitor follows
  Changes,       \* the one that carries workspace changes
  FailureCap,    \* MonitorConfig.reconnect_failure_cap
  Pools,         \* bound: what GrpcPool.connect may connect, sets of clients
  MaxFaults      \* bound: the faults of one behaviour

ASSUME SessionAssumption ==
  /\ None \notin Ids
  /\ Slots \in Nat
  /\ Changes \in Streams
  /\ FailureCap \in Nat \ {0}
  /\ Pools \subseteq SUBSET {"coordinator", "highway"}
  /\ MaxFaults \in Nat

VARIABLES
  row,        \* sessions: state, coordinator_workspace_id, the assignments' ids
  launch,     \* the launch handlers
  cancel,     \* the cancel handlers
  mon,        \* the monitor task
  handle,     \* active_sessions has an entry
  boot,       \* the Console process: "down", "recover", "insert", "up"
  pool,       \* the clients GrpcPool connected at this start
  ws,         \* the runtime's workspaces
  faults,     \* faults so far
  excused,    \* history: workspaces a fault separated from the session
  unwatched   \* history: a fault left the ACTIVE session without a monitor

vars == <<row, launch, cancel, mon, handle, boot, pool, ws, faults, excused, unwatched>>
console == <<row, launch, cancel, mon, handle, boot, pool>>
history == <<excused, unwatched>>

States == {"configuring", "validating", "launching", "active",
           "completed", "failed", "cancelled"}
is_terminal(s) == s \in {"completed", "failed", "cancelled"}

LaunchSteps == {"idle", "claim", "validate", "load", "submit", "decompose", "dispatch",
                "finalize", "rollback", "fail", "spawn", "insert", "done"}
Launch == [pc : LaunchSteps, root : Ids \cup {None}, created : SUBSET Ids]
Cancel == [pc : {"idle", "abort", "mark", "cleanup", "done"},
           seen : States, root : Ids \cup {None}]
Monitor == [task : {"off", "seed", "watch", "record", "exited"},
            verdict : {"failed", "completed"}, stop : BOOLEAN,
            inbox : Seq({"closed", "failed", "fatal"}),
            up : SUBSET Streams, failures : [Streams -> 0..FailureCap]]
WsStates == {"absent", "live", "aborting", "closed", "failed", "lost"}
Running(w) == ws[w] \in {"live", "aborting"}

NoLaunch == [pc |-> "idle", root |-> None, created |-> {}]
NoCancel == [pc |-> "idle", seen |-> "configuring", root |-> None]
Monitored(task) ==
  [task |-> task, verdict |-> "failed", stop |-> FALSE, inbox |-> <<>>,
   up |-> {}, failures |-> [s \in Streams |-> 0]]

Init ==
  /\ row = [state |-> "configuring", root |-> None, workers |-> {}]
  /\ launch = [l \in Launches |-> NoLaunch]
  /\ cancel = [c \in Cancels |-> NoCancel]
  /\ mon = Monitored("off") /\ handle = FALSE
  /\ boot = "up" /\ pool \in Pools
  /\ ws = [w \in Ids |-> "absent"]
  /\ faults = 0 /\ excused = {} /\ unwatched = FALSE

\* UPDATE sessions SET state = to WHERE state = from
transition_state(from, to) == IF row.state = from THEN [row EXCEPT !.state = to] ELSE row

Fault == faults < MaxFaults /\ faults' = faults + 1

----------------------------------------------------------------------------
(* POST /launch and SessionLauncher *)

LaunchAt(l, pc) == boot = "up" /\ launch[l].pc = pc
\* a handler that returns drops its locals
Goto(l, pc) ==
  launch' = IF pc = "done" THEN [launch EXCEPT ![l] = [NoLaunch EXCEPT !.pc = "done"]]
            ELSE [launch EXCEPT ![l].pc = pc]

launch_session(l) ==
  /\ LaunchAt(l, "idle") /\ row.state = "configuring"
  /\ Goto(l, "claim")
  /\ UNCHANGED <<row, cancel, mon, handle, boot, pool, ws, faults, history>>

\* the Boolean of transition_state is dropped: a second launch passes too
Claim(l) ==
  /\ LaunchAt(l, "claim")
  /\ row' = transition_state("configuring", "validating")
  /\ Goto(l, "validate")
  /\ UNCHANGED <<cancel, mon, handle, boot, pool, ws, faults, history>>

Validate(l) ==
  /\ LaunchAt(l, "validate")
  /\ \/ row' = transition_state("validating", "configuring") /\ Goto(l, "done")
     \/ row' = transition_state("validating", "launching") /\ Goto(l, "load")
  /\ UNCHANGED <<cancel, mon, handle, boot, pool, ws, faults, history>>

\* PoolUnavailable returns without mark_failed
Load(l) ==
  /\ LaunchAt(l, "load")
  /\ Goto(l, IF row.state # "launching" THEN "done"
             ELSE IF Slots = 0 THEN "fail"
             ELSE IF "coordinator" \notin pool THEN "done"
             ELSE "submit")
  /\ UNCHANGED <<row, cancel, mon, handle, boot, pool, ws, faults, history>>

SubmitGoal(l) ==
  /\ LaunchAt(l, "submit")
  /\ \E w \in Ids :
       /\ ws[w] = "absent"
       /\ ws' = [ws EXCEPT ![w] = "live"]
       /\ launch' = [launch EXCEPT ![l] = [pc |-> "decompose", root |-> w, created |-> {w}]]
  /\ UNCHANGED <<row, cancel, mon, handle, boot, pool, faults, history>>

Decompose(l) ==
  /\ LaunchAt(l, "decompose")
  /\ Goto(l, "dispatch")
  /\ UNCHANGED <<row, cancel, mon, handle, boot, pool, ws, faults, history>>

Dispatch(l) ==
  /\ LaunchAt(l, "dispatch")
  /\ IF Cardinality(launch[l].created) = Slots + 1
     THEN Goto(l, "finalize") /\ UNCHANGED ws
     ELSE \E w \in Ids :
            /\ ws[w] = "absent"
            /\ ws' = [ws EXCEPT ![w] = "live"]
            /\ launch' = [launch EXCEPT ![l].created = @ \cup {w}]
  /\ UNCHANGED <<row, cancel, mon, handle, boot, pool, faults, history>>

\* an RPC of the launcher fails: not executed, or executed and its reply lost
LaunchRpcFails(l) ==
  /\ \E pc \in {"submit", "decompose", "dispatch"} : LaunchAt(l, pc)
  /\ Cardinality(launch[l].created) <= Slots
  /\ Fault
  /\ Goto(l, IF launch[l].pc = "submit" THEN "fail" ELSE "rollback")
  /\ \/ UNCHANGED <<ws, excused>>
     \/ /\ launch[l].pc # "decompose"
        /\ \E w \in Ids : /\ ws[w] = "absent"
                          /\ ws' = [ws EXCEPT ![w] = "live"]
                          /\ excused' = excused \cup {w}
  /\ UNCHANGED <<row, cancel, mon, handle, boot, pool, unwatched>>

\* Mutant: the update of finalize is not guarded by the state.
Mutant_FinalizeAnyState(l) ==
  /\ LaunchAt(l, "finalize")
  /\ row' = [state |-> "active", root |-> launch[l].root,
             workers |-> launch[l].created \ {launch[l].root}]
  /\ Goto(l, "spawn")
  /\ UNCHANGED <<cancel, mon, handle, boot, pool, ws, faults, history>>

\* one transaction, guarded by the state
Finalize(l) ==
  /\ LaunchAt(l, "finalize")
  /\ IF row.state = "launching"
     THEN /\ row' = [state |-> "active", root |-> launch[l].root,
                     workers |-> launch[l].created \ {launch[l].root}]
          /\ Goto(l, "spawn")
     ELSE Goto(l, "rollback") /\ UNCHANGED row
  /\ UNCHANGED <<cancel, mon, handle, boot, pool, ws, faults, history>>

\* AbortWorkspace answers Ok for a workspace that is not there
Aborted(w) == IF w \in Ids /\ ws[w] = "live" THEN [ws EXCEPT ![w] = "aborting"] ELSE ws

\* one abort of the rollback; a failed one is tolerated
Rollback(l) ==
  /\ LaunchAt(l, "rollback")
  /\ IF launch[l].created = {}
     THEN Goto(l, "fail") /\ UNCHANGED <<ws, excused, faults>>
     ELSE \E w \in launch[l].created :
            /\ launch' = [launch EXCEPT ![l].created = @ \ {w}]
            /\ \/ ws' = Aborted(w) /\ UNCHANGED <<excused, faults>>
               \/ Fault /\ excused' = excused \cup {w} /\ UNCHANGED ws
  /\ UNCHANGED <<row, cancel, mon, handle, boot, pool, unwatched>>

mark_failed(l) ==
  /\ LaunchAt(l, "fail")
  /\ row' = transition_state("launching", "failed")
  /\ Goto(l, "done")
  /\ UNCHANGED <<cancel, mon, handle, boot, pool, ws, faults, history>>

\* a query fails: every step returns it but finalize, which rolls back
LaunchDbFails(l) ==
  /\ \E pc \in {"claim", "validate", "load", "decompose", "finalize", "fail"} : LaunchAt(l, pc)
  /\ Fault
  /\ IF launch[l].pc = "finalize"
     THEN Goto(l, "rollback") /\ UNCHANGED excused
     ELSE Goto(l, "done") /\ excused' = excused \cup launch[l].created
  /\ UNCHANGED <<row, cancel, mon, handle, boot, pool, ws, unwatched>>

Spawn(l) ==
  /\ LaunchAt(l, "spawn")
  /\ mon' = Monitored("seed")
  /\ Goto(l, "insert")
  /\ UNCHANGED <<row, cancel, handle, boot, pool, ws, faults, history>>

Insert(l) ==
  /\ LaunchAt(l, "insert")
  /\ handle' = TRUE
  /\ Goto(l, "done")
  /\ UNCHANGED <<row, cancel, mon, boot, pool, ws, faults, history>>

----------------------------------------------------------------------------
(* POST /cancel *)

CancelAt(c, pc) == boot = "up" /\ cancel[c].pc = pc
CancelReturns(c) == cancel' = [cancel EXCEPT ![c] = [NoCancel EXCEPT !.pc = "done"]]

cancel_session(c) ==
  /\ CancelAt(c, "idle") /\ ~is_terminal(row.state)
  /\ cancel' = [cancel EXCEPT ![c] =
       [pc |-> IF row.state = "active" THEN "abort" ELSE "mark",
        seen |-> row.state, root |-> row.root]]
  /\ UNCHANGED <<row, launch, mon, handle, boot, pool, ws, faults, history>>

\* Mutant: a failed abort goes on to the cleanup.
Mutant_SwallowAbortError(c) ==
  /\ CancelAt(c, "abort")
  /\ \/ /\ "coordinator" \in pool
        /\ ws' = Aborted(cancel[c].root)
        /\ cancel' = [cancel EXCEPT ![c].pc = "mark"]
     \/ UNCHANGED ws /\ cancel' = [cancel EXCEPT ![c].pc = "cleanup"]
  /\ UNCHANGED <<row, launch, mon, handle, boot, pool, faults, history>>

\* the required abort, before the row: a runtime that is away ends the request
CancelAbort(c) ==
  /\ CancelAt(c, "abort")
  /\ \/ /\ "coordinator" \in pool
        /\ ws' = Aborted(cancel[c].root)
        /\ cancel' = [cancel EXCEPT ![c].pc = "mark"]
        /\ UNCHANGED faults
     \/ /\ "coordinator" \notin pool
        /\ CancelReturns(c)
        /\ UNCHANGED <<ws, faults>>
     \/ /\ "coordinator" \in pool /\ Fault
        /\ CancelReturns(c)
        /\ ws' \in {ws, Aborted(cancel[c].root)}
  /\ UNCHANGED <<row, launch, mon, handle, boot, pool, history>>

\* sessions::cancel, from whatever state the row has by now
CancelMark(c) ==
  /\ CancelAt(c, "mark")
  /\ \/ /\ ~is_terminal(row.state)
        /\ row' = [row EXCEPT !.state = "cancelled"]
        /\ cancel' = [cancel EXCEPT ![c].pc = "cleanup"]
        /\ UNCHANGED faults
     \/ /\ is_terminal(row.state)
        /\ CancelReturns(c)
        /\ UNCHANGED <<row, faults>>
     \/ /\ Fault
        /\ CancelReturns(c)
        /\ UNCHANGED row
  /\ UNCHANGED <<launch, mon, handle, boot, pool, ws, history>>

\* the best-effort abort uses the id read with the LAUNCHING row; then the
\* monitor's handle is taken out of the map and told to shut down
CancelCleanup(c) ==
  /\ CancelAt(c, "cleanup")
  /\ ws' = IF cancel[c].seen = "launching" /\ cancel[c].root # None /\ "coordinator" \in pool
           THEN Aborted(cancel[c].root) ELSE ws
  /\ handle' = FALSE
  /\ mon' = IF handle THEN [mon EXCEPT !.stop = TRUE] ELSE mon
  /\ CancelReturns(c)
  /\ UNCHANGED <<row, launch, boot, pool, faults, history>>

----------------------------------------------------------------------------
(* The session monitor *)

\* labels seeded, the drivers are spawned
MonitorStart ==
  /\ mon.task = "seed"
  /\ mon' = [mon EXCEPT !.task = "watch"]
  /\ UNCHANGED <<row, launch, cancel, handle, boot, pool, ws, faults, history>>

\* Mutant: the driver does not return at the cap.
Mutant_DriveForever(s) == mon.task \in {"watch", "record"}

Driving(s) == mon.task \in {"watch", "record"} /\ mon.failures[s] < FailureCap

Subscribe(s) ==
  /\ Driving(s) /\ s \notin mon.up /\ "highway" \in pool
  /\ mon' = [mon EXCEPT !.up = @ \cup {s}]
  /\ UNCHANGED <<row, launch, cancel, handle, boot, pool, ws, faults, history>>

\* a stream that ends and a subscription that fails count alike, for ever
run_stream_driver(s) ==
  /\ Driving(s)
  /\ mon' = [mon EXCEPT !.up = @ \ {s}, !.failures[s] = @ + 1,
                        !.inbox = IF mon.failures[s] + 1 = FailureCap
                                  THEN Append(@, "fatal") ELSE @]
  /\ UNCHANGED <<row, launch, cancel, handle, boot, pool, ws, faults, history>>

\* commands come first
MonitorShutdown ==
  /\ mon.task = "watch" /\ mon.stop
  /\ mon' = Monitored("exited")
  /\ UNCHANGED <<row, launch, cancel, handle, boot, pool, ws, faults, history>>

\* Mutant: only a FAILED root fails the session.
Mutant_FatalCompletes ==
  /\ mon.task = "watch" /\ ~mon.stop /\ mon.inbox # <<>>
  /\ mon' = [mon EXCEPT !.task = "record", !.inbox = Tail(@),
               !.verdict = IF Head(mon.inbox) = "failed" THEN "failed" ELSE "completed"]
  /\ UNCHANGED <<row, launch, cancel, handle, boot, pool, ws, faults, history>>

handle_event ==
  /\ mon.task = "watch" /\ ~mon.stop /\ mon.inbox # <<>>
  /\ mon' = [mon EXCEPT !.task = "record", !.inbox = Tail(@),
               !.verdict = IF Head(mon.inbox) = "closed" THEN "completed" ELSE "failed"]
  /\ UNCHANGED <<row, launch, cancel, handle, boot, pool, ws, faults, history>>

\* Mutant: the verdict is written whatever the state.
Mutant_RecordAlways ==
  /\ mon.task = "record"
  /\ mon' = Monitored("exited")
  /\ row' = [row EXCEPT !.state = mon.verdict]
  /\ UNCHANGED <<launch, cancel, handle, boot, pool, ws, faults, history>>

record_terminal ==
  /\ mon.task = "record"
  /\ mon' = Monitored("exited")
  /\ \/ row' = transition_state("active", mon.verdict) /\ UNCHANGED <<faults, unwatched>>
     \/ Fault /\ unwatched' = TRUE /\ UNCHANGED row
  /\ UNCHANGED <<launch, cancel, handle, boot, pool, ws, excused>>

\* the task that joins the monitor; a launch starts it after the insertion
Watchdog ==
  /\ mon.task = "exited" /\ \A l \in Launches : launch[l].pc # "insert"
  /\ mon' = Monitored("off")
  /\ handle' = FALSE
  /\ UNCHANGED <<row, launch, cancel, boot, pool, ws, faults, history>>

----------------------------------------------------------------------------
(* The runtime, from how the Console uses it *)

\* The Console tells the two ends of a root apart, never those of a worker.
\* A terminal change of the root reaches a subscribed monitor, or is dropped.
EndWorkspace(w) ==
  /\ Running(w)
  /\ \E end \in {"failed"} \cup
         IF w = row.root \/ \E l \in Launches : w = launch[l].root THEN {"closed"} ELSE {} :
       /\ ws' = [ws EXCEPT ![w] = end]
       /\ mon' \in {mon} \cup
            IF w = row.root /\ mon.task \in {"watch", "record"} /\ Changes \in mon.up
            THEN {[mon EXCEPT !.inbox = Append(@, end)]} ELSE {}
  /\ UNCHANGED <<row, launch, cancel, handle, boot, pool, faults, history>>

\* a restart of the runtime forgets its workspaces
RuntimeRestart ==
  /\ \E w \in Ids : ws[w] \notin {"absent", "lost"}
  /\ ws' = [w \in Ids |-> IF ws[w] = "absent" THEN "absent" ELSE "lost"]
  /\ UNCHANGED <<console, faults, history>>

----------------------------------------------------------------------------
(* Crash, start and recovery of the Console *)

Holds(l) == launch[l].pc \in {"decompose", "dispatch", "finalize", "rollback"}

Crash ==
  /\ boot # "down" /\ Fault
  /\ boot' = "down"
  /\ mon' = Monitored("off") /\ handle' = FALSE
  /\ excused' = excused \cup UNION {launch[l].created : l \in {k \in Launches : Holds(k)}}
  /\ launch' = [l \in Launches |-> IF launch[l].pc = "idle" THEN launch[l]
                                   ELSE [NoLaunch EXCEPT !.pc = "done"]]
  /\ cancel' = [c \in Cancels |-> IF cancel[c].pc = "idle" THEN cancel[c]
                                  ELSE [NoCancel EXCEPT !.pc = "done"]]
  /\ UNCHANGED <<row, pool, ws, unwatched>>

Start ==
  /\ boot = "down"
  /\ boot' = "recover"
  /\ pool' \in Pools
  /\ unwatched' = FALSE
  /\ UNCHANGED <<row, launch, cancel, mon, handle, ws, faults, excused>>

Recovered == boot' = "up" /\ UNCHANGED <<launch, cancel, mon, handle, pool, ws, excused>>

\* only ACTIVE rows are listed
NothingToRecover ==
  /\ boot = "recover" /\ row.state # "active"
  /\ Recovered /\ UNCHANGED <<row, faults, unwatched>>

\* no client, Unavailable, or a query that fails: the row stays ACTIVE
RecoverySkips ==
  /\ boot = "recover" /\ row.state = "active"
  /\ unwatched' = TRUE
  /\ Recovered /\ UNCHANGED <<row, faults>>

\* NotFound for a lost root, or any other error of the runtime
RecoveryFails ==
  /\ boot = "recover" /\ row.state = "active" /\ "highway" \in pool
  /\ row' = transition_state("active", "failed")
  /\ Recovered /\ UNCHANGED <<faults, unwatched>>

RecoverySyncs ==
  /\ boot = "recover" /\ row.state = "active" /\ "highway" \in pool
  /\ ws[row.root] \in {"closed", "failed"}
  /\ row' = transition_state("active", IF ws[row.root] = "failed" THEN "failed" ELSE "completed")
  /\ Recovered /\ UNCHANGED <<faults, unwatched>>

\* respawn; the watchdog is started before the insertion
RecoveryResumes ==
  /\ boot = "recover" /\ row.state = "active" /\ "highway" \in pool
  /\ Running(row.root)
  /\ mon' = Monitored("seed")
  /\ boot' = "insert"
  /\ UNCHANGED <<row, launch, cancel, handle, pool, ws, faults, history>>

RecoveryInserts ==
  /\ boot = "insert"
  /\ handle' = TRUE
  /\ boot' = "up"
  /\ UNCHANGED <<row, launch, cancel, mon, pool, ws, faults, history>>

recover_one ==
  \/ NothingToRecover \/ RecoverySkips \/ RecoveryFails \/ RecoverySyncs
  \/ RecoveryResumes \/ RecoveryInserts

Next ==
  \/ \E l \in Launches :
       \/ launch_session(l) \/ Claim(l) \/ Validate(l) \/ Load(l) \/ SubmitGoal(l)
       \/ Decompose(l) \/ Dispatch(l) \/ LaunchRpcFails(l) \/ Finalize(l) \/ Rollback(l)
       \/ mark_failed(l) \/ LaunchDbFails(l) \/ Spawn(l) \/ Insert(l)
  \/ \E c \in Cancels :
       cancel_session(c) \/ CancelAbort(c) \/ CancelMark(c) \/ CancelCleanup(c)
  \/ MonitorStart \/ MonitorShutdown \/ handle_event \/ record_terminal \/ Watchdog
  \/ \E s \in Streams : Subscribe(s) \/ run_stream_driver(s)
  \/ \E w \in Ids : EndWorkspace(w)
  \/ RuntimeRestart \/ Crash \/ Start \/ recover_one

Spec == Init /\ [][Next]_vars

----------------------------------------------------------------------------
(* Properties *)

\* Types, with every stream driver within reconnect_failure_cap: at the cap it
\* reports a fatal error and returns (run_stream_driver).
SessionTypeOK ==
  /\ row \in [state : States, root : Ids \cup {None}, workers : SUBSET Ids]
  /\ launch \in [Launches -> Launch] /\ cancel \in [Cancels -> Cancel]
  /\ mon \in Monitor /\ handle \in BOOLEAN
  /\ boot \in {"down", "recover", "insert", "up"}
  /\ pool \in SUBSET {"coordinator", "highway"}
  /\ ws \in [Ids -> WsStates]
  /\ faults \in 0..MaxFaults /\ excused \in SUBSET Ids /\ unwatched \in BOOLEAN

\* Whatever two launches and a cancel do to each other, no workspace is left
\* behind without a fault: one that runs and was not asked to stop belongs to a
\* launch that can still roll it back, or the session row records it.
NoSilentLeak ==
  \A w \in Ids : ws[w] = "live" =>
    \/ \E l \in Launches : Holds(l) /\ w \in launch[l].created
    \/ row.root = w \/ w \in row.workers
    \/ w \in excused

\* While the Console serves, an ACTIVE session has its monitor and clients find
\* it in active_sessions, up to the launch that is about to insert it.
ActiveIsWatched ==
  boot = "up" /\ row.state = "active" /\ ~unwatched =>
    \/ mon.task \in {"seed", "watch", "record"} /\ ~mon.stop /\ handle
    \/ \E l \in Launches : launch[l].pc \in {"spawn", "insert"}

\* A session reads COMPLETED only when its root workspace closed.
CompletedIsClosed == row.state = "completed" => ws[row.root] \in {"closed", "lost"}

\* Launch, cancel, monitor and recovery all write the state: none of them
\* moves a session out of a terminal state or rewrites what it recorded.
TerminalFinality == [][is_terminal(row.state) => row' = row]_vars

\* A cancel that was answered leaves no session marked CANCELLED whose root
\* goes on in the runtime, as the comment of the required abort says.
CancelledIsStopped ==
  row.state = "cancelled" /\ row.root # None /\ faults = 0
    /\ (\A c \in Cancels : cancel[c].pc \in {"idle", "done"})
    /\ (\A l \in Launches : launch[l].pc \in {"idle", "done"})
  => ws[row.root] # "live"
============================================================================
