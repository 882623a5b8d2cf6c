------------------------ MODULE ConsoleSessionProofs ------------------------
(***************************************************************************)
(* Proofs about ConsoleSession, for any number of requests, workspaces,    *)
(* assignments, streams and faults.  No leak without a fault is inductive  *)
(* once it is known that a row that is not yet ACTIVE records no           *)
(* workspace: finalize then never overwrites a record.  That COMPLETED     *)
(* means closed and ACTIVE means watched needs to follow the news of the   *)
(* root through the monitor's channel, and the monitor from its spawn to   *)
(* its entry in the map (WatchInv).                                        *)
(***************************************************************************)
EXTENDS ConsoleSession, TLAPS

\* A row records workspaces only once it was ACTIVE: finalize writes both.
RecordedOnce ==
  row.state \in {"configuring", "validating", "launching"} => row.root = None /\ row.workers = {}

SessionInv == SessionTypeOK /\ RecordedOnce /\ NoSilentLeak

\* The recorded root closed, and nothing makes it run again.
ClosedRoot == row.root \in Ids /\ ws[row.root] \in {"closed", "lost"}

\* A launch past SubmitGoal knows the root it created, and so does the row.
RootKnown ==
  /\ \A l \in Launches : launch[l].pc \in {"decompose", "dispatch", "finalize"} => launch[l].root \in Ids
  /\ row.state = "active" => row.root \in Ids

\* "closed" reaches the monitor, and becomes its verdict, only of the recorded
\* root; a row is COMPLETED for no other reason.
ClosedNews ==
  \/ ClosedRoot
  \/ /\ \A i \in DOMAIN mon.inbox : mon.inbox[i] # "closed"
     /\ mon.task = "record" => mon.verdict = "failed"
     /\ row.state # "completed"

\* A monitor is told to stop only after the row was marked.
StopsCancelled ==
  /\ mon.stop => row.state = "cancelled"
  /\ \A c \in Cancels : cancel[c].pc = "cleanup" => row.state = "cancelled"

WatchTasks == {"seed", "watch", "record"}

\* An ACTIVE session waits for a launch's spawn, or has a running monitor that
\* clients find in the map, or that a launch or the recovery is about to insert.
Watched ==
  row.state = "active" /\ ~unwatched =>
    /\ boot = "up" =>
         \/ \E l \in Launches : launch[l].pc = "spawn"
         \/ mon.task \in WatchTasks /\ (handle \/ \E l \in Launches : launch[l].pc = "insert")
    /\ boot = "insert" => mon.task \in WatchTasks

WatchInv == RootKnown /\ ClosedNews /\ StopsCancelled /\ Watched

\* A monitor that was just spawned has its type.
LEMMA MonitoredType ==
  ASSUME NEW task \in {"off", "seed", "watch", "record", "exited"}
  PROVE  Monitored(task) \in Monitor
BY SessionAssumption DEF Monitored, Monitor

\* A fault keeps the budget.
LEMMA FaultType ==
  ASSUME SessionTypeOK, Fault
  PROVE  faults' \in 0..MaxFaults
BY SessionAssumption DEF SessionTypeOK, Fault

\* The steps of a launch handler keep the types.
LEMMA LaunchTypes ==
  ASSUME SessionTypeOK, NEW l \in Launches,
         \/ launch_session(l) \/ Claim(l) \/ Validate(l) \/ Load(l) \/ SubmitGoal(l)
         \/ Decompose(l) \/ Dispatch(l) \/ LaunchRpcFails(l) \/ Finalize(l) \/ Rollback(l)
         \/ mark_failed(l) \/ LaunchDbFails(l) \/ Spawn(l) \/ Insert(l)
  PROVE  SessionTypeOK'
<1> USE SessionAssumption DEF SessionTypeOK, Launch, LaunchSteps, LaunchAt, history
<1>a. launch[l] \in Launch
  OBVIOUS
<1>b. launch[l].created \in SUBSET Ids /\ launch[l].root \in Ids \cup {None}
  BY <1>a
<1>c. ASSUME NEW pc \in LaunchSteps, Goto(l, pc)
      PROVE  launch' \in [Launches -> Launch]
  BY <1>a, <1>c DEF Goto, NoLaunch
<1>d. ASSUME NEW from \in States, NEW to \in States
      PROVE  transition_state(from, to) \in [state : States, root : Ids \cup {None}, workers : SUBSET Ids]
  BY DEF transition_state
<1>1. CASE launch_session(l)
  BY <1>1, <1>c DEF launch_session
<1>2. CASE Claim(l)
  BY <1>2, <1>c, <1>d DEF Claim, States
<1>3. CASE Validate(l)
  BY <1>3, <1>c, <1>d DEF Validate, States
<1>4. CASE Load(l)
  BY <1>4, <1>c DEF Load
<1>5. CASE SubmitGoal(l)
  BY <1>5 DEF SubmitGoal, WsStates
<1>6. CASE Decompose(l)
  BY <1>6, <1>c DEF Decompose
<1>7. CASE Dispatch(l)
  BY <1>7, <1>a, <1>c DEF Dispatch, WsStates
<1>8. CASE LaunchRpcFails(l)
  BY <1>8, <1>c DEF LaunchRpcFails, Fault, WsStates
<1>9. CASE Finalize(l)
  BY <1>9, <1>b, <1>c DEF Finalize, States
<1>10. CASE Rollback(l)
  BY <1>10, <1>a, <1>b, <1>c DEF Rollback, Fault, Aborted, WsStates
<1>11. CASE mark_failed(l)
  BY <1>11, <1>c, <1>d DEF mark_failed, States
<1>12. CASE LaunchDbFails(l)
  BY <1>12, <1>b, <1>c DEF LaunchDbFails, Fault
<1>13. CASE Spawn(l)
  BY <1>13, <1>c, MonitoredType DEF Spawn
<1>14. CASE Insert(l)
  BY <1>14, <1>c DEF Insert
<1> QED
  BY <1>1, <1>2, <1>3, <1>4, <1>5, <1>6, <1>7, <1>8, <1>9, <1>10, <1>11, <1>12, <1>13, <1>14

\* The steps of a cancel handler keep the types.
LEMMA CancelTypes ==
  ASSUME SessionTypeOK, NEW c \in Cancels,
         cancel_session(c) \/ CancelAbort(c) \/ CancelMark(c) \/ CancelCleanup(c)
  PROVE  SessionTypeOK'
<1> USE SessionAssumption DEF SessionTypeOK, Cancel, CancelAt, history
<1>a. CancelReturns(c) => cancel' \in [Cancels -> Cancel]
  BY DEF CancelReturns, NoCancel, States
<1>b. \A w : Aborted(w) \in [Ids -> WsStates]
  BY DEF Aborted, WsStates
<1>1. CASE cancel_session(c)
  BY <1>1 DEF cancel_session
<1>2. CASE CancelAbort(c)
  BY <1>2, <1>a, <1>b DEF CancelAbort, Fault
<1>3. CASE CancelMark(c)
  BY <1>3, <1>a DEF CancelMark, Fault, States
<1>4. CASE CancelCleanup(c)
  <2>1. mon' \in Monitor
    <3>1. [mon EXCEPT !.stop = TRUE] \in Monitor
      BY DEF Monitor
    <3> QED
      BY <1>4, <3>1 DEF CancelCleanup
  <2> QED
    BY <1>4, <1>a, <1>b, <2>1 DEF CancelCleanup
<1> QED
  BY <1>1, <1>2, <1>3, <1>4

\* The steps of the monitor and of its streams keep the types.
LEMMA MonitorTypes ==
  ASSUME SessionTypeOK,
         \/ MonitorStart \/ MonitorShutdown \/ handle_event \/ record_terminal \/ Watchdog
         \/ \E s \in Streams : Subscribe(s) \/ run_stream_driver(s)
  PROVE  SessionTypeOK'
<1> USE SessionAssumption DEF SessionTypeOK, history
<1>1. CASE MonitorStart
  BY <1>1 DEF MonitorStart, Monitor
<1>2. CASE MonitorShutdown
  BY <1>2, MonitoredType DEF MonitorShutdown
<1>3. CASE handle_event
  <2>1. Tail(mon.inbox) \in Seq({"closed", "failed", "fatal"})
    BY <1>3 DEF handle_event, Monitor
  <2>2. \A q \in Seq({"closed", "failed", "fatal"}), v \in {"failed", "completed"} :
          [mon EXCEPT !.task = "record", !.inbox = q, !.verdict = v] \in Monitor
    BY DEF Monitor
  <2>3. mon' \in Monitor
    BY <1>3, <2>1, <2>2 DEF handle_event
  <2> QED
    BY <1>3, <2>3 DEF handle_event
<1>4. CASE record_terminal
  <2>1. mon.verdict \in States
    BY DEF Monitor, States
  <2>2. transition_state("active", mon.verdict) \in [state : States, root : Ids \cup {None}, workers : SUBSET Ids]
    BY <2>1 DEF transition_state
  <2>3. mon' \in Monitor
    BY <1>4, MonitoredType DEF record_terminal
  <2>4. faults' \in 0..MaxFaults /\ unwatched' \in BOOLEAN
    BY <1>4, FaultType DEF record_terminal
  <2> QED
    BY <1>4, <2>2, <2>3, <2>4 DEF record_terminal
<1>5. CASE Watchdog
  BY <1>5, MonitoredType DEF Watchdog
<1>6. ASSUME NEW s \in Streams, Subscribe(s)
      PROVE  SessionTypeOK'
  BY <1>6 DEF Subscribe, Monitor
<1>7. ASSUME NEW s \in Streams, run_stream_driver(s)
      PROVE  SessionTypeOK'
  <2>1. mon.failures[s] + 1 \in 0..FailureCap
    <3>1. mon.failures \in [Streams -> 0..FailureCap]
      BY DEF Monitor
    <3>2. mon.failures[s] \in 0..FailureCap
      BY <3>1
    <3>3. mon.failures[s] < FailureCap
      BY <1>7 DEF run_stream_driver, Driving
    <3>4. FailureCap \in Nat
      BY SessionAssumption
    <3> HIDE DEF SessionTypeOK
    <3> QED
      BY <3>2, <3>3, <3>4
  <2>2. Append(mon.inbox, "fatal") \in Seq({"closed", "failed", "fatal"})
    BY DEF Monitor
  <2>3. \A n \in 0..FailureCap, q \in Seq({"closed", "failed", "fatal"}) :
          [mon EXCEPT !.up = @ \ {s}, !.failures[s] = n, !.inbox = q] \in Monitor
    BY DEF Monitor
  <2>4. mon' = [mon EXCEPT !.up = @ \ {s}, !.failures[s] = mon.failures[s] + 1,
                  !.inbox = IF mon.failures[s] + 1 = FailureCap
                            THEN Append(mon.inbox, "fatal") ELSE mon.inbox]
    BY <1>7 DEF run_stream_driver
  <2>5. mon.inbox \in Seq({"closed", "failed", "fatal"})
    BY DEF Monitor
  <2>6. mon' \in Monitor
    BY <2>1, <2>2, <2>3, <2>4, <2>5
  <2> QED
    BY <1>7, <2>6 DEF run_stream_driver
<1> QED
  BY <1>1, <1>2, <1>3, <1>4, <1>5, <1>6, <1>7

\* The steps of the runtime, a crash, a start and recovery keep the types.
LEMMA ProcessTypes ==
  ASSUME SessionTypeOK,
         \/ \E w \in Ids : EndWorkspace(w)
         \/ RuntimeRestart \/ Crash \/ Start \/ recover_one
  PROVE  SessionTypeOK'
<1> USE SessionAssumption DEF SessionTypeOK, history
<1>d. ASSUME NEW to \in States
      PROVE  transition_state("active", to) \in [state : States, root : Ids \cup {None}, workers : SUBSET Ids]
  BY DEF transition_state
<1>1. ASSUME NEW w \in Ids, EndWorkspace(w)
      PROVE  SessionTypeOK'
  <2>1. PICK end \in {"closed", "failed"} :
          /\ ws' = [ws EXCEPT ![w] = end]
          /\ mon' = mon \/ mon' = [mon EXCEPT !.inbox = Append(mon.inbox, end)]
    BY <1>1 DEF EndWorkspace
  <2>2. ws' \in [Ids -> WsStates]
    BY <2>1 DEF WsStates
  <2>3. mon' \in Monitor
    <3>1. Append(mon.inbox, end) \in Seq({"closed", "failed", "fatal"})
      BY DEF Monitor
    <3>2. \A q \in Seq({"closed", "failed", "fatal"}) : [mon EXCEPT !.inbox = q] \in Monitor
      BY DEF Monitor
    <3>3. mon \in Monitor
      OBVIOUS
    <3> QED
      BY <2>1, <3>1, <3>2, <3>3 DEF Monitor
  <2> QED
    BY <1>1, <2>2, <2>3 DEF EndWorkspace
<1>2. CASE RuntimeRestart
  BY <1>2 DEF RuntimeRestart, console, WsStates
<1>3. CASE Crash
  <2>1. launch' \in [Launches -> Launch] /\ cancel' \in [Cancels -> Cancel]
    BY <1>3 DEF Crash, Launch, LaunchSteps, Cancel, NoLaunch, NoCancel, States
  <2>2. \A l \in Launches : launch[l].created \in SUBSET Ids
    BY DEF Launch
  <2>3. excused' \in SUBSET Ids
    BY <1>3, <2>2 DEF Crash
  <2>4. mon' \in Monitor
    BY <1>3, MonitoredType DEF Crash
  <2>5. faults' \in 0..MaxFaults
    BY <1>3, FaultType DEF Crash
  <2> QED
    BY <1>3, <2>1, <2>3, <2>4, <2>5 DEF Crash
<1>4. CASE Start
  BY <1>4 DEF Start
<1>5. CASE recover_one
  <2>1. CASE NothingToRecover
    BY <2>1 DEF NothingToRecover, Recovered
  <2>2. CASE RecoverySkips
    BY <2>2 DEF RecoverySkips, Recovered
  <2>3. CASE RecoveryFails
    BY <2>3, <1>d DEF RecoveryFails, Recovered, States
  <2>4. CASE RecoverySyncs
    BY <2>4, <1>d DEF RecoverySyncs, Recovered, States
  <2>5. CASE RecoveryResumes
    BY <2>5, MonitoredType DEF RecoveryResumes
  <2>6. CASE RecoveryInserts
    BY <2>6 DEF RecoveryInserts
  <2> QED
    BY <1>5, <2>1, <2>2, <2>3, <2>4, <2>5, <2>6 DEF recover_one
<1> QED
  BY <1>1, <1>2, <1>3, <1>4, <1>5

\* The initial states have their types.
LEMMA SessionTypeInit ==
  ASSUME Init
  PROVE  SessionTypeOK
<1>1. launch \in [Launches -> Launch] /\ cancel \in [Cancels -> Cancel]
  BY DEF Init, NoLaunch, NoCancel, Launch, LaunchSteps, Cancel, States
<1>2. mon \in Monitor
  BY MonitoredType DEF Init
<1>3. row \in [state : States, root : Ids \cup {None}, workers : SUBSET Ids]
  BY DEF Init, States
<1>4. pool \in SUBSET {"coordinator", "highway"} /\ ws \in [Ids -> WsStates]
  BY SessionAssumption DEF Init, WsStates
<1>5. faults \in 0..MaxFaults /\ excused \in SUBSET Ids
  BY SessionAssumption DEF Init
<1> QED
  BY <1>1, <1>2, <1>3, <1>4, <1>5 DEF Init, SessionTypeOK

\* Type correctness of the session, its handlers, its monitor and its process,
\* with every stream within the reconnect cap, for all values of the constants.
THEOREM SessionTypeCorrect == Spec => []SessionTypeOK
<1>1. Init => SessionTypeOK
  BY SessionTypeInit
<1>2. SessionTypeOK /\ [Next]_vars => SessionTypeOK'
  <2> SUFFICES ASSUME SessionTypeOK, [Next]_vars PROVE SessionTypeOK'
    OBVIOUS
  <2>1. CASE Next
    BY <2>1, LaunchTypes, CancelTypes, MonitorTypes, ProcessTypes DEF Next
  <2>2. CASE UNCHANGED vars
    BY <2>2 DEF vars, SessionTypeOK
  <2> QED
    BY <2>1, <2>2
<1> QED
  BY <1>1, <1>2, PTL DEF Spec

----------------------------------------------------------------------------
(* No leak without a fault *)

\* A state change that is not finalize's leaves the records alone and does not
\* come back to a state before ACTIVE: cancel, the monitor and recovery.
Closes ==
  /\ row'.root = row.root /\ row'.workers = row.workers
  /\ row'.state \in {"configuring", "validating", "launching"}
       => row.state \in {"configuring", "validating", "launching"}
  /\ row'.state = "active" => row.state = "active"

\* The guarded updates between two constants, but for the entry into ACTIVE.
LEMMA TransitionCloses ==
  ASSUME SessionTypeOK, NEW from \in States, NEW to \in States,
         row' = transition_state(from, to), to # "active",
         to \in {"configuring", "validating", "launching"}
           => from \in {"configuring", "validating", "launching"}
  PROVE  Closes
BY DEF transition_state, Closes, SessionTypeOK

\* Every step but finalize's only closes the row.
LEMMA OnlyFinalizeRecords ==
  ASSUME SessionTypeOK, Next, ~ \E l \in Launches : Finalize(l)
  PROVE  Closes
<1>0. UNCHANGED row => Closes
  BY DEF Closes
<1>1. ASSUME NEW l \in Launches,
             \/ launch_session(l) \/ Claim(l) \/ Validate(l) \/ Load(l) \/ SubmitGoal(l)
             \/ Decompose(l) \/ Dispatch(l) \/ LaunchRpcFails(l) \/ Rollback(l)
             \/ mark_failed(l) \/ LaunchDbFails(l) \/ Spawn(l) \/ Insert(l)
      PROVE  Closes
  <2>1. CASE Claim(l) \/ Validate(l) \/ mark_failed(l)
    BY <2>1, TransitionCloses DEF Claim, Validate, mark_failed, States
  <2>2. CASE ~(Claim(l) \/ Validate(l) \/ mark_failed(l))
    BY <1>0, <1>1, <2>2 DEF launch_session, Load, SubmitGoal, Decompose, Dispatch, LaunchRpcFails,
       Rollback, LaunchDbFails, Spawn, Insert
  <2> QED
    BY <2>1, <2>2
<1>2. ASSUME NEW c \in Cancels, cancel_session(c) \/ CancelAbort(c) \/ CancelMark(c) \/ CancelCleanup(c)
      PROVE  Closes
  <2>1. CASE CancelMark(c)
    BY <2>1, <1>0 DEF CancelMark, Closes, SessionTypeOK
  <2> QED
    BY <1>0, <1>2, <2>1 DEF cancel_session, CancelAbort, CancelCleanup
<1>3. CASE record_terminal
  <2>1. mon.verdict \in {"failed", "completed"}
    BY DEF SessionTypeOK, Monitor
  <2> QED
    BY <1>0, <1>3, <2>1, TransitionCloses DEF record_terminal, States
<1>4. CASE recover_one
  BY <1>0, <1>4, TransitionCloses DEF recover_one, NothingToRecover, RecoverySkips, RecoveryFails,
     RecoverySyncs, RecoveryResumes, RecoveryInserts, States
<1>5. CASE \/ MonitorStart \/ MonitorShutdown \/ handle_event \/ Watchdog
           \/ \E s \in Streams : Subscribe(s) \/ run_stream_driver(s)
           \/ \E w \in Ids : EndWorkspace(w)
           \/ RuntimeRestart \/ Crash \/ Start
  BY <1>0, <1>5 DEF MonitorStart, MonitorShutdown, handle_event, Watchdog, Subscribe,
     run_stream_driver, EndWorkspace, RuntimeRestart, Crash, Start, console
<1> QED
  BY <1>1, <1>2, <1>3, <1>4, <1>5 DEF Next

\* A workspace the invariant accounts for.
Accounted(w) ==
  \/ \E l \in Launches : Holds(l) /\ w \in launch[l].created
  \/ row.root = w \/ w \in row.workers
  \/ w \in excused

\* A launch handler never drops a workspace that is live.
LEMMA LaunchKeepsTrack ==
  ASSUME SessionInv, NEW l \in Launches, NEW w \in Ids, ws'[w] = "live",
         \/ launch_session(l) \/ Claim(l) \/ Validate(l) \/ Load(l) \/ SubmitGoal(l)
         \/ Decompose(l) \/ Dispatch(l) \/ LaunchRpcFails(l) \/ Finalize(l) \/ Rollback(l)
         \/ mark_failed(l) \/ LaunchDbFails(l) \/ Spawn(l) \/ Insert(l),
         Closes \/ Finalize(l)
  PROVE  Accounted(w)'
<1> USE DEF SessionInv, SessionTypeOK, Launch, LaunchAt, Holds, history, Accounted
<1>a. ws[w] = "live" => Accounted(w)
  BY DEF NoSilentLeak
<1>b. launch[l] \in Launch /\ ws \in [Ids -> WsStates]
  OBVIOUS
<1>c. ASSUME NEW pc \in LaunchSteps, Goto(l, pc), ws' = ws, excused \subseteq excused', Closes,
             Holds(l) => pc \in {"decompose", "dispatch", "finalize", "rollback"}
                         \/ launch[l].created \subseteq excused'
      PROVE  Accounted(w)'
  BY <1>a, <1>b, <1>c DEF Goto, Closes
<1>1. CASE launch_session(l) \/ Claim(l) \/ Validate(l) \/ Load(l) \/ mark_failed(l)
  BY <1>1, <1>c DEF launch_session, Claim, Validate, Load, mark_failed, LaunchSteps, Finalize
<1>2. CASE SubmitGoal(l)
  BY <1>2, <1>a, <1>b DEF SubmitGoal
<1>3. CASE Decompose(l) \/ Spawn(l) \/ Insert(l)
  BY <1>3, <1>c DEF Decompose, Spawn, Insert, LaunchSteps, Finalize
<1>4. CASE Dispatch(l)
  <2>1. Closes
    BY <1>4 DEF Dispatch, Closes
  <2>2. CASE Goto(l, "finalize") /\ UNCHANGED ws
    BY <1>4, <1>c, <2>1, <2>2 DEF Dispatch, LaunchSteps
  <2>3. ASSUME NEW v \in Ids, ws' = [ws EXCEPT ![v] = "live"],
               launch' = [launch EXCEPT ![l].created = @ \cup {v}]
        PROVE  Accounted(w)'
    <3>1. /\ launch'[l].pc = "dispatch" /\ launch'[l].created = launch[l].created \cup {v}
          /\ \A k \in Launches \ {l} : launch'[k] = launch[k]
      BY <1>4, <1>b, <2>3 DEF Dispatch
    <3>2. CASE w = v
      BY <3>1, <3>2
    <3>3. CASE w # v
      BY <1>4, <1>a, <2>3, <3>1, <3>3 DEF Dispatch
    <3> QED
      BY <3>2, <3>3
  <2> QED
    BY <1>4, <2>2, <2>3 DEF Dispatch
<1>5. CASE LaunchRpcFails(l)
  BY <1>5, <1>a, <1>b, <1>c DEF LaunchRpcFails, Goto
<1>6. CASE Finalize(l)
  <2>1. CASE row.state = "launching"
    <3>1. /\ row'.root = launch[l].root
          /\ row'.workers = launch[l].created \ {launch[l].root}
          /\ ws' = ws /\ excused' = excused
          /\ \A k \in Launches \ {l} : launch'[k] = launch[k]
      BY <1>6, <1>b, <2>1 DEF Finalize, Goto
    <3>2. row.root = None /\ row.workers = {}
      BY <2>1 DEF RecordedOnce
    <3>3. row.root # w
      BY <3>2, SessionAssumption
    <3> QED
      BY <1>a, <3>1, <3>2, <3>3
  <2>2. CASE row.state # "launching"
    <3>1. Closes
      BY <1>6, <2>2 DEF Finalize, Closes
    <3> QED
      BY <1>6, <1>c, <2>2, <3>1 DEF Finalize, LaunchSteps
  <2> QED
    BY <2>1, <2>2
<1>7. CASE Rollback(l)
  BY <1>7, <1>a, <1>b DEF Rollback, Goto, Aborted
<1>8. CASE LaunchDbFails(l)
  <2>1. Closes
    BY <1>8 DEF LaunchDbFails, Closes
  <2>2. CASE launch[l].pc = "finalize"
    BY <1>8, <1>c, <2>1, <2>2 DEF LaunchDbFails, LaunchSteps
  <2>3. CASE launch[l].pc # "finalize"
    <3>1. Goto(l, "done") /\ launch[l].created \subseteq excused' /\ excused \subseteq excused' /\ ws' = ws
      BY <1>8, <2>3 DEF LaunchDbFails
    <3> QED
      BY <1>c, <2>1, <3>1 DEF LaunchSteps
  <2> QED
    BY <2>2, <2>3
<1> QED
  BY <1>1, <1>2, <1>3, <1>4, <1>5, <1>6, <1>7, <1>8

\* Neither do the cancels, the monitor, the runtime, a crash or recovery: none
\* of them makes a workspace live, and a crash charges what the launches held.
LEMMA OthersKeepTrack ==
  ASSUME SessionInv, NEW w \in Ids, ws'[w] = "live", Closes,
         \/ \E c \in Cancels : cancel_session(c) \/ CancelAbort(c) \/ CancelMark(c) \/ CancelCleanup(c)
         \/ MonitorStart \/ MonitorShutdown \/ handle_event \/ record_terminal \/ Watchdog
         \/ \E s \in Streams : Subscribe(s) \/ run_stream_driver(s)
         \/ \E v \in Ids : EndWorkspace(v)
         \/ RuntimeRestart \/ Crash \/ Start \/ recover_one
  PROVE  Accounted(w)'
<1> USE DEF SessionInv, SessionTypeOK, Accounted
<1>a. ws[w] = "live" => Accounted(w)
  BY DEF NoSilentLeak
<1>b. ASSUME UNCHANGED <<launch, excused>>, ws[w] = "live"
      PROVE  Accounted(w)'
  BY <1>a, <1>b DEF Holds, Closes
<1>c. ASSUME NEW v, Aborted(v)[w] = "live"
      PROVE  ws[w] = "live"
  BY <1>c DEF Aborted
<1>1. ASSUME NEW c \in Cancels, cancel_session(c) \/ CancelAbort(c) \/ CancelMark(c) \/ CancelCleanup(c)
      PROVE  Accounted(w)'
  <2>1. UNCHANGED <<launch, excused>>
    BY <1>1 DEF cancel_session, CancelAbort, CancelMark, CancelCleanup, history
  <2>2. ws' = ws \/ ws' = Aborted(cancel[c].root)
    BY <1>1 DEF cancel_session, CancelAbort, CancelMark, CancelCleanup
  <2> QED
    BY <1>b, <1>c, <2>1, <2>2
<1>2. CASE \/ MonitorStart \/ MonitorShutdown \/ handle_event \/ record_terminal \/ Watchdog
           \/ \E s \in Streams : Subscribe(s) \/ run_stream_driver(s)
  BY <1>2, <1>b DEF MonitorStart, MonitorShutdown, handle_event, record_terminal, Watchdog,
     Subscribe, run_stream_driver, history
<1>3. ASSUME NEW v \in Ids, EndWorkspace(v)
      PROVE  Accounted(w)'
  <2>1. ws[w] = "live"
    BY <1>3 DEF EndWorkspace
  <2> QED
    BY <1>3, <1>b, <2>1 DEF EndWorkspace, history
<1>4. CASE RuntimeRestart
  BY <1>4 DEF RuntimeRestart
<1>5. CASE Crash
  <2>1. /\ ws' = ws
        /\ excused' = excused \cup UNION {launch[l].created : l \in {k \in Launches : Holds(k)}}
    BY <1>5 DEF Crash
  <2> QED
    BY <1>a, <2>1 DEF Closes
<1>6. CASE Start \/ recover_one
  BY <1>6, <1>b DEF Start, recover_one, NothingToRecover, RecoverySkips, RecoveryFails, RecoverySyncs,
     RecoveryResumes, RecoveryInserts, Recovered, history
<1> QED
  BY <1>1, <1>2, <1>3, <1>4, <1>5, <1>6

\* The inductive invariant: types, a row that records nothing before it is
\* ACTIVE, and every live workspace accounted for.
THEOREM SessionInvariant == Spec => []SessionInv
<1>1. Init => SessionInv
  <2> SUFFICES ASSUME Init PROVE RecordedOnce /\ NoSilentLeak /\ SessionTypeOK
    BY DEF SessionInv
  <2>1. RecordedOnce /\ NoSilentLeak
    BY DEF Init, RecordedOnce, NoSilentLeak
  <2>2. SessionTypeOK
    BY SessionTypeInit
  <2> QED
    BY <2>1, <2>2
<1>2. SessionInv /\ [Next]_vars => SessionInv'
  <2> SUFFICES ASSUME SessionInv, [Next]_vars PROVE SessionInv'
    OBVIOUS
  <2>0. SessionTypeOK
    BY DEF SessionInv
  <2>1. CASE UNCHANGED vars
    BY <2>1 DEF vars, SessionInv, SessionTypeOK, RecordedOnce, NoSilentLeak, Holds
  <2>2. CASE Next
    <3>1. SessionTypeOK'
      BY <2>0, <2>2, LaunchTypes, CancelTypes, MonitorTypes, ProcessTypes DEF Next
    <3>2. Closes \/ \E l \in Launches : Finalize(l)
      BY <2>0, <2>2, OnlyFinalizeRecords
    <3>3. RecordedOnce'
      <4>1. CASE Closes
        BY <4>1 DEF Closes, SessionInv, RecordedOnce
      <4>2. ASSUME NEW l \in Launches, Finalize(l)
            PROVE  RecordedOnce'
        BY <4>2 DEF Finalize, SessionInv, RecordedOnce
      <4> QED
        BY <3>2, <4>1, <4>2
    <3>4. ASSUME NEW w \in Ids, ws'[w] = "live"
          PROVE  Accounted(w)'
      <4>1. ASSUME NEW l \in Launches, Finalize(l)
            PROVE  Accounted(w)'
        BY <3>4, <4>1, LaunchKeepsTrack
      <4>2. CASE Closes
        BY <2>2, <3>4, <4>2, LaunchKeepsTrack, OthersKeepTrack DEF Next
      <4> QED
        BY <3>2, <4>1, <4>2
    <3> QED
      BY <3>1, <3>3, <3>4 DEF SessionInv, NoSilentLeak, Accounted
  <2> QED
    BY <2>1, <2>2
<1> QED
  BY <1>1, <1>2, PTL DEF Spec

\* No launch, cancel, crash or recovery loses track of a live workspace unless
\* a fault separated it from its session, for any number of concurrent requests.
THEOREM NoLeakWithoutFault == Spec => []NoSilentLeak
<1>1. SessionInv => NoSilentLeak
  BY DEF SessionInv
<1> QED
  BY <1>1, SessionInvariant, PTL

\* None of the writers of the row moves it out of a terminal state.
LEMMA TerminalStays ==
  ASSUME SessionTypeOK, Next, is_terminal(row.state)
  PROVE  row' = row
<1>0. /\ row.state \notin {"configuring", "validating", "launching", "active"}
      /\ \A from \in {"configuring", "validating", "launching", "active"} :
           \A to : transition_state(from, to) = row
  BY DEF is_terminal, transition_state
<1>1. ASSUME NEW l \in Launches,
             \/ launch_session(l) \/ Claim(l) \/ Validate(l) \/ Load(l) \/ SubmitGoal(l)
             \/ Decompose(l) \/ Dispatch(l) \/ LaunchRpcFails(l) \/ Finalize(l) \/ Rollback(l)
             \/ mark_failed(l) \/ LaunchDbFails(l) \/ Spawn(l) \/ Insert(l)
      PROVE  row' = row
  BY <1>0, <1>1 DEF launch_session, Claim, Validate, Load, SubmitGoal, Decompose, Dispatch,
     LaunchRpcFails, Finalize, Rollback, mark_failed, LaunchDbFails, Spawn, Insert
<1>2. ASSUME NEW c \in Cancels, cancel_session(c) \/ CancelAbort(c) \/ CancelMark(c) \/ CancelCleanup(c)
      PROVE  row' = row
  BY <1>2 DEF cancel_session, CancelAbort, CancelMark, CancelCleanup
<1>3. CASE record_terminal \/ recover_one
  BY <1>0, <1>3 DEF record_terminal, recover_one, NothingToRecover, RecoverySkips, RecoveryFails,
     RecoverySyncs, RecoveryResumes, RecoveryInserts
<1>4. CASE \/ MonitorStart \/ MonitorShutdown \/ handle_event \/ Watchdog
           \/ \E s \in Streams : Subscribe(s) \/ run_stream_driver(s)
           \/ \E w \in Ids : EndWorkspace(w)
           \/ RuntimeRestart \/ Crash \/ Start
  BY <1>4 DEF MonitorStart, MonitorShutdown, handle_event, Watchdog, Subscribe,
     run_stream_driver, EndWorkspace, RuntimeRestart, Crash, Start, console
<1> QED
  BY <1>1, <1>2, <1>3, <1>4 DEF Next

\* Launch, cancel, monitor and recovery all write the state, and a session that
\* reached a terminal one keeps it, with what it recorded.
THEOREM TerminalRowsStay == Spec => TerminalFinality
<1>1. SessionTypeOK /\ [Next]_vars => [is_terminal(row.state) => row' = row]_vars
  BY TerminalStays DEF vars
<1> QED
  BY <1>1, SessionTypeCorrect, PTL DEF Spec, TerminalFinality

----------------------------------------------------------------------------
(* COMPLETED means closed, ACTIVE means watched *)

\* A workspace that closed never runs again, not even after the runtime forgets it.
LEMMA EndedForGood ==
  ASSUME SessionTypeOK, Next, NEW w \in Ids, ws[w] \in {"closed", "lost"}
  PROVE  ws'[w] \in {"closed", "lost"}
<1>0. ws \in [Ids -> WsStates]
  BY DEF SessionTypeOK
<1>a. \A v : Aborted(v)[w] \in {"closed", "lost"}
  BY <1>0 DEF Aborted
<1>b. \A v \in Ids : ws[v] = "absent" => [ws EXCEPT ![v] = "live"][w] \in {"closed", "lost"}
  BY <1>0
<1>1. ASSUME NEW l \in Launches,
             \/ launch_session(l) \/ Claim(l) \/ Validate(l) \/ Load(l) \/ SubmitGoal(l)
             \/ Decompose(l) \/ Dispatch(l) \/ LaunchRpcFails(l) \/ Finalize(l) \/ Rollback(l)
             \/ mark_failed(l) \/ LaunchDbFails(l) \/ Spawn(l) \/ Insert(l)
      PROVE  ws'[w] \in {"closed", "lost"}
  <2>1. \/ ws' = ws
        \/ \E v \in Ids : ws[v] = "absent" /\ ws' = [ws EXCEPT ![v] = "live"]
        \/ \E v : ws' = Aborted(v)
    BY <1>1 DEF launch_session, Claim, Validate, Load, SubmitGoal, Decompose, Dispatch,
       LaunchRpcFails, Finalize, Rollback, mark_failed, LaunchDbFails, Spawn, Insert
  <2> QED
    BY <1>a, <1>b, <2>1
<1>2. ASSUME NEW c \in Cancels, cancel_session(c) \/ CancelAbort(c) \/ CancelMark(c) \/ CancelCleanup(c)
      PROVE  ws'[w] \in {"closed", "lost"}
  <2>1. ws' = ws \/ ws' = Aborted(cancel[c].root)
    BY <1>2 DEF cancel_session, CancelAbort, CancelMark, CancelCleanup
  <2> QED
    BY <1>a, <2>1
<1>3. ASSUME NEW v \in Ids, EndWorkspace(v)
      PROVE  ws'[w] \in {"closed", "lost"}
  BY <1>0, <1>3 DEF EndWorkspace, Running
<1>4. CASE RuntimeRestart
  BY <1>4 DEF RuntimeRestart
<1>5. CASE \/ MonitorStart \/ MonitorShutdown \/ handle_event \/ record_terminal \/ Watchdog
           \/ \E s \in Streams : Subscribe(s) \/ run_stream_driver(s)
           \/ Crash \/ Start \/ recover_one
  BY <1>5 DEF MonitorStart, MonitorShutdown, handle_event, record_terminal, Watchdog, Subscribe,
     run_stream_driver, Crash, Start, recover_one, NothingToRecover, RecoverySkips, RecoveryFails,
     RecoverySyncs, RecoveryResumes, RecoveryInserts, Recovered
<1> QED
  BY <1>1, <1>2, <1>3, <1>4, <1>5 DEF Next

\* What every step respects: a closed root stays the recorded one, a cancelled
\* row stays cancelled, and only finalize makes a session ACTIVE.
LEMMA StepFrame ==
  ASSUME SessionInv, Next
  PROVE  /\ ClosedRoot => ClosedRoot'
         /\ row.state = "cancelled" => row'.state = "cancelled"
         /\ (~ \E l \in Launches : Finalize(l)) => row'.root = row.root /\ (row'.state = "active" => row.state = "active")
<1>0. SessionTypeOK
  BY DEF SessionInv
<1>1. row.state = "cancelled" => row'.state = "cancelled"
  BY <1>0, TerminalStays DEF is_terminal
<1>2. (~ \E l \in Launches : Finalize(l)) => row'.root = row.root /\ (row'.state = "active" => row.state = "active")
  BY <1>0, OnlyFinalizeRecords DEF Closes
<1>3. ASSUME ClosedRoot PROVE ClosedRoot'
  <2>1. row'.root = row.root
    <3>1. ASSUME NEW l \in Launches, Finalize(l) PROVE row' = row
      BY <1>3, <3>1, SessionAssumption DEF Finalize, SessionInv, RecordedOnce, ClosedRoot
    <3> QED
      BY <1>2, <3>1
  <2> QED
    BY <1>0, <1>3, <2>1, EndedForGood DEF ClosedRoot
<1> QED
  BY <1>1, <1>2, <1>3

\* A monitor that was just spawned, or one that is gone, has heard nothing.
LEMMA MonitoredFacts ==
  ASSUME NEW task
  PROVE  /\ Monitored(task).task = task /\ Monitored(task).stop = FALSE
         /\ Monitored(task).verdict = "failed" /\ DOMAIN Monitored(task).inbox = {}
BY DEF Monitored

\* The steps of a launch handler.
LEMMA LaunchWatch ==
  ASSUME SessionInv, WatchInv, Next, NEW l \in Launches,
         \/ launch_session(l) \/ Claim(l) \/ Validate(l) \/ Load(l) \/ SubmitGoal(l)
         \/ Decompose(l) \/ Dispatch(l) \/ LaunchRpcFails(l) \/ Finalize(l) \/ Rollback(l)
         \/ mark_failed(l) \/ LaunchDbFails(l) \/ Spawn(l) \/ Insert(l)
  PROVE  WatchInv'
<1>0. SessionTypeOK /\ launch \in [Launches -> Launch] /\ launch[l] \in Launch
  BY DEF SessionInv, SessionTypeOK
<1>1. UNCHANGED <<cancel, boot, unwatched>> /\ boot = "up"
  BY DEF launch_session, Claim, Validate, Load, SubmitGoal, Decompose, Dispatch, LaunchRpcFails,
     Finalize, Rollback, mark_failed, LaunchDbFails, Spawn, Insert, LaunchAt, history
<1>2. mon' = mon \/ (Spawn(l) /\ mon' = Monitored("seed"))
  BY DEF launch_session, Claim, Validate, Load, SubmitGoal, Decompose, Dispatch, LaunchRpcFails,
     Finalize, Rollback, mark_failed, LaunchDbFails, Spawn, Insert
<1>3. row'.state = "completed" => row.state = "completed"
  BY DEF launch_session, Claim, Validate, Load, SubmitGoal, Decompose, Dispatch, LaunchRpcFails,
     Finalize, Rollback, mark_failed, LaunchDbFails, Spawn, Insert, transition_state, SessionInv, SessionTypeOK
<1>g. ASSUME NEW pc \in LaunchSteps, Goto(l, pc)
      PROVE  /\ launch'[l].pc = pc /\ (pc # "done" => launch'[l].root = launch[l].root)
             /\ \A k \in Launches \ {l} : launch'[k] = launch[k]
  BY <1>0, <1>g DEF Goto, Launch, NoLaunch
<1>4. /\ \A k \in Launches \ {l} : launch'[k] = launch[k]
      /\ launch[l].pc = "spawn" => Spawn(l) /\ launch'[l].pc = "insert"
      /\ launch[l].pc = "insert" => Insert(l) /\ launch'[l].pc = "done"
      /\ launch'[l].pc \in {"decompose", "dispatch", "finalize"} =>
           \/ launch'[l].root \in Ids
           \/ launch[l].pc \in {"decompose", "dispatch", "finalize"} /\ launch'[l].root = launch[l].root
  <2>1. CASE \/ launch_session(l) \/ Claim(l) \/ Validate(l) \/ Load(l)
             \/ LaunchRpcFails(l) \/ mark_failed(l) \/ LaunchDbFails(l)
    <3>1. launch[l].pc \notin {"spawn", "insert"}
      BY <2>1 DEF launch_session, Claim, Validate, Load, LaunchRpcFails, mark_failed, LaunchDbFails, LaunchAt
    <3>2. PICK pc \in LaunchSteps \ {"decompose", "dispatch", "finalize"} : Goto(l, pc)
      BY <2>1 DEF launch_session, Claim, Validate, Load, LaunchRpcFails, mark_failed, LaunchDbFails, LaunchSteps
    <3> QED BY <1>g, <3>1, <3>2
  <2>2. CASE SubmitGoal(l)
    <3>1. launch[l].pc = "submit"
      BY <2>2 DEF SubmitGoal, LaunchAt
    <3>2. PICK w \in Ids : launch' = [launch EXCEPT ![l] = [pc |-> "decompose", root |-> w, created |-> {w}]]
      BY <2>2 DEF SubmitGoal
    <3>3. launch'[l] = [pc |-> "decompose", root |-> w, created |-> {w}]
      BY <1>0, <3>2
    <3> QED BY <1>0, <3>1, <3>2, <3>3
  <2>3. CASE Decompose(l)
    BY <1>g, <2>3 DEF Decompose, LaunchAt, LaunchSteps
  <2>4. CASE Dispatch(l)
    <3>1. launch[l].pc = "dispatch"
      BY <2>4 DEF Dispatch, LaunchAt
    <3>2. CASE Goto(l, "finalize")
      BY <1>g, <3>1, <3>2 DEF LaunchSteps
    <3>3. ASSUME NEW w \in Ids, launch' = [launch EXCEPT ![l].created = @ \cup {w}]
          PROVE  /\ launch'[l].pc = "dispatch" /\ launch'[l].root = launch[l].root
                 /\ \A k \in Launches \ {l} : launch'[k] = launch[k]
      BY <1>0, <3>1, <3>3 DEF Launch
    <3> QED BY <2>4, <3>1, <3>2, <3>3 DEF Dispatch
  <2>5. CASE Finalize(l)
    BY <1>g, <2>5 DEF Finalize, LaunchAt, LaunchSteps
  <2>6. CASE Rollback(l)
    <3>1. launch[l].pc = "rollback"
      BY <2>6 DEF Rollback, LaunchAt
    <3>2. CASE Goto(l, "fail")
      BY <1>g, <3>1, <3>2 DEF LaunchSteps
    <3>3. ASSUME NEW w \in Ids, launch' = [launch EXCEPT ![l].created = @ \ {w}]
          PROVE  /\ launch'[l].pc = "rollback"
                 /\ \A k \in Launches \ {l} : launch'[k] = launch[k]
      BY <1>0, <3>1, <3>3 DEF Launch
    <3>4. launch[l].created \subseteq Ids
      BY <1>0 DEF Launch
    <3> QED BY <2>6, <3>1, <3>2, <3>3, <3>4 DEF Rollback
  <2>7. CASE Spawn(l) \/ Insert(l)
    BY <1>g, <2>7 DEF Spawn, Insert, LaunchAt, LaunchSteps
  <2> QED BY <2>1, <2>2, <2>3, <2>4, <2>5, <2>6, <2>7
<1>5. CASE Finalize(l) /\ row.state = "launching"
  <2>1. row'.root = launch[l].root /\ launch[l].pc = "finalize" /\ launch'[l].pc = "spawn"
    BY <1>0, <1>5, <1>g DEF Finalize, LaunchAt, LaunchSteps
  <2>2. RootKnown'
    BY <1>4, <2>1 DEF WatchInv, RootKnown
  <2>3. ClosedNews'
    BY <1>2, <1>3, <1>5, MonitoredFacts, StepFrame DEF WatchInv, ClosedNews
  <2>4. StopsCancelled'
    BY <1>1, <1>2, MonitoredFacts, StepFrame DEF WatchInv, StopsCancelled
  <2>5. Watched'
    BY <1>1, <2>1 DEF Watched
  <2> QED BY <2>2, <2>3, <2>4, <2>5 DEF WatchInv
<1>6. CASE ~(Finalize(l) /\ row.state = "launching")
  <2>1. row'.root = row.root /\ (row'.state = "active" => row.state = "active")
    <3>1. CASE Finalize(l)
      BY <1>6, <3>1 DEF Finalize
    <3>2. CASE ~Finalize(l)
      BY <1>0, <3>2, TransitionCloses DEF launch_session, Claim, Validate, Load, SubmitGoal, Decompose,
         Dispatch, LaunchRpcFails, Rollback, mark_failed, LaunchDbFails, Spawn, Insert, States, Closes
    <3> QED BY <3>1, <3>2
  <2>2. RootKnown'
    BY <1>4, <2>1 DEF WatchInv, RootKnown
  <2>3. ClosedNews'
    BY <1>2, <1>3, MonitoredFacts, StepFrame DEF WatchInv, ClosedNews
  <2>4. StopsCancelled'
    BY <1>1, <1>2, MonitoredFacts, StepFrame DEF WatchInv, StopsCancelled
  <2>5. Watched'
    <3> SUFFICES ASSUME row'.state = "active", ~unwatched'
                 PROVE  \/ \E k \in Launches : launch'[k].pc = "spawn"
                        \/ mon'.task \in WatchTasks /\ (handle' \/ \E k \in Launches : launch'[k].pc = "insert")
      BY <1>1 DEF Watched
    <3>1. \/ \E k \in Launches : launch[k].pc = "spawn"
          \/ mon.task \in WatchTasks /\ (handle \/ \E k \in Launches : launch[k].pc = "insert")
      BY <1>1, <2>1 DEF WatchInv, Watched
    <3>2. CASE Spawn(l)
      <4>1. launch'[l].pc = "insert" /\ mon'.task = "seed"
        BY <1>g, <3>2, MonitoredFacts DEF Spawn, LaunchSteps
      <4> QED BY <4>1 DEF WatchTasks
    <3>3. CASE Insert(l)
      <4>1. handle' = TRUE /\ mon' = mon /\ launch[l].pc = "insert"
        BY <3>3 DEF Insert, LaunchAt
      <4> QED BY <1>4, <3>1, <4>1
    <3>4. CASE ~Spawn(l) /\ ~Insert(l)
      <4>1. handle' = handle /\ mon' = mon
        BY <3>4, <1>2 DEF launch_session, Claim, Validate, Load, SubmitGoal, Decompose, Dispatch, LaunchRpcFails,
           Finalize, Rollback, mark_failed, LaunchDbFails
      <4> QED BY <1>4, <3>1, <3>4, <4>1
    <3> QED BY <3>2, <3>3, <3>4
  <2> QED BY <2>2, <2>3, <2>4, <2>5 DEF WatchInv
<1> QED BY <1>5, <1>6

\* The steps of a cancel handler.
LEMMA CancelWatch ==
  ASSUME SessionInv, WatchInv, Next, NEW c \in Cancels,
         cancel_session(c) \/ CancelAbort(c) \/ CancelMark(c) \/ CancelCleanup(c)
  PROVE  WatchInv'
<1>0. /\ cancel \in [Cancels -> Cancel] /\ cancel[c] \in Cancel /\ mon \in Monitor
      /\ row \in [state : States, root : Ids \cup {None}, workers : SUBSET Ids]
  BY DEF SessionInv, SessionTypeOK
<1>1. UNCHANGED <<launch, boot, unwatched>>
  BY DEF cancel_session, CancelAbort, CancelMark, CancelCleanup, history
<1>2. /\ row'.root = row.root
      /\ row' = row \/ (row'.state = "cancelled" /\ ~is_terminal(row.state))
  BY <1>0 DEF cancel_session, CancelAbort, CancelMark, CancelCleanup
<1>r. CancelReturns(c) => cancel'[c].pc = "done" /\ \A d \in Cancels \ {c} : cancel'[d] = cancel[d]
  BY <1>0 DEF CancelReturns, NoCancel
<1>3. /\ \A d \in Cancels \ {c} : cancel'[d] = cancel[d]
      /\ cancel'[c].pc = "cleanup" => row'.state = "cancelled"
  <2>1. CASE cancel_session(c)
    <3>1. cancel' = [cancel EXCEPT ![c] = [pc |-> IF row.state = "active" THEN "abort" ELSE "mark",
                                           seen |-> row.state, root |-> row.root]]
      BY <2>1 DEF cancel_session
    <3> QED BY <1>0, <3>1
  <2>2. CASE CancelAbort(c)
    <3>1. cancel' = [cancel EXCEPT ![c].pc = "mark"] \/ CancelReturns(c)
      BY <2>2 DEF CancelAbort
    <3> QED BY <1>0, <1>r, <3>1 DEF Cancel
  <2>3. CASE CancelMark(c)
    <3>1. (cancel' = [cancel EXCEPT ![c].pc = "cleanup"] /\ row'.state = "cancelled") \/ CancelReturns(c)
      BY <1>0, <2>3 DEF CancelMark
    <3> QED BY <1>0, <1>r, <3>1
  <2>4. CASE CancelCleanup(c)
    BY <1>r, <2>4 DEF CancelCleanup
  <2> QED BY <2>1, <2>2, <2>3, <2>4
<1>4. \/ UNCHANGED <<mon, handle>>
      \/ /\ row.state = "cancelled" /\ row' = row
         /\ mon' = mon \/ mon' = [mon EXCEPT !.stop = TRUE]
  <2>1. CASE CancelCleanup(c)
    <3>1. row.state = "cancelled"
      BY <2>1 DEF CancelCleanup, CancelAt, WatchInv, StopsCancelled
    <3> QED BY <2>1, <3>1 DEF CancelCleanup
  <2> QED BY <2>1 DEF cancel_session, CancelAbort, CancelMark
<1>5. mon'.inbox = mon.inbox /\ mon'.task = mon.task /\ mon'.verdict = mon.verdict
  BY <1>0, <1>4 DEF Monitor
<1>6. RootKnown'
  BY <1>1, <1>2 DEF WatchInv, RootKnown
<1>7. ClosedNews'
  BY <1>2, <1>5, StepFrame DEF WatchInv, ClosedNews
<1>8. StopsCancelled'
  BY <1>2, <1>3, <1>4, StepFrame DEF WatchInv, StopsCancelled
<1>9. Watched'
  BY <1>1, <1>2, <1>4 DEF WatchInv, Watched
<1> QED BY <1>6, <1>7, <1>8, <1>9 DEF WatchInv

\* The steps of the monitor, of its streams and of the runtime.
LEMMA MonitorWatch ==
  ASSUME SessionInv, WatchInv, Next,
         \/ MonitorStart \/ MonitorShutdown \/ handle_event \/ record_terminal \/ Watchdog
         \/ \E s \in Streams : Subscribe(s) \/ run_stream_driver(s)
         \/ \E w \in Ids : EndWorkspace(w)
         \/ RuntimeRestart
  PROVE  WatchInv'
<1>0. /\ mon \in Monitor /\ mon.inbox \in Seq({"closed", "failed", "fatal"})
      /\ row \in [state : States, root : Ids \cup {None}, workers : SUBSET Ids]
      /\ mon.verdict \in {"failed", "completed"} /\ ws \in [Ids -> WsStates]
  BY DEF SessionInv, SessionTypeOK, Monitor
<1>1. UNCHANGED <<launch, cancel, boot>> /\ row'.root = row.root
      /\ (row' = row \/ (record_terminal /\ row.state = "active" /\ row' = [row EXCEPT !.state = mon.verdict]))
      /\ (unwatched' = unwatched \/ unwatched')
  BY <1>0 DEF MonitorStart, MonitorShutdown, handle_event, record_terminal, Watchdog, Subscribe,
     run_stream_driver, EndWorkspace, RuntimeRestart, console, history, transition_state
<1>2. mon'.stop => mon.stop
  <2>1. CASE MonitorShutdown \/ record_terminal \/ Watchdog
    BY <2>1, MonitoredFacts DEF MonitorShutdown, record_terminal, Watchdog
  <2>2. CASE MonitorStart \/ handle_event \/ RuntimeRestart
    BY <1>0, <2>2 DEF MonitorStart, handle_event, RuntimeRestart, console, Monitor
  <2>3. ASSUME NEW s \in Streams, Subscribe(s) \/ run_stream_driver(s)
        PROVE  mon'.stop = mon.stop
    BY <1>0, <2>3 DEF Subscribe, run_stream_driver, Monitor
  <2>4. ASSUME NEW w \in Ids, EndWorkspace(w)
        PROVE  mon'.stop = mon.stop
    <3>1. mon' = mon \/ \E end \in {"failed", "closed"} : mon' = [mon EXCEPT !.inbox = Append(@, end)]
      BY <2>4 DEF EndWorkspace
    <3> QED BY <1>0, <3>1 DEF Monitor
  <2> QED BY <2>1, <2>2, <2>3, <2>4
<1>3. row'.state = "active" => row.state = "active"
  BY <1>0, <1>1
<1>4. RootKnown'
  BY <1>1, <1>3 DEF WatchInv, RootKnown
<1>5. StopsCancelled'
  BY <1>1, <1>2, StepFrame DEF WatchInv, StopsCancelled
<1>6. ClosedNews'
  <2> SUFFICES ASSUME ~ClosedRoot, ~ClosedRoot'
               PROVE  /\ \A i \in DOMAIN mon'.inbox : mon'.inbox[i] # "closed"
                      /\ mon'.task = "record" => mon'.verdict = "failed"
                      /\ row'.state # "completed"
    BY StepFrame DEF ClosedNews
  <2>1. /\ \A i \in DOMAIN mon.inbox : mon.inbox[i] # "closed"
        /\ mon.task = "record" => mon.verdict = "failed"
        /\ row.state # "completed"
    BY DEF WatchInv, ClosedNews
  <2>2. row'.state # "completed"
    BY <1>0, <1>1, <2>1 DEF record_terminal
  <2>a. ASSUME NEW x \in {"failed", "fatal"}
        PROVE  \A i \in DOMAIN Append(mon.inbox, x) : Append(mon.inbox, x)[i] # "closed"
    BY <1>0, <2>1
  <2>3. CASE MonitorShutdown \/ record_terminal \/ Watchdog
    BY <2>2, <2>3, MonitoredFacts DEF MonitorShutdown, record_terminal, Watchdog
  <2>4. CASE MonitorStart \/ RuntimeRestart
    BY <1>0, <2>1, <2>2, <2>4 DEF MonitorStart, RuntimeRestart, console, Monitor
  <2>5. CASE handle_event
    <3>1. mon.inbox # <<>>
      BY <2>5 DEF handle_event
    <3>2. Head(mon.inbox) # "closed" /\ \A i \in DOMAIN Tail(mon.inbox) : Tail(mon.inbox)[i] # "closed"
      BY <1>0, <2>1, <3>1
    <3>3. mon' = [mon EXCEPT !.task = "record", !.inbox = Tail(@), !.verdict = "failed"]
      BY <2>5, <3>2 DEF handle_event
    <3>4. mon'.inbox = Tail(mon.inbox) /\ mon'.verdict = "failed"
      BY <1>0, <3>3 DEF Monitor
    <3> QED BY <2>2, <3>2, <3>4
  <2>6. ASSUME NEW s \in Streams, Subscribe(s) \/ run_stream_driver(s)
        PROVE  /\ \A i \in DOMAIN mon'.inbox : mon'.inbox[i] # "closed"
               /\ mon'.task = "record" => mon'.verdict = "failed"
    <3>1. /\ mon'.task = mon.task /\ mon'.verdict = mon.verdict
          /\ mon'.inbox = mon.inbox \/ mon'.inbox = Append(mon.inbox, "fatal")
      BY <1>0, <2>6 DEF Subscribe, run_stream_driver, Monitor
    <3> QED BY <2>1, <2>a, <3>1
  <2>7. ASSUME NEW w \in Ids, EndWorkspace(w)
        PROVE  /\ \A i \in DOMAIN mon'.inbox : mon'.inbox[i] # "closed"
               /\ mon'.task = "record" => mon'.verdict = "failed"
    <3>1. PICK end \in {"failed", "closed"} :
            /\ ws' = [ws EXCEPT ![w] = end]
            /\ mon' = mon \/ (w = row.root /\ mon' = [mon EXCEPT !.inbox = Append(@, end)])
      BY <2>7 DEF EndWorkspace
    <3>2. w = row.root => end = "failed"
      BY <1>0, <1>1, <3>1 DEF ClosedRoot
    <3>3. CASE mon' = mon
      BY <2>1, <3>3
    <3>4. CASE w = row.root /\ mon' = [mon EXCEPT !.inbox = Append(@, end)]
      <4>1. mon'.inbox = Append(mon.inbox, "failed") /\ mon'.task = mon.task /\ mon'.verdict = mon.verdict
        BY <1>0, <3>2, <3>4 DEF Monitor
      <4> QED BY <2>1, <2>a, <4>1
    <3> QED BY <3>1, <3>3, <3>4
  <2> QED BY <2>2, <2>3, <2>4, <2>5, <2>6, <2>7
<1>7. Watched'
  <2> SUFFICES ASSUME row'.state = "active", ~unwatched'
               PROVE  /\ boot = "up" =>
                            \/ \E l \in Launches : launch[l].pc = "spawn"
                            \/ mon'.task \in WatchTasks /\ (handle' \/ \E l \in Launches : launch[l].pc = "insert")
                      /\ boot = "insert" => mon'.task \in WatchTasks
    BY <1>1 DEF Watched
  <2>1. /\ boot = "up" =>
              \/ \E l \in Launches : launch[l].pc = "spawn"
              \/ mon.task \in WatchTasks /\ (handle \/ \E l \in Launches : launch[l].pc = "insert")
        /\ boot = "insert" => mon.task \in WatchTasks
    BY <1>1, <1>3 DEF WatchInv, Watched
  <2>2. ~record_terminal /\ ~MonitorShutdown
    <3>1. ~record_terminal
      BY <1>0, <1>1 DEF record_terminal, transition_state
    <3>2. ~mon.stop
      BY <1>3 DEF WatchInv, StopsCancelled
    <3> QED BY <3>1, <3>2 DEF MonitorShutdown
  <2>3. CASE Watchdog
    BY <2>1, <2>3 DEF Watchdog, WatchTasks
  <2>4. CASE ~Watchdog
    <3>1. handle' = handle /\ (mon.task \in WatchTasks => mon'.task \in WatchTasks)
      BY <1>0, <2>2, <2>4 DEF MonitorStart, handle_event, Subscribe, run_stream_driver, EndWorkspace,
         RuntimeRestart, console, Monitor, WatchTasks
    <3> QED BY <2>1, <3>1
  <2> QED BY <2>3, <2>4
<1> QED BY <1>4, <1>5, <1>6, <1>7 DEF WatchInv

\* A crash, a start and the recovery of the Console.
LEMMA ProcessWatch ==
  ASSUME SessionInv, WatchInv, Next, Crash \/ Start \/ recover_one
  PROVE  WatchInv'
<1>0. /\ mon \in Monitor /\ launch \in [Launches -> Launch] /\ cancel \in [Cancels -> Cancel]
      /\ row \in [state : States, root : Ids \cup {None}, workers : SUBSET Ids]
  BY DEF SessionInv, SessionTypeOK
<1>1. CASE Crash
  <2>1. /\ \A l \in Launches : launch'[l].pc \in {"idle", "done"}
        /\ \A c \in Cancels : cancel'[c].pc \in {"idle", "done"}
    BY <1>1 DEF Crash, NoLaunch, NoCancel
  <2>2. boot' = "down" /\ row' = row /\ mon' = Monitored("off")
    BY <1>1 DEF Crash
  <2>3. ClosedNews'
    BY <2>2, MonitoredFacts, StepFrame DEF WatchInv, ClosedNews
  <2> QED BY <2>1, <2>2, <2>3, MonitoredFacts DEF WatchInv, RootKnown, StopsCancelled, Watched
<1>2. CASE Start
  <2>1. UNCHANGED <<row, launch, cancel, mon, handle, ws>> /\ boot' = "recover"
    BY <1>2 DEF Start
  <2> QED BY <2>1 DEF WatchInv, RootKnown, ClosedNews, ClosedRoot, StopsCancelled, Watched
<1>3. CASE NothingToRecover \/ RecoverySkips \/ RecoveryFails \/ RecoverySyncs
  <2>1. UNCHANGED <<launch, cancel, mon, handle, ws>> /\ boot' = "up" /\ row'.root = row.root
    BY <1>0, <1>3 DEF NothingToRecover, RecoverySkips, RecoveryFails, RecoverySyncs, Recovered, transition_state
  <2>2. row'.state # "active" \/ (row' = row /\ unwatched')
    BY <1>0, <1>3 DEF NothingToRecover, RecoverySkips, RecoveryFails, RecoverySyncs, transition_state
  <2>3. row'.state = "completed" => row.state = "completed" \/ ClosedRoot
    BY <1>0, <1>3 DEF NothingToRecover, RecoverySkips, RecoveryFails, RecoverySyncs, transition_state,
       WatchInv, RootKnown, ClosedRoot
  <2>4. RootKnown'
    BY <2>1, <2>2 DEF WatchInv, RootKnown
  <2>5. ClosedNews'
    BY <2>1, <2>3, StepFrame DEF WatchInv, ClosedNews
  <2>6. StopsCancelled'
    BY <2>1, StepFrame DEF WatchInv, StopsCancelled
  <2> QED BY <2>2, <2>4, <2>5, <2>6 DEF WatchInv, Watched
<1>4. CASE RecoveryResumes
  <2>1. UNCHANGED <<row, launch, cancel, ws>> /\ boot' = "insert" /\ mon' = Monitored("seed")
    BY <1>4 DEF RecoveryResumes
  <2>2. ClosedNews'
    BY <2>1, MonitoredFacts, StepFrame DEF WatchInv, ClosedNews
  <2> QED BY <2>1, <2>2, MonitoredFacts DEF WatchInv, RootKnown, StopsCancelled, Watched, WatchTasks
<1>5. CASE RecoveryInserts
  <2>1. UNCHANGED <<row, launch, cancel, mon, ws, unwatched>> /\ boot = "insert" /\ boot' = "up" /\ handle' = TRUE
    BY <1>5 DEF RecoveryInserts, history
  <2> QED BY <2>1 DEF WatchInv, RootKnown, ClosedNews, ClosedRoot, StopsCancelled, Watched
<1> QED BY <1>1, <1>2, <1>3, <1>4, <1>5 DEF recover_one

\* The invariant behind both: who knows the root, what the monitor heard, who
\* may stop it, and where an ACTIVE session is between spawn and insertion.
THEOREM WatchInvariant == Spec => []WatchInv
<1>1. Init => WatchInv
  <2> SUFFICES ASSUME Init PROVE WatchInv
    OBVIOUS
  <2>1. /\ \A l \in Launches : launch[l].pc = "idle"
        /\ \A c \in Cancels : cancel[c].pc = "idle"
        /\ row.state = "configuring" /\ mon = Monitored("off")
    BY DEF Init, NoLaunch, NoCancel
  <2> QED BY <2>1, MonitoredFacts DEF WatchInv, RootKnown, ClosedNews, StopsCancelled, Watched
<1>2. SessionInv /\ WatchInv /\ [Next]_vars => WatchInv'
  <2> SUFFICES ASSUME SessionInv, WatchInv, [Next]_vars PROVE WatchInv'
    OBVIOUS
  <2>1. CASE Next
    BY <2>1, LaunchWatch, CancelWatch, MonitorWatch, ProcessWatch DEF Next
  <2>2. CASE UNCHANGED vars
    BY <2>2 DEF vars, WatchInv, RootKnown, ClosedNews, ClosedRoot, StopsCancelled, Watched
  <2> QED BY <2>1, <2>2
<1> QED
  BY <1>1, <1>2, SessionInvariant, PTL DEF Spec

\* A session reads COMPLETED only when its root workspace closed, whether the
\* monitor or the recovery wrote it and whatever the runtime forgets later.
THEOREM CompletedSessionsClosed == Spec => []CompletedIsClosed
<1>1. WatchInv => CompletedIsClosed
  BY DEF WatchInv, ClosedNews, ClosedRoot, CompletedIsClosed
<1> QED
  BY <1>1, WatchInvariant, PTL

\* While the Console serves, an ACTIVE session has a monitor nobody told to stop
\* and an entry in active_sessions, but for the launch about to make them.
THEOREM ActiveSessionsWatched == Spec => []ActiveIsWatched
<1>1. WatchInv => ActiveIsWatched
  BY DEF WatchInv, StopsCancelled, Watched, WatchTasks, ActiveIsWatched
<1> QED
  BY <1>1, WatchInvariant, PTL
=============================================================================
