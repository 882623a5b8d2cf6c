------------------------------ MODULE Resources ------------------------------
(***************************************************************************)
(* Resource control of the coordinator: the timeout tracker, the budget    *)
(* enforcer with the dispatcher's allocation, and the liveness monitor.    *)
(* Time is the millisecond count the coordinator passes in; it advances by *)
(* Tick.  A budget has one limited dimension here: the five of the code    *)
(* are checked and raised independently in the same way.                   *)
(***************************************************************************)
EXTENDS WorkspaceFsm, Integers

CONSTANTS
  Spaces,       \* workspaces under control
  NoEntry,      \* no entry in the map, or no limit (None)
  Limits,       \* limits in use, 0 (which means none) included
  Interval,     \* LivenessMonitor::interval_ms, 0 = disabled
  MarginPct,    \* DispatchConfig::budget_margin, in percent
  WarnPct,      \* ResourceBudget::warning_threshold, in percent
  MaxNow, MaxUsage, MaxLimit    \* bounds on time, usage and raised limits

\* TimeoutTracker's entry: the time banked, the limit and the running stretch.
TimerEntry == [elapsed : Nat, limit : Nat, running : BOOLEAN, resumed : Nat]

ASSUME ResourcesAssumption ==
  /\ Limits \subseteq Nat /\ NoEntry \notin Nat \cup TimerEntry
  /\ Interval \in Nat /\ MarginPct \in Nat /\ WarnPct \in 0..100

VARIABLES
  now,        \* the caller's clock
  state,      \* the workspace state last reported
  timer,      \* TimeoutTracker::entries
  spent,      \* ticks spent in a timer-active state since registration
  usage,      \* ResourceUsage
  budget,     \* ResourceBudget limit, NoEntry = None
  last        \* LivenessMonitor::last_activity

resourceVars == <<now, state, timer, spent, usage, budget, last>>

IsTimerActive(s) == s \in {"Active", "Blocked", "Conflicted"}

Registered(w) == timer[w] # NoEntry

\* u64::saturating_sub
SatSub(a, b) == IF a > b THEN a - b ELSE 0

\* TimeoutTracker::elapsed_ms
Elapsed(w) ==
  IF ~Registered(w) THEN 0
  ELSE timer[w].elapsed
       + (IF timer[w].running THEN SatSub(now, timer[w].resumed) ELSE 0)

\* TimeoutTracker::check_expired: a limit of 0 never expires.
Expired ==
  {w \in Spaces : /\ Registered(w)
                  /\ timer[w].limit # 0
                  /\ Elapsed(w) >= timer[w].limit}

\* BudgetEnforcer::check_dim and check: None and 0 are unlimited.
Verdict(used, limit) ==
  IF limit = NoEntry \/ limit = 0 THEN "Ok"
  ELSE IF used >= limit THEN "Exceeded"
  ELSE IF used * 100 >= limit * WarnPct THEN "Warning"
  ELSE "Ok"

\* Dispatcher::allocate_budget: the default plus the margin, truncated.
AllocateBudget(base) ==
  IF base = NoEntry THEN NoEntry ELSE (base * (100 + MarginPct)) \div 100

\* LivenessMonitor::check_inactive
Inactive ==
  {w \in Spaces : Interval > 0 /\ last[w] # NoEntry /\ SatSub(now, last[w]) >= Interval}

ResourcesInit ==
  /\ now = 0
  /\ state = [w \in Spaces |-> "Idle"]
  /\ timer = [w \in Spaces |-> NoEntry]
  /\ spent = [w \in Spaces |-> 0]
  /\ usage = [w \in Spaces |-> 0]
  /\ budget = [w \in Spaces |-> NoEntry]
  /\ last = [w \in Spaces |-> NoEntry]

\* The coordinator puts a new workspace under control: TimeoutTracker::register,
\* LivenessMonitor::register and the allocated budget.
Register(w, limit, base) ==
  /\ ~Registered(w) /\ state[w] = "Idle"
  /\ timer' = [timer EXCEPT ![w] = [elapsed |-> 0, limit |-> limit,
                                    running |-> FALSE, resumed |-> 0]]
  /\ budget' = [budget EXCEPT ![w] = AllocateBudget(base)]
  /\ last' = [last EXCEPT ![w] = now]
  /\ UNCHANGED <<now, state, spent, usage>>

\* Mutant: pausing forgets the running stretch.
Mutant_DropStretch(w, s) ==
  timer' = [timer EXCEPT ![w] =
    IF IsTimerActive(s) /\ ~@.running
    THEN [@ EXCEPT !.running = TRUE, !.resumed = now]
    ELSE IF ~IsTimerActive(s) /\ @.running THEN [@ EXCEPT !.running = FALSE]
    ELSE @]

\* TimeoutTracker::on_state_change on a registered workspace.
TimerStateChange(w, s) ==
  LET e == timer[w]
  IN  timer' = [timer EXCEPT ![w] =
        IF IsTimerActive(s) /\ ~e.running
        THEN [e EXCEPT !.running = TRUE, !.resumed = now]
        ELSE IF ~IsTimerActive(s) /\ e.running
        THEN [e EXCEPT !.running = FALSE, !.elapsed = @ + SatSub(now, e.resumed)]
        ELSE e]

StateChange(w, trigger) ==
  /\ Registered(w) /\ IsLegal(state[w], trigger)
  /\ state' = [state EXCEPT ![w] = NextState(@, trigger)]
  /\ TimerStateChange(w, state'[w])
  /\ UNCHANGED <<now, spent, usage, budget, last>>

\* TimeoutTracker::extend
ExtendTimeout(w, add) ==
  /\ Registered(w) /\ timer[w].limit + add <= MaxLimit
  /\ timer' = [timer EXCEPT ![w].limit = @ + add]
  /\ UNCHANGED <<now, state, spent, usage, budget, last>>

\* Mutant: a raise replaces the limit.
Mutant_ReplaceLimit(limit, add) ==
  IF limit = NoEntry \/ add = NoEntry THEN limit ELSE add

\* BudgetEnforcer::increase_budget: nothing is added to or by an absent limit.
Increased(limit, add) ==
  IF limit = NoEntry \/ add = NoEntry THEN limit ELSE limit + add

IncreaseBudget(w, add) ==
  /\ Registered(w)
  /\ add # NoEntry /\ budget[w] # NoEntry => budget[w] + add <= MaxLimit
  /\ budget' = [budget EXCEPT ![w] = Increased(@, add)]
  /\ UNCHANGED <<now, state, timer, spent, usage, last>>

\* Usage is reported; it counts as activity.
Use(w) ==
  /\ Registered(w) /\ usage[w] < MaxUsage
  /\ usage' = [usage EXCEPT ![w] = @ + 1]
  /\ last' = [last EXCEPT ![w] = now]
  /\ UNCHANGED <<now, state, timer, spent, budget>>

\* LivenessMonitor::reset_activity: only for a workspace it still knows.
ResetActivity(w) ==
  /\ last[w] # NoEntry
  /\ last' = [last EXCEPT ![w] = now]
  /\ UNCHANGED <<now, state, timer, spent, usage, budget>>

\* Mutant: only the timer forgets the workspace.
Mutant_KeepMonitored(w) ==
  /\ Registered(w) /\ state[w] \in TerminalStates
  /\ timer' = [timer EXCEPT ![w] = NoEntry]
  /\ UNCHANGED <<now, state, spent, usage, budget, last>>

\* TimeoutTracker::remove and LivenessMonitor::remove on a terminal state.
StopControl(w) ==
  /\ Registered(w) /\ state[w] \in TerminalStates
  /\ timer' = [timer EXCEPT ![w] = NoEntry]
  /\ last' = [last EXCEPT ![w] = NoEntry]
  /\ UNCHANGED <<now, state, spent, usage, budget>>

Tick ==
  /\ now < MaxNow
  /\ now' = now + 1
  /\ spent' = [w \in Spaces |->
                 IF Registered(w) /\ IsTimerActive(state[w])
                 THEN spent[w] + 1 ELSE spent[w]]
  /\ UNCHANGED <<state, timer, usage, budget, last>>

ResourcesNext ==
  \/ \E w \in Spaces, limit \in Limits, base \in Limits \cup {NoEntry} :
        Register(w, limit, base)
  \/ \E w \in Spaces, trigger \in {"ReceiveFirstEnvelope", "AgentBlocked",
        "AgentStarted", "AgentComplete", "CoordinatorSuspend",
        "CoordinatorResume", "ConflictDetected", "TimeoutExceeded",
        "ConflictUnresolvable", "IntegrationSucceeded"} : StateChange(w, trigger)
  \/ \E w \in Spaces, add \in Limits : ExtendTimeout(w, add)
  \/ \E w \in Spaces, add \in Limits \cup {NoEntry} : IncreaseBudget(w, add)
  \/ \E w \in Spaces : Use(w)
  \/ \E w \in Spaces : ResetActivity(w)
  \/ \E w \in Spaces : StopControl(w)
  \/ Tick

ResourcesSpec == ResourcesInit /\ [][ResourcesNext]_resourceVars

(* ------------------------------- properties ----------------------------- *)
\* The tracked time is the time the workspace really spent in timer-active
\* states, over every sequence of blocking, suspending and resuming: pauses
\* are not charged, and no stretch is lost or counted twice.
ElapsedExact == \A w \in Spaces : Registered(w) => Elapsed(w) = spent[w]

\* A workspace whose time is not extended stays expired until it is removed:
\* pausing the timer cannot bring it back under its limit.
ExpiryIsSticky ==
  [][\A w \in Expired : w \in Expired' \/ timer'[w] = NoEntry
                        \/ timer'[w].limit > timer[w].limit]_resourceVars

\* Raising a limit that is in force never makes the verdict on the same usage
\* worse.  (A limit of 0 is no limit: adding to it does introduce one.)
RaiseNeverTightens ==
  [][\A w \in Spaces :
       /\ budget[w] # NoEntry /\ budget[w] > 0 /\ budget'[w] # budget[w]
       => /\ budget'[w] # NoEntry /\ budget'[w] >= budget[w]
          /\ Verdict(usage[w], budget[w]) # "Exceeded"
             => Verdict(usage[w], budget'[w]) # "Exceeded"]_resourceVars

\* A workspace that was removed when it ended is not reported as inactive.
RemovedIsForgotten ==
  \A w \in Inactive : Registered(w)

\* Resource control over any sequence of state changes, extensions, raises and
\* removals: time is charged exactly, expiry and limits only move one way.
BudgetsHold ==
  /\ [](ElapsedExact /\ RemovedIsForgotten)
  /\ ExpiryIsSticky
  /\ RaiseNeverTightens
=============================================================================
