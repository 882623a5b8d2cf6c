-------------------------- MODULE CoordinatorProofs --------------------------
(***************************************************************************)
(* The coordinator's structures, for any set of workspaces, tasks, users   *)
(* and artifacts.                                                          *)
(*                                                                         *)
(* Resource control: the timer of a registered workspace has banked and is *)
(* running exactly the time it spent in timer-active states.  Topology:    *)
(* one tree, and indices that agree with it.  Scheduling: the readiness    *)
(* counter of a waiting task counts its open dependencies, a binding is    *)
(* known on both sides, and a bound workspace exists.  Integrations: the   *)
(* first conflict that blocks decides.                                     *)
(*                                                                         *)
(* The loops of the dispatcher and of the resolver are recursive functions *)
(* on 0..n: that there is one is shown by induction over sets of numbers,  *)
(* and what holds after every round by the same induction.                 *)
(***************************************************************************)
EXTENDS Scheduling, Resources, Integration, SequenceTheorems, FiniteSetTheorems, WellFoundedInduction,
        TLAPS

(* --------------------------- resource control --------------------------- *)
\* A legal transition leads to a state of the machine, never back to Idle.
LEMMA NeverBackToIdle ==
  ASSUME NEW s, NEW t, IsLegal(s, t)
  PROVE  NextState(s, t) \in WorkspaceStates \ {"Idle"}
<1>1. <<s, t, NextState(s, t)>> \in WorkspaceEdges /\ NextState(s, t) \in WorkspaceStates
  BY DEF IsLegal, NextState
<1>2. \A to : <<s, t, to>> \in WorkspaceEdges => to # "Idle"
  BY DEF WorkspaceEdges
<1> QED
  BY <1>1, <1>2

\* The timer of one workspace, given its state, the clock and the time it
\* really spent in timer-active states.
Charged(entry, st, clock, used) ==
  /\ entry \in TimerEntry
  /\ entry.running <=> IsTimerActive(st)
  /\ entry.resumed <= clock
  /\ used = entry.elapsed + (IF entry.running THEN clock - entry.resumed ELSE 0)

\* Why a workspace that was removed is never registered again: it ended, and
\* one that is still Idle and not registered has nothing on its account.
Account(w) ==
  /\ Registered(w) => Charged(timer[w], state[w], now, spent[w])
  /\ ~Registered(w) /\ state[w] = "Idle" => spent[w] = 0 /\ budget[w] = NoEntry
  /\ last[w] # NoEntry => last[w] \in Nat /\ Registered(w)

ResourcesTypes ==
  /\ now \in Nat
  /\ state \in [Spaces -> WorkspaceStates]
  /\ DOMAIN timer = Spaces /\ timer = [w \in Spaces |-> timer[w]]
  /\ spent \in [Spaces -> Nat]
  /\ usage \in [Spaces -> Nat]
  /\ budget \in [Spaces -> Nat \cup {NoEntry}]
  /\ last \in [Spaces -> Nat \cup {NoEntry}]

ResourcesInv == ResourcesTypes /\ \A w \in Spaces : Account(w)

\* The tracker's elapsed time of a charged entry is the time spent.
LEMMA ChargedIsElapsed ==
  ASSUME ResourcesTypes, NEW w \in Spaces, Registered(w),
         Charged(timer[w], state[w], now, spent[w])
  PROVE  Elapsed(w) = spent[w]
<1>1. PICK e \in TimerEntry : e = timer[w]
  BY DEF Charged
<1>2. e.elapsed \in Nat /\ e.resumed \in Nat /\ now \in Nat
  BY DEF TimerEntry, ResourcesTypes
<1>3. e.resumed <= now /\ spent[w] = e.elapsed + (IF e.running THEN now - e.resumed ELSE 0)
  BY <1>1 DEF Charged
<1>4. SatSub(now, e.resumed) = now - e.resumed
  BY <1>2, <1>3 DEF SatSub
<1> QED
  BY <1>1, <1>2, <1>3, <1>4 DEF Elapsed

\* What the two state invariants say follows.
LEMMA ResourcesInvImplies ==
  ASSUME ResourcesInv
  PROVE  ElapsedExact /\ RemovedIsForgotten
<1>1. ElapsedExact
  BY ChargedIsElapsed DEF ElapsedExact, ResourcesInv, Account
<1>2. RemovedIsForgotten
  BY DEF RemovedIsForgotten, Inactive, ResourcesInv, Account
<1> QED
  BY <1>1, <1>2

\* No workspace is registered yet.
LEMMA ResourcesInvInit ==
  ASSUME ResourcesInit
  PROVE  ResourcesInv
BY ResourcesAssumption DEF ResourcesInit, ResourcesInv, ResourcesTypes, Account, Registered, WorkspaceStates

\* The allocated budget is a number when the default is one.
LEMMA AllocatedType ==
  ASSUME NEW base \in Nat \cup {NoEntry}
  PROVE  AllocateBudget(base) \in Nat \cup {NoEntry}
<1>1. CASE base = NoEntry
  BY <1>1 DEF AllocateBudget
<1>2. CASE base # NoEntry
  <2>1. base \in Nat /\ 100 + MarginPct \in Nat
    BY <1>2, ResourcesAssumption
  <2>2. PICK m \in Nat : m = base * (100 + MarginPct)
    BY <2>1
  <2>3. m \div 100 \in Nat
    BY <2>2
  <2> QED
    BY <1>2, <2>2, <2>3 DEF AllocateBudget
<1> QED
  BY <1>1, <1>2

\* Registration opens an account with nothing on it.
LEMMA RegisterKeeps ==
  ASSUME ResourcesInv, NEW w \in Spaces, NEW limit \in Limits, NEW base \in Limits \cup {NoEntry},
         Register(w, limit, base)
  PROVE  ResourcesInv'
<1> DEFINE e == [elapsed |-> 0, limit |-> limit, running |-> FALSE, resumed |-> 0]
<1>1. limit \in Nat /\ base \in Nat \cup {NoEntry}
  BY ResourcesAssumption
<1>2. e \in TimerEntry
  BY <1>1 DEF TimerEntry
<1>3. ResourcesTypes'
  BY <1>1, AllocatedType DEF Register, ResourcesInv, ResourcesTypes
<1>4. ASSUME NEW x \in Spaces PROVE Account(x)'
  <2>1. CASE x = w
    <3>1. timer'[x] = e /\ last'[x] = now /\ state'[x] = "Idle" /\ spent'[x] = 0 /\ now' = now
      BY <2>1 DEF Register, ResourcesInv, ResourcesTypes, Account
    <3>2. Registered(x)'
      BY <3>1, <1>2, ResourcesAssumption DEF Registered
    <3>3. Charged(e, "Idle", now, 0)
      BY <1>2 DEF Charged, IsTimerActive, ResourcesInv, ResourcesTypes
    <3> QED
      BY <3>1, <3>2, <3>3 DEF Account, ResourcesInv, ResourcesTypes
  <2>2. CASE x # w
    <3>1. timer'[x] = timer[x] /\ last'[x] = last[x] /\ budget'[x] = budget[x]
          /\ state' = state /\ spent' = spent /\ now' = now
      BY <2>2 DEF Register, ResourcesInv, ResourcesTypes
    <3> QED
      BY <3>1 DEF Account, Registered, ResourcesInv
  <2> QED
    BY <2>1, <2>2
<1> QED
  BY <1>3, <1>4 DEF ResourcesInv

\* What on_state_change does to one entry: it starts, banks or leaves the
\* running stretch, and the account stays exact.
LEMMA StretchIsBanked ==
  ASSUME NEW e, NEW s, NEW t, NEW clock \in Nat, NEW used, Charged(e, s, clock, used)
  PROVE  /\ IsTimerActive(t) /\ ~e.running
              => Charged([e EXCEPT !.running = TRUE, !.resumed = clock], t, clock, used)
         /\ ~IsTimerActive(t) /\ e.running
              => Charged([e EXCEPT !.running = FALSE, !.elapsed = @ + SatSub(clock, e.resumed)],
                         t, clock, used)
         /\ (IsTimerActive(t) <=> e.running) => Charged(e, t, clock, used)
<1>1. e \in TimerEntry /\ e.resumed <= clock
      /\ used = e.elapsed + (IF e.running THEN clock - e.resumed ELSE 0)
  BY DEF Charged
<1>2. PICK b \in Nat, r \in Nat : b = e.elapsed /\ r = e.resumed
  BY <1>1 DEF TimerEntry
<1>3. e.running \in BOOLEAN
  BY <1>1 DEF TimerEntry
<1>4. ASSUME IsTimerActive(t), ~e.running
      PROVE  Charged([e EXCEPT !.running = TRUE, !.resumed = clock], t, clock, used)
  <2>1. PICK f : f = [e EXCEPT !.running = TRUE, !.resumed = clock]
    OBVIOUS
  <2>2. f \in TimerEntry /\ f.running = TRUE /\ f.resumed = clock /\ f.elapsed = b
    BY <1>1, <1>2, <2>1 DEF TimerEntry
  <2>3. used = b
    BY <1>1, <1>2, <1>4
  <2>4. used = b + (clock - clock)
    BY <2>3, <1>2
  <2> QED
    BY <2>1, <2>2, <2>4, <1>4 DEF Charged
<1>5. ASSUME ~IsTimerActive(t), e.running
      PROVE  Charged([e EXCEPT !.running = FALSE, !.elapsed = @ + SatSub(clock, e.resumed)],
                     t, clock, used)
  <2>1. SatSub(clock, r) = clock - r /\ clock - r \in Nat
    BY <1>1, <1>2 DEF SatSub
  <2>2. PICK f : f = [e EXCEPT !.running = FALSE, !.elapsed = @ + SatSub(clock, e.resumed)]
    OBVIOUS
  <2>3. f.elapsed = b + (clock - r) /\ f.running = FALSE /\ f.resumed = r
    BY <2>1, <2>2, <1>1, <1>2 DEF TimerEntry
  <2>4. b + (clock - r) \in Nat
    BY <2>1, <1>2
  <2>5. f \in TimerEntry
    BY <2>2, <2>3, <2>4, <1>1, <1>2 DEF TimerEntry
  <2>6. used = b + (clock - r) /\ b + (clock - r) = (b + (clock - r)) + 0
    BY <1>1, <1>2, <1>5, <2>4
  <2> QED
    BY <2>2, <2>3, <2>5, <2>6, <1>1, <1>2, <1>5 DEF Charged
<1>6. (IsTimerActive(t) <=> e.running) => Charged(e, t, clock, used)
  BY DEF Charged
<1> QED
  BY <1>4, <1>5, <1>6

\* A state change of a registered workspace keeps its account exact.
LEMMA StateChangeKeeps ==
  ASSUME ResourcesInv, NEW w \in Spaces, NEW t, StateChange(w, t)
  PROVE  ResourcesInv'
<1> DEFINE st == NextState(state[w], t)
<1> USE DEF TimerStateChange
<1>1. st \in WorkspaceStates \ {"Idle"}
  BY NeverBackToIdle DEF StateChange
<1>2. state' = [state EXCEPT ![w] = st]
  BY DEF StateChange
<1>3. state'[w] = st
  BY <1>2 DEF ResourcesInv, ResourcesTypes
<1>4. PICK e : e = timer[w]
  OBVIOUS
<1>5. PICK f : /\ timer' = [timer EXCEPT ![w] = f]
               /\ f = IF IsTimerActive(st) /\ ~e.running
                      THEN [e EXCEPT !.running = TRUE, !.resumed = now]
                      ELSE IF ~IsTimerActive(st) /\ e.running
                      THEN [e EXCEPT !.running = FALSE, !.elapsed = @ + SatSub(now, e.resumed)]
                      ELSE e
  BY <1>3, <1>4 DEF StateChange
<1>6. UNCHANGED <<now, spent, usage, budget, last>> /\ Registered(w)
  BY DEF StateChange
<1>7. Charged(e, state[w], now, spent[w]) /\ now \in Nat
  BY <1>4, <1>6 DEF ResourcesInv, Account, ResourcesTypes
<1>8. e.running \in BOOLEAN
  BY <1>7 DEF Charged, TimerEntry
<1>9. Charged(f, st, now, spent[w])
  <2> HIDE DEF st
  <2>1. CASE IsTimerActive(st) /\ ~e.running
    <3>1. f = [e EXCEPT !.running = TRUE, !.resumed = now]
      BY <1>5, <2>1
    <3> QED
      BY <3>1, <2>1, <1>7, StretchIsBanked
  <2>2. CASE ~IsTimerActive(st) /\ e.running
    <3>1. f = [e EXCEPT !.running = FALSE, !.elapsed = @ + SatSub(now, e.resumed)]
      BY <1>5, <2>2
    <3> QED
      BY <3>1, <2>2, <1>7, StretchIsBanked
  <2>3. CASE IsTimerActive(st) <=> e.running
    <3>1. f = e
      BY <1>5, <2>3
    <3> QED
      BY <3>1, <2>3, <1>7, StretchIsBanked
  <2> QED
    BY <2>1, <2>2, <2>3, <1>8
<1>10. f # NoEntry
  BY <1>9, ResourcesAssumption DEF Charged
<1>11. ResourcesTypes'
  BY <1>1, <1>2, <1>5, <1>6 DEF ResourcesInv, ResourcesTypes
<1>12. ASSUME NEW x \in Spaces PROVE Account(x)'
  <2>1. CASE x = w
    <3>1. timer'[x] = f /\ state'[x] = st
      BY <2>1, <1>2, <1>5 DEF ResourcesInv, ResourcesTypes
    <3> QED
      BY <3>1, <2>1, <1>1, <1>6, <1>9, <1>10 DEF Account, Registered, ResourcesInv
  <2>2. CASE x # w
    <3>1. timer'[x] = timer[x] /\ state'[x] = state[x]
      BY <2>2, <1>2, <1>5 DEF ResourcesInv, ResourcesTypes
    <3> QED
      BY <3>1, <1>6 DEF Account, Registered, ResourcesInv
  <2> QED
    BY <2>1, <2>2
<1> QED
  BY <1>11, <1>12 DEF ResourcesInv

\* An extension moves the limit and nothing else.
LEMMA ExtendKeeps ==
  ASSUME ResourcesInv, NEW w \in Spaces, NEW add \in Limits, ExtendTimeout(w, add)
  PROVE  ResourcesInv'
<1>1. add \in Nat
  BY ResourcesAssumption
<1>2. PICK e \in TimerEntry : e = timer[w]
  BY DEF ExtendTimeout, ResourcesInv, Account, Charged
<1>3. Charged(e, state[w], now, spent[w])
  BY <1>2 DEF ExtendTimeout, ResourcesInv, Account
<1>4. PICK f : f = [e EXCEPT !.limit = @ + add] /\ timer' = [timer EXCEPT ![w] = f]
  BY <1>2 DEF ExtendTimeout
<1>5. f \in TimerEntry /\ f.running = e.running /\ f.resumed = e.resumed /\ f.elapsed = e.elapsed
  BY <1>1, <1>4 DEF TimerEntry
<1>6. Charged(f, state[w], now, spent[w])
  BY <1>3, <1>5 DEF Charged
<1>7. UNCHANGED <<now, state, spent, usage, budget, last>>
  BY DEF ExtendTimeout
<1>8. ResourcesTypes'
  BY <1>4, <1>7 DEF ResourcesInv, ResourcesTypes
<1>9. ASSUME NEW x \in Spaces PROVE Account(x)'
  <2>1. timer'[x] = IF x = w THEN f ELSE timer[x]
    BY <1>4 DEF ResourcesInv, ResourcesTypes
  <2>2. f # NoEntry /\ e # NoEntry
    BY <1>5, <1>2, ResourcesAssumption
  <2> QED
    BY <2>1, <2>2, <1>2, <1>6, <1>7 DEF Account, Registered, ResourcesInv
<1> QED
  BY <1>8, <1>9 DEF ResourcesInv

\* Raises, usage and activity touch no timer.
LEMMA BooksKeep ==
  ASSUME ResourcesInv, NEW w \in Spaces,
         \/ \E add \in Limits \cup {NoEntry} : IncreaseBudget(w, add)
         \/ Use(w)
         \/ ResetActivity(w)
  PROVE  ResourcesInv'
<1>1. UNCHANGED <<now, state, timer, spent>>
  BY DEF IncreaseBudget, Use, ResetActivity
<1>2. /\ budget' \in [Spaces -> Nat \cup {NoEntry}]
      /\ \A x \in Spaces : ~Registered(x) => budget'[x] = budget[x]
  <2>1. CASE \E add \in Limits \cup {NoEntry} : IncreaseBudget(w, add)
    <3>1. PICK add \in Limits \cup {NoEntry} : IncreaseBudget(w, add)
      BY <2>1
    <3>2. Increased(budget[w], add) \in Nat \cup {NoEntry}
      BY ResourcesAssumption DEF Increased, ResourcesInv, ResourcesTypes
    <3> QED
      BY <3>1, <3>2 DEF IncreaseBudget, ResourcesInv, ResourcesTypes
  <2>2. CASE UNCHANGED budget
    BY <2>2 DEF ResourcesInv, ResourcesTypes
  <2> QED
    BY <2>1, <2>2 DEF Use, ResetActivity
<1>3. usage' \in [Spaces -> Nat]
  BY DEF IncreaseBudget, Use, ResetActivity, ResourcesInv, ResourcesTypes
<1>4. /\ last' \in [Spaces -> Nat \cup {NoEntry}]
      /\ \A x \in Spaces : last'[x] # NoEntry => last'[x] \in Nat /\ Registered(x)
  BY DEF IncreaseBudget, Use, ResetActivity, ResourcesInv, ResourcesTypes, Account
<1>5. ResourcesTypes'
  BY <1>1, <1>2, <1>3, <1>4 DEF ResourcesInv, ResourcesTypes
<1>6. ASSUME NEW x \in Spaces PROVE Account(x)'
  BY <1>1, <1>2, <1>4 DEF ResourcesInv, Account, Registered
<1> QED
  BY <1>5, <1>6 DEF ResourcesInv

\* Removal takes the workspace out of both maps.
LEMMA StopKeeps ==
  ASSUME ResourcesInv, NEW w \in Spaces, StopControl(w)
  PROVE  ResourcesInv'
<1>1. ResourcesTypes'
  BY DEF StopControl, ResourcesInv, ResourcesTypes
<1>2. ASSUME NEW x \in Spaces PROVE Account(x)'
  <2>1. CASE x = w
    <3>1. timer'[x] = NoEntry /\ last'[x] = NoEntry /\ state'[x] # "Idle"
      BY <2>1 DEF StopControl, ResourcesInv, ResourcesTypes, TerminalStates
    <3> QED
      BY <3>1 DEF Account, Registered
  <2>2. CASE x # w
    <3>1. timer'[x] = timer[x] /\ last'[x] = last[x] /\ UNCHANGED <<now, state, spent, budget>>
      BY <2>2 DEF StopControl, ResourcesInv, ResourcesTypes
    <3> QED
      BY <3>1 DEF Account, Registered, ResourcesInv
  <2> QED
    BY <2>1, <2>2
<1> QED
  BY <1>1, <1>2 DEF ResourcesInv

\* The clock charges exactly the workspaces whose stretch is running.
LEMMA TickKeeps ==
  ASSUME ResourcesInv, Tick
  PROVE  ResourcesInv'
<1>1. ResourcesTypes'
  BY DEF Tick, ResourcesInv, ResourcesTypes
<1>2. ASSUME NEW x \in Spaces PROVE Account(x)'
  <2>1. UNCHANGED <<state, timer, budget, last>> /\ now' = now + 1 /\ now \in Nat /\ spent[x] \in Nat
    BY DEF Tick, ResourcesInv, ResourcesTypes
  <2>2. spent'[x] = IF Registered(x) /\ IsTimerActive(state[x]) THEN spent[x] + 1 ELSE spent[x]
    BY DEF Tick
  <2>3. ASSUME Registered(x) PROVE Charged(timer[x], state[x], now', spent'[x])
    <3>1. Charged(timer[x], state[x], now, spent[x])
      BY <2>3 DEF ResourcesInv, Account
    <3>2. PICK e \in TimerEntry : e = timer[x]
      BY <3>1 DEF Charged
    <3>3. PICK b \in Nat, r \in Nat : b = e.elapsed /\ r = e.resumed
      BY <3>2 DEF TimerEntry
    <3>4. r <= now + 1
      BY <3>1, <3>2, <3>3, <2>1 DEF Charged
    <3>5. CASE e.running
      <4>1. spent[x] = b + (now - r) /\ spent'[x] = spent[x] + 1
        BY <3>1, <3>2, <3>3, <3>5, <2>2, <2>3 DEF Charged
      <4>2. spent'[x] = b + ((now + 1) - r)
        BY <4>1, <2>1, <3>3
      <4> QED
        BY <4>2, <3>1, <3>2, <3>3, <3>4, <3>5, <2>1 DEF Charged
    <3>6. CASE ~e.running
      <4>1. spent'[x] = spent[x]
        BY <3>1, <3>2, <3>6, <2>2 DEF Charged
      <4> QED
        BY <4>1, <3>1, <3>2, <3>3, <3>4, <3>6, <2>1 DEF Charged
    <3> QED
      BY <3>5, <3>6
  <2>4. ~Registered(x) /\ state[x] = "Idle" => spent'[x] = 0 /\ budget[x] = NoEntry
    BY <2>2 DEF ResourcesInv, Account
  <2>5. last[x] # NoEntry => last[x] \in Nat /\ Registered(x)
    BY DEF ResourcesInv, Account
  <2> QED
    BY <2>1, <2>3, <2>4, <2>5 DEF Account, Registered
<1> QED
  BY <1>1, <1>2 DEF ResourcesInv

\* Every step keeps the accounts.
LEMMA ResourcesInvNext ==
  ASSUME ResourcesInv, [ResourcesNext]_resourceVars
  PROVE  ResourcesInv'
<1>1. CASE ResourcesNext
  BY <1>1, RegisterKeeps, StateChangeKeeps, ExtendKeeps, BooksKeep, StopKeeps, TickKeeps
  DEF ResourcesNext
<1>2. CASE UNCHANGED resourceVars
  BY <1>2 DEF resourceVars, ResourcesInv, ResourcesTypes, Account, Registered
<1> QED
  BY <1>1, <1>2

\* Extending is the only step that moves the limit of a registered workspace,
\* and it moves it up; the time spent never goes back.
LEMMA LimitsOnlyGrow ==
  ASSUME ResourcesInv, ResourcesNext, NEW w \in Spaces, Registered(w), timer'[w] # NoEntry
  PROVE  /\ timer[w].limit \in Nat /\ timer'[w].limit \in Nat
         /\ timer'[w].limit >= timer[w].limit
         /\ spent[w] \in Nat /\ spent'[w] \in Nat /\ spent'[w] >= spent[w]
<1>1. PICK e \in TimerEntry : e = timer[w]
  BY DEF ResourcesInv, Account, Charged
<1>2. e.limit \in Nat
  BY DEF TimerEntry
<1>3. spent[w] \in Nat /\ spent'[w] \in Nat /\ spent'[w] >= spent[w]
  <2>1. spent' = spent \/ Tick
    BY DEF ResourcesNext, Register, StateChange, ExtendTimeout, IncreaseBudget, Use, ResetActivity, StopControl
  <2> QED
    BY <2>1 DEF Tick, ResourcesInv, ResourcesTypes
<1>4. timer'[w].limit \in Nat /\ timer'[w].limit >= timer[w].limit
  <2>1. CASE timer'[w] = timer[w]
    BY <2>1, <1>1, <1>2
  <2>2. ASSUME NEW x \in Spaces, NEW limit, NEW base, Register(x, limit, base)
        PROVE  timer'[w] = timer[w]
    BY <2>2 DEF Register, Registered, ResourcesInv, ResourcesTypes
  <2>3. ASSUME NEW x \in Spaces, NEW t, StateChange(x, t)
        PROVE  timer'[w].limit = e.limit
    <3>1. CASE x # w
      BY <3>1, <2>3, <1>1 DEF StateChange, TimerStateChange, ResourcesInv, ResourcesTypes
    <3>2. CASE x = w
      <4>1. PICK s : TimerStateChange(w, s)
        BY <2>3, <3>2 DEF StateChange
      <4>2. \/ timer'[w] = e
            \/ timer'[w] = [e EXCEPT !.running = TRUE, !.resumed = now]
            \/ timer'[w] = [e EXCEPT !.running = FALSE, !.elapsed = @ + SatSub(now, e.resumed)]
        BY <4>1, <1>1 DEF TimerStateChange, ResourcesInv, ResourcesTypes
      <4> QED
        BY <4>2 DEF TimerEntry
    <3> QED
      BY <3>1, <3>2
  <2>4. ASSUME NEW x \in Spaces, NEW add \in Limits, ExtendTimeout(x, add)
        PROVE  timer'[w].limit \in Nat /\ timer'[w].limit >= e.limit
    <3>1. add \in Nat
      BY ResourcesAssumption
    <3>2. timer'[w] = e \/ timer'[w] = [e EXCEPT !.limit = @ + add]
      BY <2>4, <1>1 DEF ExtendTimeout, ResourcesInv, ResourcesTypes
    <3>3. timer'[w].limit = e.limit \/ timer'[w].limit = e.limit + add
      BY <3>2 DEF TimerEntry
    <3> QED
      BY <3>1, <3>3, <1>2
  <2>5. ASSUME NEW x \in Spaces, StopControl(x)
        PROVE  timer'[w] = timer[w]
    BY <2>5 DEF StopControl, ResourcesInv, ResourcesTypes
  <2>6. ASSUME NEW x \in Spaces,
               \/ \E add \in Limits \cup {NoEntry} : IncreaseBudget(x, add)
               \/ Use(x)
               \/ ResetActivity(x)
               \/ Tick
        PROVE  timer'[w] = timer[w]
    BY <2>6 DEF IncreaseBudget, Use, ResetActivity, Tick
  <2> QED
    BY <1>1, <1>2, <2>1, <2>2, <2>3, <2>4, <2>5, <2>6 DEF ResourcesNext
<1> QED
  BY <1>1, <1>2, <1>3, <1>4

\* Expiry: the time spent does not shrink and the limit only grows, so what
\* has expired is under its limit again only after an extension.
LEMMA ExpiryStep ==
  ASSUME ResourcesInv, ElapsedExact', ResourcesNext, NEW w \in Expired
  PROVE  w \in Expired' \/ timer'[w] = NoEntry \/ timer'[w].limit > timer[w].limit
<1> SUFFICES ASSUME timer'[w] # NoEntry, ~(timer'[w].limit > timer[w].limit)
             PROVE  w \in Expired'
  OBVIOUS
<1>1. w \in Spaces /\ Registered(w) /\ timer[w].limit # 0 /\ Elapsed(w) >= timer[w].limit
  BY DEF Expired
<1>2. PICK k \in Nat, l \in Nat, s \in Nat, z \in Nat :
         /\ k = timer[w].limit /\ l = timer'[w].limit
         /\ s = spent[w] /\ z = spent'[w]
         /\ l >= k /\ z >= s
  BY <1>1, LimitsOnlyGrow
<1>3. Elapsed(w) = spent[w]
  BY <1>1, ResourcesInvImplies DEF ElapsedExact
<1>4. Registered(w)'
  BY DEF Registered
<1>5. Elapsed(w)' = spent'[w]
  BY <1>1, <1>4 DEF ElapsedExact
<1>6. l # 0 /\ z >= l
  BY <1>1, <1>2, <1>3
<1> QED
  BY <1>1, <1>2, <1>4, <1>5, <1>6 DEF Expired

\* check_dim reports an excess exactly at or above a limit that is in force.
LEMMA VerdictExceeds ==
  ASSUME NEW used, NEW limit
  PROVE  Verdict(used, limit) = "Exceeded" <=> limit # NoEntry /\ limit # 0 /\ used >= limit
BY DEF Verdict

\* A step that changes a limit in force raises it.
LEMMA RaiseStep ==
  ASSUME ResourcesInv, ResourcesNext, NEW w \in Spaces,
         budget[w] # NoEntry, budget[w] > 0, budget'[w] # budget[w]
  PROVE  /\ budget'[w] # NoEntry /\ budget'[w] >= budget[w]
         /\ Verdict(usage[w], budget[w]) # "Exceeded"
            => Verdict(usage[w], budget'[w]) # "Exceeded"
<1>1. PICK b \in Nat : b = budget[w]
  BY DEF ResourcesInv, ResourcesTypes
<1>2. PICK add \in Limits : budget'[w] = b + add
  <2>1. ASSUME NEW x \in Spaces, NEW limit, NEW base, Register(x, limit, base)
        PROVE  budget'[w] = budget[w]
    BY <2>1 DEF Register, ResourcesInv, ResourcesTypes, Account
  <2>2. ASSUME NEW x \in Spaces, NEW add \in Limits \cup {NoEntry}, IncreaseBudget(x, add)
        PROVE  budget'[w] = b \/ (add \in Limits /\ budget'[w] = b + add)
    BY <2>2, <1>1 DEF IncreaseBudget, Increased, ResourcesInv, ResourcesTypes
  <2>3. budget' = budget \/ (\E x \in Spaces, limit \in Limits, base \in Limits \cup {NoEntry} :
                                 Register(x, limit, base))
        \/ (\E x \in Spaces, add \in Limits \cup {NoEntry} : IncreaseBudget(x, add))
    BY DEF ResourcesNext, StateChange, ExtendTimeout, Use, ResetActivity, StopControl, Tick
  <2> QED
    BY <1>1, <2>1, <2>2, <2>3
<1>3. add \in Nat /\ usage[w] \in Nat
  BY ResourcesAssumption DEF ResourcesInv, ResourcesTypes
<1>4. b + add >= b /\ b + add \in Nat /\ NoEntry \notin Nat
  BY <1>3, ResourcesAssumption
<1>5. Verdict(usage[w], b) # "Exceeded" => Verdict(usage[w], b + add) # "Exceeded"
  <2>1. b # NoEntry /\ b # 0
    BY <1>1
  <2> QED
    BY <2>1, <1>3, <1>4, VerdictExceeds
<1> QED
  BY <1>1, <1>2, <1>4, <1>5

\* For any workspaces, limits and intervals, over any sequence of state
\* changes, extensions, raises and removals: the tracker charges exactly the
\* time spent in timer-active states, a removed workspace is not reported
\* inactive, expiry lasts until an extension, and raising a limit in force
\* never turns an acceptable usage into an excess (timeout.rs, budget.rs,
\* liveness.rs of wacp-coordinator).
THEOREM BudgetsAlwaysHold ==
  ResourcesSpec => BudgetsHold
<1>1. ResourcesInit => ResourcesInv
  BY ResourcesInvInit
<1>2. ResourcesInv /\ [ResourcesNext]_resourceVars => ResourcesInv'
  BY ResourcesInvNext
<1>3. ResourcesInv => ElapsedExact /\ RemovedIsForgotten
  BY ResourcesInvImplies
<1>4. ResourcesInv /\ ElapsedExact' /\ [ResourcesNext]_resourceVars
      => [\A w \in Expired : w \in Expired' \/ timer'[w] = NoEntry
                             \/ timer'[w].limit > timer[w].limit]_resourceVars
  BY ExpiryStep
<1>5. ResourcesInv /\ [ResourcesNext]_resourceVars
      => [\A w \in Spaces :
            /\ budget[w] # NoEntry /\ budget[w] > 0 /\ budget'[w] # budget[w]
            => /\ budget'[w] # NoEntry /\ budget'[w] >= budget[w]
               /\ Verdict(usage[w], budget[w]) # "Exceeded"
                  => Verdict(usage[w], budget'[w]) # "Exceeded"]_resourceVars
  BY RaiseStep
<1>6. ResourcesSpec => [](ElapsedExact /\ RemovedIsForgotten)
  BY <1>1, <1>2, <1>3, PTL DEF ResourcesSpec
<1>7. ResourcesSpec => ExpiryIsSticky
  BY <1>1, <1>2, <1>3, <1>4, PTL DEF ResourcesSpec, ExpiryIsSticky
<1>8. ResourcesSpec => RaiseNeverTightens
  BY <1>1, <1>2, <1>5, PTL DEF ResourcesSpec, RaiseNeverTightens
<1> QED
  BY <1>6, <1>7, <1>8 DEF BudgetsHold

(* ------------------------------- topology ------------------------------- *)
RightRecord ==
  [holder : Nodes, target : Nodes, kind : {"Send", "SendOnce", "Receive"},
   status : {"Active", "Expired", "Consumed", "Revoked"}]

Topologies ==
  [node : [Nodes -> NodeRecord \cup {NoNode}],
   originatorIndex : [Users \cup {System} -> SUBSET Nodes],
   ownerIndex : [Users -> SUBSET Nodes],
   canSee : [Nodes -> SUBSET Nodes],
   seenBy : [Nodes -> SUBSET Nodes],
   route : [Nodes -> Users \cup {NoNode}],
   rights : Seq(RightRecord),
   byHolder : [Nodes -> SUBSET Nat],
   byTarget : [Nodes -> SUBSET Nat]]

\* The parts of the invariant, one for each structure of the set.  Child lists
\* and parents agree, no list names a workspace that does not exist, and
\* everything hangs from the root.
TreeOk(tp) ==
  /\ Exists(tp, Root)
  /\ \A w \in Live(tp) \ {Root} : tp.node[w].parent \in Live(tp)
  /\ \A w, p \in Live(tp) :
        w \in tp.node[p].children <=> (w # Root /\ tp.node[w].parent = p)
  /\ \A p \in Live(tp) : tp.node[p].children \subseteq Live(tp)
  /\ Live(tp) \ {Root} \subseteq Descendants(tp, Root)

OwnersOk(tp) ==
  /\ \A u \in Users : tp.ownerIndex[u] = {w \in Live(tp) : tp.node[w].owner = u}
  /\ \A o \in Users \cup {System} :
        tp.originatorIndex[o] = {w \in Live(tp) : tp.node[w].originator = o}
  /\ \A w \in Live(tp) : tp.route[w] = tp.node[w].owner

SightOk(tp) ==
  /\ \A v, w \in Nodes : w \in tp.canSee[v] <=> v \in tp.seenBy[w]
  /\ \A w \in Live(tp) : w = Root \/ w \in tp.canSee[Root]

\* The indices name rights that exist, so that a new right's id is in none.
RightsOk(tp) ==
  \A w \in Nodes :
    /\ tp.byHolder[w] = {i \in DOMAIN tp.rights : tp.rights[i].holder = w}
    /\ tp.byTarget[w] = {i \in DOMAIN tp.rights : tp.rights[i].target = w}

TopoOk(tp) ==
  tp \in Topologies /\ TreeOk(tp) /\ OwnersOk(tp) /\ SightOk(tp) /\ RightsOk(tp)

\* The fields of a topology have their types.
LEMMA TopologyFields ==
  ASSUME NEW tp \in Topologies
  PROVE  /\ tp.node \in [Nodes -> NodeRecord \cup {NoNode}]
         /\ tp.originatorIndex \in [Users \cup {System} -> SUBSET Nodes]
         /\ tp.ownerIndex \in [Users -> SUBSET Nodes]
         /\ tp.canSee \in [Nodes -> SUBSET Nodes]
         /\ tp.seenBy \in [Nodes -> SUBSET Nodes]
         /\ tp.route \in [Nodes -> Users \cup {NoNode}]
         /\ tp.rights \in Seq(RightRecord)
         /\ tp.byHolder \in [Nodes -> SUBSET Nat]
         /\ tp.byTarget \in [Nodes -> SUBSET Nat]
BY DEF Topologies

\* An index stays one when an entry is added to it, or taken out of it.
LEMMA Indexed ==
  ASSUME NEW D, NEW S, NEW f \in [D -> SUBSET S], NEW d \in D, NEW x
  PROVE  /\ x \in S => [f EXCEPT ![d] = @ \cup {x}] \in [D -> SUBSET S]
         /\ [f EXCEPT ![d] = @ \ {x}] \in [D -> SUBSET S]
OBVIOUS

\* A workspace that exists has a record, and a record is a workspace.
LEMMA LiveNode ==
  ASSUME NEW tp \in Topologies, NEW w \in Nodes
  PROVE  /\ Exists(tp, w) <=> tp.node[w] \in NodeRecord
         /\ ~Exists(tp, w) <=> tp.node[w] = NoNode
<1>1. tp.node[w] \in NodeRecord \cup {NoNode}
  BY TopologyFields
<1> QED
  BY <1>1, TopologyAssumption DEF Exists

\* The fields of a workspace's record have their types.
LEMMA NodeFields ==
  ASSUME NEW n \in NodeRecord
  PROVE  /\ n.parent \in Nodes \cup {NoNode} /\ n.children \in SUBSET Nodes
         /\ n.owner \in Users /\ n.originator \in Users \cup {System}
         /\ n.status \in WorkspaceStates /\ n.task \in TaskIds \cup {NoNode}
BY DEF NodeRecord

\* The descendants depend on the child lists alone.
LEMMA SameChildren ==
  ASSUME NEW tp, NEW sp, \A x \in Nodes : Children(tp, x) = Children(sp, x), NEW w \in Nodes
  PROVE  Descendants(tp, w) = Descendants(sp, w)
BY DEF Descendants

\* The live workspaces but the root are closed under children: the walk from
\* a live workspace never leaves them.
LEMMA DescendantsLive ==
  ASSUME NEW tp \in Topologies, TreeOk(tp), NEW w \in Live(tp)
  PROVE  Descendants(tp, w) \subseteq Live(tp) \ {Root}
<1> DEFINE S == Live(tp) \ {Root}
<1>1. \A x \in Live(tp) : Children(tp, x) \subseteq S
  BY DEF TreeOk, Live, Children
<1>2. S \in SUBSET Nodes /\ Children(tp, w) \subseteq S /\ \A x \in S : Children(tp, x) \subseteq S
  BY <1>1 DEF Live
<1> HIDE DEF S
<1>3. Descendants(tp, w) \subseteq S
  BY <1>2 DEF Descendants
<1> QED
  BY <1>3 DEF S

\* The invariant gives the three state properties.
LEMMA TopoOkImplies ==
  ASSUME TopoOk(topo)
  PROVE  TreeIsATree /\ IndicesAgree /\ RootSeesAll
<1>1. topo \in Topologies /\ Root \in Nodes
  BY TopologyAssumption DEF TopoOk
<1>2. TreeIsATree
  <2>1. Root \in Live(topo)
    BY <1>1 DEF TopoOk, TreeOk, Live
  <2>2. Descendants(topo, Root) \subseteq Live(topo) \ {Root}
    BY <1>1, <2>1, DescendantsLive DEF TopoOk
  <2> QED
    BY <2>2 DEF TreeIsATree, TopoOk, TreeOk
<1>3. IndicesAgree
  BY DEF IndicesAgree, TopoOk, OwnersOk, SightOk, RightsOk
<1>4. RootSeesAll
  BY DEF RootSeesAll, CanSee, TopoOk, SightOk
<1> QED
  BY <1>2, <1>3, <1>4

\* A child list of a new workspace is empty; nothing else is in the tree.
LEMMA NewTopologyOk ==
  ASSUME NEW u \in Users
  PROVE  TopoOk(NewTopology(u))
<1> DEFINE tp == NewTopology(u)
           n  == NewNode(NoNode, u, System, "Active", NoNode)
<1>1. n \in NodeRecord /\ n.children = {} /\ n.owner = u /\ n.originator = System
  BY DEF NewNode, NodeRecord, WorkspaceStates
<1>2. tp.node = [w \in Nodes |-> IF w = Root THEN n ELSE NoNode]
  BY DEF NewTopology
<1>3. << >> \in Seq(RightRecord)
  OBVIOUS
<1>4. tp \in Topologies
  BY <1>1, <1>3, TopologyAssumption DEF NewTopology, Topologies
<1>5. Live(tp) = {Root} /\ tp.node[Root] = n
  BY <1>1, <1>2, TopologyAssumption DEF Live, Exists
<1>6. TreeOk(tp)
  BY <1>1, <1>5 DEF TreeOk, Live
<1>7. OwnersOk(tp)
  BY <1>1, <1>5, TopologyAssumption DEF OwnersOk, NewTopology
<1>8. SightOk(tp)
  BY <1>5 DEF SightOk, NewTopology
<1>9. RightsOk(tp)
  BY DEF RightsOk, NewTopology
<1> QED
  BY <1>4, <1>6, <1>7, <1>8, <1>9 DEF TopoOk

(* ------------------- the tree under insertion and moves ----------------- *)
\* The node map after an insertion.
Inserted(tp, w, n) ==
  [x \in Nodes |->
     IF x = w THEN n
     ELSE IF x = n.parent THEN [tp.node[x] EXCEPT !.children = @ \cup {w}]
     ELSE tp.node[x]]

\* What insert leaves in each field.
LEMMA InsertFields ==
  ASSUME NEW tp \in Topologies, NEW w \in Nodes, ~Exists(tp, w),
         NEW n \in NodeRecord, n.parent \in Nodes, Exists(tp, n.parent)
  PROVE  LET r == TreeInsert(tp, w, n)
         IN  /\ r \in Topologies
             /\ r.node = Inserted(tp, w, n)
             /\ \A o \in Users \cup {System} : r.originatorIndex[o] =
                   tp.originatorIndex[o] \cup (IF o = n.originator THEN {w} ELSE {})
             /\ \A u \in Users : r.ownerIndex[u] =
                   tp.ownerIndex[u] \cup (IF u = n.owner THEN {w} ELSE {})
             /\ r.canSee = tp.canSee /\ r.seenBy = tp.seenBy /\ r.route = tp.route
             /\ r.rights = tp.rights /\ r.byHolder = tp.byHolder /\ r.byTarget = tp.byTarget
<1> DEFINE r == TreeInsert(tp, w, n)
           grown == [tp.node[n.parent] EXCEPT !.children = @ \cup {w}]
           nodes == Inserted(tp, w, n)
<1> USE DEF Inserted
<1>1. w # n.parent /\ tp.node[n.parent] \in NodeRecord
  BY LiveNode
<1>2. grown \in NodeRecord
  BY <1>1 DEF NodeRecord
<1>3. tp.node \in [Nodes -> NodeRecord \cup {NoNode}]
  BY TopologyFields
<1>4. [tp.node EXCEPT ![w] = n, ![n.parent].children = @ \cup {w}] = nodes
  BY <1>1, <1>3
<1>5. nodes \in [Nodes -> NodeRecord \cup {NoNode}]
  <2>1. \A x \in Nodes : nodes[x] \in NodeRecord \cup {NoNode}
    BY <1>2, <1>3
  <2> QED
    BY <2>1
<1> HIDE DEF nodes, Inserted
<1>6. r = [tp EXCEPT !.node = nodes,
             !.originatorIndex[n.originator] = @ \cup {w},
             !.ownerIndex[n.owner] = @ \cup {w}]
  BY <1>4 DEF TreeInsert
<1>7. n.originator \in Users \cup {System} /\ n.owner \in Users
  BY NodeFields
<1>8. r \in Topologies
  <2>1. PICK oi \in [Users \cup {System} -> SUBSET Nodes], wi \in [Users -> SUBSET Nodes] :
           /\ oi = [tp.originatorIndex EXCEPT ![n.originator] = @ \cup {w}]
           /\ wi = [tp.ownerIndex EXCEPT ![n.owner] = @ \cup {w}]
    <3>1. tp.originatorIndex \in [Users \cup {System} -> SUBSET Nodes] /\ tp.ownerIndex \in [Users -> SUBSET Nodes]
      BY TopologyFields
    <3> QED
      BY <3>1, <1>7, Indexed
  <2>2. r = [tp EXCEPT !.node = nodes, !.originatorIndex = oi, !.ownerIndex = wi]
    BY <1>6, <2>1
  <2> HIDE DEF r
  <2> QED
    BY <2>2, <1>5 DEF Topologies
<1>9. r.node = nodes
  BY <1>6 DEF Topologies
<1>10. /\ r.originatorIndex = [tp.originatorIndex EXCEPT ![n.originator] = @ \cup {w}]
       /\ r.ownerIndex = [tp.ownerIndex EXCEPT ![n.owner] = @ \cup {w}]
       /\ r.canSee = tp.canSee /\ r.seenBy = tp.seenBy /\ r.route = tp.route
       /\ r.rights = tp.rights /\ r.byHolder = tp.byHolder /\ r.byTarget = tp.byTarget
  BY <1>6 DEF Topologies
<1>11. /\ \A o \in Users \cup {System} : r.originatorIndex[o] =
             tp.originatorIndex[o] \cup (IF o = n.originator THEN {w} ELSE {})
       /\ \A u \in Users : r.ownerIndex[u] =
             tp.ownerIndex[u] \cup (IF u = n.owner THEN {w} ELSE {})
  <2>1. tp.originatorIndex \in [Users \cup {System} -> SUBSET Nodes] /\ tp.ownerIndex \in [Users -> SUBSET Nodes]
    BY TopologyFields
  <2> HIDE DEF r
  <2> QED
    BY <2>1, <1>10
<1> QED
  BY <1>8, <1>9, <1>10, <1>11 DEF nodes

\* Insertion hangs one leaf on the tree.
LEMMA InsertTree ==
  ASSUME NEW tp \in Topologies, TreeOk(tp), NEW w \in Nodes, ~Exists(tp, w),
         NEW n \in NodeRecord, n.parent \in Nodes, Exists(tp, n.parent), n.children = {}
  PROVE  /\ Live(TreeInsert(tp, w, n)) = Live(tp) \cup {w}
         /\ TreeOk(TreeInsert(tp, w, n))
<1>1. PICK r : r = TreeInsert(tp, w, n)
  OBVIOUS
<1>2. PICK p \in Nodes : p = n.parent
  OBVIOUS
<1>3. /\ r \in Topologies
      /\ r.node = Inserted(tp, w, n)
  BY <1>1, InsertFields
<1>4. p # w /\ p \in Live(tp) /\ w # Root /\ Root \in Live(tp) /\ w \notin Live(tp)
  BY <1>2, TopologyAssumption DEF TreeOk, Live
<1>5. r.node[w] = n /\ r.node[p] = [tp.node[p] EXCEPT !.children = @ \cup {w}]
      /\ \A x \in Nodes \ {w, p} : r.node[x] = tp.node[x]
  BY <1>2, <1>3, <1>4 DEF Inserted
<1>6. tp.node[p] \in NodeRecord
  BY <1>2, LiveNode
<1>7. r.node[p] \in NodeRecord
      /\ r.node[p].children = tp.node[p].children \cup {w} /\ r.node[p].parent = tp.node[p].parent
  BY <1>5, <1>6 DEF NodeRecord
<1>8. Live(r) = Live(tp) \cup {w}
  <2>1. \A x \in Nodes : Exists(r, x) <=> (Exists(tp, x) \/ x = w)
    BY <1>2, <1>3, <1>5, <1>7, LiveNode
  <2> QED
    BY <2>1 DEF Live
<1>9. \A x \in Live(tp) : /\ r.node[x].parent = tp.node[x].parent
                          /\ r.node[x].children = tp.node[x].children \cup (IF x = p THEN {w} ELSE {})
  BY <1>4, <1>5, <1>7 DEF Live
<1>10. \A x \in Live(tp) : w \notin tp.node[x].children
  BY <1>4 DEF TreeOk
<1>11. \A x \in Live(tp) : tp.node[x].parent = w => x = Root
  BY <1>4 DEF TreeOk
<1>12. r.node[w].parent = p /\ r.node[w].children = {}
  BY <1>2, <1>5
<1>13. Exists(r, Root)
  BY <1>4, <1>8 DEF Live
<1>14. \A x \in Live(r) \ {Root} : r.node[x].parent \in Live(r)
  BY <1>4, <1>8, <1>9, <1>12 DEF TreeOk
<1>15. \A x, q \in Live(r) : x \in r.node[q].children <=> (x # Root /\ r.node[x].parent = q)
  <2> SUFFICES ASSUME NEW x \in Live(r), NEW q \in Live(r)
               PROVE  x \in r.node[q].children <=> (x # Root /\ r.node[x].parent = q)
    OBVIOUS
  <2>1. CASE x \in Live(tp) /\ q \in Live(tp)
    BY <2>1, <1>4, <1>9 DEF TreeOk
  <2>2. CASE x = w /\ q \in Live(tp)
    BY <2>2, <1>4, <1>9, <1>10, <1>12
  <2>3. CASE q = w
    BY <2>3, <1>4, <1>8, <1>9, <1>11, <1>12
  <2> QED
    BY <2>1, <2>2, <2>3, <1>8
<1>16. \A q \in Live(r) : r.node[q].children \subseteq Live(r)
  BY <1>8, <1>9, <1>12 DEF TreeOk
<1>17. Live(r) \ {Root} \subseteq Descendants(r, Root)
  <2> SUFFICES ASSUME NEW S \in SUBSET Nodes, Children(r, Root) \subseteq S,
                      \A x \in S : Children(r, x) \subseteq S
               PROVE  Live(r) \ {Root} \subseteq S
    BY DEF Descendants, Live
  <2>1. \A x \in Nodes : Children(tp, x) \subseteq Children(r, x)
    BY <1>8, <1>9 DEF Children, Live
  <2>2. Children(tp, Root) \subseteq S /\ \A x \in S : Children(tp, x) \subseteq S
    BY <2>1, TopologyAssumption
  <2>3. Live(tp) \ {Root} \subseteq S
    BY <2>2 DEF TreeOk, Descendants
  <2>4. w \in Children(r, p)
    BY <1>4, <1>7, <1>8 DEF Children, Live
  <2>5. w \in S
    BY <2>3, <2>4, <1>4
  <2> QED
    BY <2>3, <2>5, <1>8
<1> QED
  BY <1>1, <1>8, <1>13, <1>14, <1>15, <1>16, <1>17 DEF TreeOk

(* --------------------- what each operation leaves ----------------------- *)
SameTree(r, tp) ==
  /\ Live(r) = Live(tp)
  /\ \A x \in Live(tp) : /\ r.node[x].parent = tp.node[x].parent
                         /\ r.node[x].children = tp.node[x].children
SameNames(r, tp) ==
  \A x \in Live(tp) : /\ r.node[x].owner = tp.node[x].owner
                      /\ r.node[x].originator = tp.node[x].originator
                      /\ r.node[x].task = tp.node[x].task
SameStatus(r, tp) == \A x \in Live(tp) : r.node[x].status = tp.node[x].status
SameIndex(r, tp) ==
  r.originatorIndex = tp.originatorIndex /\ r.ownerIndex = tp.ownerIndex /\ r.route = tp.route
SameSight(r, tp) == r.canSee = tp.canSee /\ r.seenBy = tp.seenBy
SameRights(r, tp) ==
  r.rights = tp.rights /\ r.byHolder = tp.byHolder /\ r.byTarget = tp.byTarget

\* What a step may do to the rights that exist.
RightsStep(r, tp) ==
  \A i \in DOMAIN tp.rights :
     /\ i \in DOMAIN r.rights
     /\ tp.rights[i].status # "Active" => r.rights[i] = tp.rights[i]
     /\ r.rights[i].target = tp.rights[i].target
     /\ r.rights[i].kind = tp.rights[i].kind

\* A part of the invariant holds after an operation that leaves its fields.
LEMMA PartsKept ==
  ASSUME NEW tp \in Topologies, NEW r \in Topologies
  PROVE  /\ SameTree(r, tp) /\ TreeOk(tp) => TreeOk(r)
         /\ Live(r) = Live(tp) /\ SameNames(r, tp) /\ SameIndex(r, tp) /\ OwnersOk(tp) => OwnersOk(r)
         /\ Live(r) = Live(tp) /\ SameSight(r, tp) /\ SightOk(tp) => SightOk(r)
         /\ SameRights(r, tp) /\ RightsOk(tp) => RightsOk(r)
         /\ SameRights(r, tp) => RightsStep(r, tp)
<1>1. SameTree(r, tp) /\ TreeOk(tp) => TreeOk(r)
  <2> SUFFICES ASSUME SameTree(r, tp), TreeOk(tp) PROVE TreeOk(r)
    OBVIOUS
  <2>1. \A x \in Nodes : Children(r, x) = Children(tp, x)
    BY DEF SameTree, Children, Live
  <2>2. Descendants(r, Root) = Descendants(tp, Root)
    BY <2>1, SameChildren, TopologyAssumption
  <2>3. Exists(r, Root)
    BY TopologyAssumption DEF TreeOk, SameTree, Live
  <2> QED
    BY <2>2, <2>3 DEF TreeOk, SameTree
<1>2. Live(r) = Live(tp) /\ SameNames(r, tp) /\ SameIndex(r, tp) /\ OwnersOk(tp) => OwnersOk(r)
  BY DEF SameNames, SameIndex, OwnersOk
<1>3. Live(r) = Live(tp) /\ SameSight(r, tp) /\ SightOk(tp) => SightOk(r)
  BY DEF SameSight, SightOk
<1>4. SameRights(r, tp) /\ RightsOk(tp) => RightsOk(r)
  BY DEF SameRights, RightsOk
<1>5. SameRights(r, tp) => RightsStep(r, tp)
  BY DEF SameRights, RightsStep
<1> QED
  BY <1>1, <1>2, <1>3, <1>4, <1>5

\* Equal node maps give the same tree, names and status.
LEMMA NodeKept ==
  ASSUME NEW tp, NEW r, r.node = tp.node
  PROVE  SameTree(r, tp) /\ SameNames(r, tp) /\ SameStatus(r, tp)
BY DEF SameTree, SameNames, SameStatus, Live, Exists

\* grant.
LEMMA GrantLeaves ==
  ASSUME NEW tp \in Topologies, NEW v \in Nodes, NEW t \in Nodes
  PROVE  LET r == Grant(tp, v, t)
         IN  /\ r \in Topologies /\ r.node = tp.node /\ SameIndex(r, tp) /\ SameRights(r, tp)
             /\ v # t => /\ r.canSee = [tp.canSee EXCEPT ![v] = @ \cup {t}]
                         /\ r.seenBy = [tp.seenBy EXCEPT ![t] = @ \cup {v}]
             /\ v = t => r = tp
<1>1. CASE v = t
  BY <1>1 DEF Grant, SameIndex, SameRights
<1>2. CASE v # t
  <2>1. tp.canSee \in [Nodes -> SUBSET Nodes] /\ tp.seenBy \in [Nodes -> SUBSET Nodes]
    BY TopologyFields
  <2>2. PICK c \in [Nodes -> SUBSET Nodes], d \in [Nodes -> SUBSET Nodes] :
           c = [tp.canSee EXCEPT ![v] = @ \cup {t}] /\ d = [tp.seenBy EXCEPT ![t] = @ \cup {v}]
    BY <2>1, Indexed
  <2>3. PICK r : r = [tp EXCEPT !.canSee = c, !.seenBy = d]
    OBVIOUS
  <2>4. Grant(tp, v, t) = r
    BY <1>2, <2>2, <2>3 DEF Grant
  <2>5. r \in Topologies
    BY <2>3 DEF Topologies
  <2>6. r.node = tp.node /\ SameIndex(r, tp) /\ SameRights(r, tp) /\ r.canSee = c /\ r.seenBy = d
    BY <2>3 DEF Topologies, SameIndex, SameRights
  <2> QED
    BY <1>2, <2>2, <2>4, <2>5, <2>6
<1> QED
  BY <1>1, <1>2

\* register and update of the escalation router.
LEMMA RouteLeaves ==
  ASSUME NEW tp \in Topologies, NEW w \in Nodes, NEW u \in Users
  PROVE  LET r == RouteTo(tp, w, u)
         IN  /\ r \in Topologies /\ r.node = tp.node /\ SameSight(r, tp) /\ SameRights(r, tp)
             /\ r.originatorIndex = tp.originatorIndex /\ r.ownerIndex = tp.ownerIndex
             /\ r.route = [tp.route EXCEPT ![w] = u]
<1>1. PICK f \in [Nodes -> Users \cup {NoNode}] : f = [tp.route EXCEPT ![w] = u]
  <2>1. tp.route \in [Nodes -> Users \cup {NoNode}]
    BY TopologyFields
  <2> QED
    BY <2>1
<1>2. PICK r : r = [tp EXCEPT !.route = f]
  OBVIOUS
<1>3. RouteTo(tp, w, u) = r
  BY <1>1, <1>2 DEF RouteTo
<1>4. r \in Topologies /\ r.node = tp.node /\ r.route = f
      /\ r.originatorIndex = tp.originatorIndex /\ r.ownerIndex = tp.ownerIndex
      /\ SameSight(r, tp) /\ SameRights(r, tp)
  BY <1>2 DEF Topologies, SameSight, SameRights
<1> QED
  BY <1>1, <1>3, <1>4

\* Replacing the three fields of the rights leaves the others.
WithRights(tp, rs, h, g) == [tp EXCEPT !.rights = rs, !.byHolder = h, !.byTarget = g]

\* The topology with other rights.
LEMMA RightsReplaced ==
  ASSUME NEW tp \in Topologies, NEW rs \in Seq(RightRecord),
         NEW h \in [Nodes -> SUBSET Nat], NEW g \in [Nodes -> SUBSET Nat]
  PROVE  /\ WithRights(tp, rs, h, g) \in Topologies
         /\ WithRights(tp, rs, h, g).node = tp.node
         /\ SameIndex(WithRights(tp, rs, h, g), tp) /\ SameSight(WithRights(tp, rs, h, g), tp)
         /\ WithRights(tp, rs, h, g).rights = rs /\ WithRights(tp, rs, h, g).byHolder = h
         /\ WithRights(tp, rs, h, g).byTarget = g
<1>1. PICK r : r = [tp EXCEPT !.rights = rs, !.byHolder = h, !.byTarget = g]
  OBVIOUS
<1>2. r \in Topologies
  BY <1>1 DEF Topologies
<1>3. r.node = tp.node /\ SameIndex(r, tp) /\ SameSight(r, tp)
      /\ r.rights = rs /\ r.byHolder = h /\ r.byTarget = g
  BY <1>1 DEF Topologies, SameIndex, SameSight
<1>4. WithRights(tp, rs, h, g) = r
  BY <1>1 DEF WithRights
<1> QED
  BY <1>2, <1>3, <1>4

\* create: the new right takes a new id and is in the indices of its ends.
LEMMA CreateRightLeaves ==
  ASSUME NEW tp \in Topologies, RightsOk(tp), NEW h \in Nodes, NEW t \in Nodes,
         NEW kind \in {"Send", "SendOnce", "Receive"}
  PROVE  LET r == CreateRight(tp, h, t, kind)
         IN  /\ r \in Topologies /\ r.node = tp.node /\ SameIndex(r, tp) /\ SameSight(r, tp)
             /\ RightsOk(r) /\ RightsStep(r, tp)
<1> DEFINE e == [holder |-> h, target |-> t, kind |-> kind, status |-> "Active"]
<1>1. e \in RightRecord /\ e.holder = h /\ e.target = t
  BY DEF RightRecord
<1>2. tp.rights \in Seq(RightRecord) /\ tp.byHolder \in [Nodes -> SUBSET Nat] /\ tp.byTarget \in [Nodes -> SUBSET Nat]
  BY TopologyFields
<1>3. PICK id \in Nat : id = Len(tp.rights) + 1
  BY <1>2
<1>4. PICK rs : rs = Append(tp.rights, e)
  OBVIOUS
<1> HIDE DEF e
<1>5. /\ rs \in Seq(RightRecord) /\ DOMAIN rs = DOMAIN tp.rights \cup {id} /\ id \notin DOMAIN tp.rights
      /\ \A i \in DOMAIN tp.rights : rs[i] = tp.rights[i]
      /\ rs[id] = e
  BY <1>1, <1>2, <1>3, <1>4
<1>6. PICK bh \in [Nodes -> SUBSET Nat], bt \in [Nodes -> SUBSET Nat] :
         bh = [tp.byHolder EXCEPT ![h] = @ \cup {id}] /\ bt = [tp.byTarget EXCEPT ![t] = @ \cup {id}]
  BY <1>2, Indexed
<1>7. PICK r : r = WithRights(tp, rs, bh, bt)
  OBVIOUS
<1>8. CreateRight(tp, h, t, kind) = r
  BY <1>3, <1>4, <1>6, <1>7 DEF CreateRight, WithRights, e
<1>9. r \in Topologies /\ r.node = tp.node /\ SameIndex(r, tp) /\ SameSight(r, tp)
      /\ r.rights = rs /\ r.byHolder = bh /\ r.byTarget = bt
  BY <1>5, <1>7, RightsReplaced
<1>10. RightsOk(r)
  <2> SUFFICES ASSUME NEW x \in Nodes
               PROVE  /\ bh[x] = {i \in DOMAIN rs : rs[i].holder = x}
                      /\ bt[x] = {i \in DOMAIN rs : rs[i].target = x}
    BY <1>9 DEF RightsOk
  <2>1. /\ tp.byHolder[x] = {i \in DOMAIN tp.rights : tp.rights[i].holder = x}
        /\ tp.byTarget[x] = {i \in DOMAIN tp.rights : tp.rights[i].target = x}
    BY DEF RightsOk
  <2>2. bh[x] = tp.byHolder[x] \cup (IF x = h THEN {id} ELSE {})
        /\ bt[x] = tp.byTarget[x] \cup (IF x = t THEN {id} ELSE {})
    BY <1>2, <1>6
  <2> QED
    BY <2>1, <2>2, <1>1, <1>5
<1>11. RightsStep(r, tp)
  BY <1>5, <1>9 DEF RightsStep
<1> QED
  BY <1>8, <1>9, <1>10, <1>11

\* transfer of a right that is active: only its holder moves.
LEMMA TransferRightLeaves ==
  ASSUME NEW tp \in Topologies, RightsOk(tp), NEW id \in DOMAIN tp.rights, NEW h \in Nodes,
         tp.rights[id].status = "Active"
  PROVE  LET r == TransferRight(tp, id, h)
         IN  /\ r \in Topologies /\ r.node = tp.node /\ SameIndex(r, tp) /\ SameSight(r, tp)
             /\ RightsOk(r) /\ RightsStep(r, tp)
<1>2. tp.rights \in Seq(RightRecord) /\ tp.byHolder \in [Nodes -> SUBSET Nat] /\ tp.byTarget \in [Nodes -> SUBSET Nat]
  BY TopologyFields
<1>3. PICK e \in RightRecord : e = tp.rights[id]
  BY <1>2
<1>4. PICK f : f = [e EXCEPT !.holder = h]
  OBVIOUS
<1>5. f \in RightRecord /\ f.holder = h /\ f.target = e.target /\ f.kind = e.kind /\ f.status = e.status
  BY <1>4 DEF RightRecord
<1>6. PICK rs : rs = [tp.rights EXCEPT ![id] = f]
  OBVIOUS
<1>7. /\ rs \in Seq(RightRecord) /\ DOMAIN rs = DOMAIN tp.rights /\ rs[id] = f
      /\ \A i \in DOMAIN tp.rights : i # id => rs[i] = tp.rights[i]
  BY <1>2, <1>5, <1>6
<1>8. id \in Nat /\ e.holder \in Nodes
  BY <1>2, <1>3 DEF RightRecord
<1>9. PICK dropped \in [Nodes -> SUBSET Nat] : dropped = [tp.byHolder EXCEPT ![e.holder] = @ \ {id}]
  BY <1>2, <1>8, Indexed
<1>10. PICK bh \in [Nodes -> SUBSET Nat] : bh = [dropped EXCEPT ![h] = @ \cup {id}]
  BY <1>8, Indexed
<1>11. PICK r : r = [tp EXCEPT !.byHolder = bh, !.rights = rs]
  OBVIOUS
<1>12. TransferRight(tp, id, h) = r
  BY <1>3, <1>4, <1>6, <1>9, <1>10, <1>11 DEF TransferRight
<1>13. r = WithRights(tp, rs, bh, tp.byTarget)
  BY <1>11 DEF Topologies, WithRights
<1>14. r \in Topologies /\ r.node = tp.node /\ SameIndex(r, tp) /\ SameSight(r, tp)
      /\ r.rights = rs /\ r.byHolder = bh /\ r.byTarget = tp.byTarget
  BY <1>2, <1>7, <1>13, RightsReplaced
<1>15. RightsOk(r)
  <2> SUFFICES ASSUME NEW x \in Nodes
               PROVE  /\ bh[x] = {i \in DOMAIN rs : rs[i].holder = x}
                      /\ tp.byTarget[x] = {i \in DOMAIN rs : rs[i].target = x}
    BY <1>14 DEF RightsOk
  <2>1. /\ tp.byHolder[x] = {i \in DOMAIN tp.rights : tp.rights[i].holder = x}
        /\ tp.byTarget[x] = {i \in DOMAIN tp.rights : tp.rights[i].target = x}
    BY DEF RightsOk
  <2>2. bh[x] = (tp.byHolder[x] \ {id}) \cup (IF x = h THEN {id} ELSE {})
    BY <1>2, <1>3, <1>8, <1>9, <1>10, <2>1
  <2> QED
    BY <2>1, <2>2, <1>3, <1>5, <1>7
<1>16. RightsStep(r, tp)
  BY <1>3, <1>5, <1>7, <1>14 DEF RightsStep
<1> QED
  BY <1>12, <1>14, <1>15, <1>16

\* Ending a set of rights: those that already ended are left alone.
LEMMA SetRightLeaves ==
  ASSUME NEW tp \in Topologies, RightsOk(tp), NEW ids,
         NEW status \in {"Expired", "Consumed", "Revoked"}
  PROVE  LET r == SetRight(tp, ids, status)
         IN  /\ r \in Topologies /\ r.node = tp.node /\ SameIndex(r, tp) /\ SameSight(r, tp)
             /\ RightsOk(r) /\ RightsStep(r, tp)
<1>2. tp.rights \in Seq(RightRecord) /\ tp.byHolder \in [Nodes -> SUBSET Nat] /\ tp.byTarget \in [Nodes -> SUBSET Nat]
  BY TopologyFields
<1>3. PICK rs : rs = [i \in DOMAIN tp.rights |->
         IF i \in ids /\ tp.rights[i].status = "Active"
         THEN [tp.rights[i] EXCEPT !.status = status] ELSE tp.rights[i]]
  OBVIOUS
<1>4. ASSUME NEW i \in DOMAIN tp.rights
      PROVE  /\ rs[i] \in RightRecord /\ rs[i].holder = tp.rights[i].holder
             /\ rs[i].target = tp.rights[i].target /\ rs[i].kind = tp.rights[i].kind
             /\ tp.rights[i].status # "Active" => rs[i] = tp.rights[i]
  <2>1. tp.rights[i] \in RightRecord
    BY <1>2
  <2>2. rs[i] = tp.rights[i] \/ (tp.rights[i].status = "Active" /\ rs[i] = [tp.rights[i] EXCEPT !.status = status])
    BY <1>3
  <2> QED
    BY <2>1, <2>2 DEF RightRecord
<1>5. DOMAIN rs = DOMAIN tp.rights /\ rs \in Seq(RightRecord)
  <2>1. DOMAIN tp.rights = 1..Len(tp.rights) /\ Len(tp.rights) \in Nat
    BY <1>2
  <2>2. rs \in [1..Len(tp.rights) -> RightRecord]
    BY <2>1, <1>3, <1>4
  <2> QED
    BY <2>1, <2>2
<1>6. PICK r : r = [tp EXCEPT !.rights = rs]
  OBVIOUS
<1>7. SetRight(tp, ids, status) = r
  BY <1>3, <1>6 DEF SetRight
<1>8. r = WithRights(tp, rs, tp.byHolder, tp.byTarget)
  BY <1>6 DEF Topologies, WithRights
<1>9. r \in Topologies /\ r.node = tp.node /\ SameIndex(r, tp) /\ SameSight(r, tp)
      /\ r.rights = rs /\ r.byHolder = tp.byHolder /\ r.byTarget = tp.byTarget
  BY <1>2, <1>5, <1>8, RightsReplaced
<1>10. RightsOk(r)
  BY <1>4, <1>5, <1>9 DEF RightsOk
<1>11. RightsStep(r, tp)
  BY <1>4, <1>5, <1>9 DEF RightsStep
<1> QED
  BY <1>7, <1>9, <1>10, <1>11

\* Replacing the node map leaves the other fields.
WithNodes(tp, nodes) == [tp EXCEPT !.node = nodes]

\* The topology with other nodes.
LEMMA NodesReplaced ==
  ASSUME NEW tp \in Topologies, NEW nodes \in [Nodes -> NodeRecord \cup {NoNode}]
  PROVE  /\ WithNodes(tp, nodes) \in Topologies /\ WithNodes(tp, nodes).node = nodes
         /\ SameIndex(WithNodes(tp, nodes), tp) /\ SameSight(WithNodes(tp, nodes), tp)
         /\ SameRights(WithNodes(tp, nodes), tp)
<1>1. PICK r : r = [tp EXCEPT !.node = nodes]
  OBVIOUS
<1>2. r \in Topologies
  BY <1>1 DEF Topologies
<1>3. r.node = nodes /\ SameIndex(r, tp) /\ SameSight(r, tp) /\ SameRights(r, tp)
  BY <1>1 DEF Topologies, SameIndex, SameSight, SameRights
<1>4. WithNodes(tp, nodes) = r
  BY <1>1 DEF WithNodes
<1> QED
  BY <1>2, <1>3, <1>4

\* update_status, on a set of workspaces.
LEMMA SetStatusLeaves ==
  ASSUME NEW tp \in Topologies, NEW ws, NEW status \in WorkspaceStates
  PROVE  LET r == SetStatus(tp, ws, status)
         IN  /\ r \in Topologies /\ SameTree(r, tp) /\ SameNames(r, tp)
             /\ SameIndex(r, tp) /\ SameSight(r, tp) /\ SameRights(r, tp)
             /\ \A x \in Live(tp) : r.node[x].status = IF x \in ws THEN status ELSE tp.node[x].status
<1>1. PICK nodes : nodes = [x \in Nodes |->
         IF x \in ws /\ Exists(tp, x) THEN [tp.node[x] EXCEPT !.status = status] ELSE tp.node[x]]
  OBVIOUS
<1>2. ASSUME NEW x \in Nodes, Exists(tp, x)
      PROVE  /\ nodes[x] \in NodeRecord
             /\ nodes[x].parent = tp.node[x].parent /\ nodes[x].children = tp.node[x].children
             /\ nodes[x].owner = tp.node[x].owner /\ nodes[x].originator = tp.node[x].originator
             /\ nodes[x].task = tp.node[x].task
             /\ nodes[x].status = IF x \in ws THEN status ELSE tp.node[x].status
  <2>1. tp.node[x] \in NodeRecord
    BY <1>2, LiveNode
  <2>2. nodes[x] = IF x \in ws THEN [tp.node[x] EXCEPT !.status = status] ELSE tp.node[x]
    BY <1>1, <1>2
  <2> QED
    BY <2>1, <2>2 DEF NodeRecord
<1>3. \A x \in Nodes : ~Exists(tp, x) => nodes[x] = NoNode
  BY <1>1, LiveNode
<1>4. nodes \in [Nodes -> NodeRecord \cup {NoNode}]
  BY <1>1, <1>2, <1>3
<1>5. PICK r : r = WithNodes(tp, nodes)
  OBVIOUS
<1>6. SetStatus(tp, ws, status) = r
  BY <1>1, <1>5 DEF SetStatus, WithNodes
<1>7. r \in Topologies /\ r.node = nodes /\ SameIndex(r, tp) /\ SameSight(r, tp) /\ SameRights(r, tp)
  BY <1>4, <1>5, NodesReplaced
<1>8. Live(r) = Live(tp)
  BY <1>2, <1>3, <1>7, TopologyAssumption DEF Live, Exists
<1>9. SameTree(r, tp) /\ SameNames(r, tp)
      /\ \A x \in Live(tp) : r.node[x].status = IF x \in ws THEN status ELSE tp.node[x].status
  BY <1>2, <1>7, <1>8 DEF SameTree, SameNames, Live
<1> QED
  BY <1>6, <1>7, <1>9

\* reparent to the root, of workspaces below one: the tree stays a tree.  A
\* set that the new child lists close is closed under the old ones too, since
\* whoever left its parent is now a child of the root.
LEMMA ReparentLeaves ==
  ASSUME NEW tp \in Topologies, TreeOk(tp), NEW kids, kids \subseteq Live(tp) \ {Root}
  PROVE  LET r == Reparent(tp, kids, Root)
         IN  /\ r \in Topologies /\ Live(r) = Live(tp) /\ TreeOk(r)
             /\ SameNames(r, tp) /\ SameStatus(r, tp)
             /\ SameIndex(r, tp) /\ SameSight(r, tp) /\ SameRights(r, tp)
<1>0. Root \in Nodes /\ Root \in Live(tp) /\ Live(tp) \subseteq Nodes
  BY TopologyAssumption DEF TreeOk, Live
<1>1. PICK nodes : nodes = [x \in Nodes |->
        IF ~Exists(tp, x) THEN NoNode
        ELSE [tp.node[x] EXCEPT
                !.parent = IF x \in kids THEN Root ELSE @,
                !.children = (@ \ kids) \cup (IF x = Root THEN kids ELSE {})]]
  OBVIOUS
<1>2. ASSUME NEW x \in Nodes, Exists(tp, x)
      PROVE  /\ nodes[x] \in NodeRecord
             /\ nodes[x].parent = IF x \in kids THEN Root ELSE tp.node[x].parent
             /\ nodes[x].children = (tp.node[x].children \ kids) \cup (IF x = Root THEN kids ELSE {})
             /\ nodes[x].owner = tp.node[x].owner /\ nodes[x].originator = tp.node[x].originator
             /\ nodes[x].task = tp.node[x].task
             /\ nodes[x].status = tp.node[x].status
  <2>1. tp.node[x] \in NodeRecord
    BY <1>2, LiveNode
  <2>2. PICK p \in Nodes \cup {NoNode}, c \in SUBSET Nodes :
           /\ p = IF x \in kids THEN Root ELSE tp.node[x].parent
           /\ c = (tp.node[x].children \ kids) \cup (IF x = Root THEN kids ELSE {})
    <3>1. tp.node[x].parent \in Nodes \cup {NoNode} /\ tp.node[x].children \in SUBSET Nodes
      BY <2>1, NodeFields
    <3>2. kids \in SUBSET Nodes
      BY <1>0
    <3> QED
      BY <3>1, <3>2, <1>0
  <2>3. nodes[x] = [tp.node[x] EXCEPT !.parent = p, !.children = c]
    BY <1>1, <1>2, <2>2
  <2> QED
    BY <2>1, <2>2, <2>3 DEF NodeRecord
<1>3. \A x \in Nodes : ~Exists(tp, x) => nodes[x] = NoNode
  BY <1>1
<1>4. nodes \in [Nodes -> NodeRecord \cup {NoNode}]
  BY <1>1, <1>2, <1>3
<1>5. PICK r : r = WithNodes(tp, nodes)
  OBVIOUS
<1>6. Reparent(tp, kids, Root) = r
  BY <1>1, <1>5 DEF Reparent, WithNodes
<1>7. r \in Topologies /\ r.node = nodes /\ SameIndex(r, tp) /\ SameSight(r, tp) /\ SameRights(r, tp)
  BY <1>4, <1>5, NodesReplaced
<1>8. Live(r) = Live(tp)
  BY <1>2, <1>3, <1>7, TopologyAssumption DEF Live, Exists
<1>9. \A x \in Live(tp) :
         /\ r.node[x].parent = IF x \in kids THEN Root ELSE tp.node[x].parent
         /\ r.node[x].children = (tp.node[x].children \ kids) \cup (IF x = Root THEN kids ELSE {})
  BY <1>2, <1>7 DEF Live
<1>10. SameNames(r, tp) /\ SameStatus(r, tp)
  BY <1>2, <1>7 DEF SameNames, SameStatus, Live
<1>11. Exists(r, Root) /\ \A x \in Live(r) \ {Root} : r.node[x].parent \in Live(r)
  BY <1>0, <1>8, <1>9 DEF TreeOk, Live
<1>12. \A x, q \in Live(r) : x \in r.node[q].children <=> (x # Root /\ r.node[x].parent = q)
  <2> SUFFICES ASSUME NEW x \in Live(tp), NEW q \in Live(tp)
               PROVE  x \in r.node[q].children <=> (x # Root /\ r.node[x].parent = q)
    BY <1>8
  <2>1. x \in tp.node[q].children <=> (x # Root /\ tp.node[x].parent = q)
    BY DEF TreeOk
  <2>2. CASE x \in kids
    BY <2>2, <1>9
  <2>3. CASE x \notin kids
    BY <2>1, <2>3, <1>9
  <2> QED
    BY <2>2, <2>3
<1>13. \A q \in Live(r) : r.node[q].children \subseteq Live(r)
  BY <1>8, <1>9 DEF TreeOk
<1>14. Live(r) \ {Root} \subseteq Descendants(r, Root)
  <2> SUFFICES ASSUME NEW S \in SUBSET Nodes, Children(r, Root) \subseteq S,
                      \A x \in S : Children(r, x) \subseteq S
               PROVE  Live(tp) \ {Root} \subseteq S
    BY <1>8 DEF Descendants, Live
  <2>1. kids \subseteq S
    BY <1>0, <1>8, <1>9 DEF Children, Live
  <2>2. \A x \in Nodes : Children(tp, x) \subseteq Children(r, x) \cup kids
    BY <1>8, <1>9 DEF Children, Live
  <2>3. Children(tp, Root) \subseteq S /\ \A x \in S : Children(tp, x) \subseteq S
    BY <2>1, <2>2, <1>0
  <2> QED
    BY <2>3 DEF TreeOk, Descendants
<1> QED
  BY <1>6, <1>7, <1>8, <1>10, <1>11, <1>12, <1>13, <1>14 DEF TreeOk

(* ---------------------------- the operations ---------------------------- *)
\* The steps on the rights alone keep everything else.
LEMMA RightsOnly ==
  ASSUME NEW tp, TopoOk(tp), NEW r \in Topologies, r.node = tp.node, SameIndex(r, tp),
         SameSight(r, tp), RightsOk(r)
  PROVE  TopoOk(r) /\ SameTree(r, tp) /\ SameNames(r, tp) /\ SameStatus(r, tp)
<1>1. SameTree(r, tp) /\ SameNames(r, tp) /\ SameStatus(r, tp)
  BY NodeKept
<1> QED
  BY <1>1, PartsKept DEF TopoOk, SameTree

\* Two steps on the rights in a row.
LEMMA RightsSteps ==
  ASSUME NEW tp, NEW q, NEW r, RightsStep(q, tp), RightsStep(r, q)
  PROVE  RightsStep(r, tp)
BY DEF RightsStep

\* expire_workspace, for a set of workspaces.
LEMMA ExpireLeaves ==
  ASSUME NEW tp, TopoOk(tp), NEW ws
  PROVE  LET r == ExpireWorkspaces(tp, ws)
         IN  /\ TopoOk(r) /\ SameTree(r, tp) /\ SameNames(r, tp) /\ SameStatus(r, tp)
             /\ RightsStep(r, tp)
<1>1. PICK ids : ids = UNION {tp.byHolder[w] \cup tp.byTarget[w] : w \in ws}
  OBVIOUS
<1>2. PICK r : r = SetRight(tp, ids, "Expired")
  OBVIOUS
<1>3. ExpireWorkspaces(tp, ws) = r
  BY <1>1, <1>2 DEF ExpireWorkspaces
<1>4. r \in Topologies /\ r.node = tp.node /\ SameIndex(r, tp) /\ SameSight(r, tp)
      /\ RightsOk(r) /\ RightsStep(r, tp)
  BY <1>2, SetRightLeaves DEF TopoOk
<1>5. TopoOk(r) /\ SameTree(r, tp) /\ SameNames(r, tp) /\ SameStatus(r, tp)
  BY <1>4, RightsOnly
<1> QED
  BY <1>3, <1>4, <1>5

\* A status update keeps the invariant.
LEMMA StatusKeeps ==
  ASSUME NEW tp, TopoOk(tp), NEW ws, NEW status \in WorkspaceStates
  PROVE  TopoOk(SetStatus(tp, ws, status)) /\ RightsStep(SetStatus(tp, ws, status), tp)
<1>1. PICK r : r = SetStatus(tp, ws, status)
  OBVIOUS
<1>2. r \in Topologies /\ SameTree(r, tp) /\ SameNames(r, tp)
      /\ SameIndex(r, tp) /\ SameSight(r, tp) /\ SameRights(r, tp)
  BY <1>1, SetStatusLeaves DEF TopoOk
<1>3. TreeOk(r) /\ OwnersOk(r) /\ SightOk(r) /\ RightsOk(r) /\ RightsStep(r, tp)
  BY <1>2, PartsKept DEF TopoOk, SameTree
<1> QED
  BY <1>1, <1>2, <1>3 DEF TopoOk

\* cascade_failure: the workspaces that fail are w and its descendants of the
\* same owner, and the moved ones leave the tree a tree.
LEMMA CascadeKeeps ==
  ASSUME NEW tp, TopoOk(tp), NEW w \in Live(tp)
  PROVE  LET r == CascadeFailure(tp, w)
         IN  /\ TopoOk(r) /\ Live(r) = Live(tp) /\ SameNames(r, tp) /\ RightsStep(r, tp)
             /\ \A x \in Live(tp) : r.node[x].status # tp.node[x].status =>
                   /\ r.node[x].status = "Failed"
                   /\ x = w \/ (x \in Descendants(tp, w) /\ tp.node[x].owner = tp.node[w].owner)
<1>1. PICK below : below = Descendants(tp, w)
  OBVIOUS
<1>2. PICK foreign : foreign = {d \in below : tp.node[d].owner # tp.node[w].owner}
  OBVIOUS
<1>3. below \subseteq Live(tp) \ {Root} /\ foreign \subseteq Live(tp) \ {Root}
  BY <1>1, <1>2, DescendantsLive DEF TopoOk
<1>4. PICK q : q = Reparent(tp, foreign, Root)
  OBVIOUS
<1>5. /\ q \in Topologies /\ Live(q) = Live(tp) /\ TreeOk(q)
      /\ SameNames(q, tp) /\ SameStatus(q, tp)
      /\ SameIndex(q, tp) /\ SameSight(q, tp) /\ SameRights(q, tp)
  BY <1>3, <1>4, ReparentLeaves DEF TopoOk
<1>6. TopoOk(q) /\ RightsStep(q, tp)
  BY <1>5, PartsKept DEF TopoOk
<1>7. PICK hit : hit = {w} \cup (below \ foreign)
  OBVIOUS
<1>8. PICK r : r = SetStatus(q, hit, "Failed")
  OBVIOUS
<1>9. CascadeFailure(tp, w) = r
  BY <1>1, <1>2, <1>4, <1>7, <1>8 DEF CascadeFailure
<1>10. "Failed" \in WorkspaceStates
  BY DEF WorkspaceStates
<1>11. TopoOk(r) /\ RightsStep(r, q)
  BY <1>6, <1>8, <1>10, StatusKeeps
<1>12. SameTree(r, q) /\ SameNames(r, q)
       /\ \A x \in Live(q) : r.node[x].status = IF x \in hit THEN "Failed" ELSE q.node[x].status
  BY <1>5, <1>8, <1>10, SetStatusLeaves
<1>13. RightsStep(r, tp)
  BY <1>6, <1>11, RightsSteps
<1>14. ASSUME NEW x \in Live(tp), r.node[x].status # tp.node[x].status
       PROVE  /\ r.node[x].status = "Failed"
              /\ x = w \/ (x \in Descendants(tp, w) /\ tp.node[x].owner = tp.node[w].owner)
  BY <1>1, <1>2, <1>5, <1>7, <1>12, <1>14 DEF SameStatus
<1>15. SameNames(r, tp)
  BY <1>5, <1>12 DEF SameNames
<1> QED
  BY <1>5, <1>9, <1>11, <1>12, <1>13, <1>14, <1>15 DEF SameTree

\* Insertion leaves the names and the status of the workspaces there were.
LEMMA InsertNames ==
  ASSUME NEW tp \in Topologies, NEW w \in Nodes, ~Exists(tp, w),
         NEW n \in NodeRecord, n.parent \in Nodes, Exists(tp, n.parent)
  PROVE  LET r == TreeInsert(tp, w, n)
         IN  SameNames(r, tp) /\ SameStatus(r, tp) /\ r.node[w] = n
<1>1. PICK r : r = TreeInsert(tp, w, n)
  OBVIOUS
<1>2. r.node = Inserted(tp, w, n)
  BY <1>1, InsertFields
<1>3. ASSUME NEW x \in Live(tp)
      PROVE  /\ r.node[x].owner = tp.node[x].owner
             /\ r.node[x].originator = tp.node[x].originator
             /\ r.node[x].status = tp.node[x].status /\ r.node[x].task = tp.node[x].task
  <2>1. x \in Nodes /\ x # w
    BY <1>3 DEF Live
  <2>2. tp.node[x] \in NodeRecord
    BY <1>3, <2>1, LiveNode DEF Live
  <2>3. r.node[x] = tp.node[x] \/ r.node[x] = [tp.node[x] EXCEPT !.children = @ \cup {w}]
    BY <2>1, <1>2 DEF Inserted
  <2> QED
    BY <2>2, <2>3 DEF NodeRecord
<1> QED
  BY <1>1, <1>2, <1>3 DEF SameNames, SameStatus, Inserted

\* create_workspace: one leaf, its indices, the root's sight of it, its route
\* and its three rights.
LEMMA CreateKeeps ==
  ASSUME NEW tp, TopoOk(tp), NEW w \in Nodes, ~Exists(tp, w), NEW p \in Nodes, Exists(tp, p),
         NEW owner \in Users, NEW orig \in Users \cup {System},
         NEW status \in WorkspaceStates, NEW task \in TaskIds \cup {NoNode}
  PROVE  LET r == CreateWorkspace(tp, w, p, owner, orig, status, task)
         IN  /\ TopoOk(r) /\ SameStatus(r, tp) /\ RightsStep(r, tp)
             /\ Live(r) = Live(tp) \cup {w} /\ SameNames(r, tp) /\ r.node[w].status = status
<1>1. PICK n : n = NewNode(p, owner, orig, status, task)
  OBVIOUS
<1>2. n \in NodeRecord /\ n.parent = p /\ n.children = {} /\ n.owner = owner /\ n.originator = orig
      /\ n.status = status
  BY <1>1 DEF NewNode, NodeRecord
<1>3. PICK q : q = TreeInsert(tp, w, n)
  OBVIOUS
<1>4. tp \in Topologies /\ TreeOk(tp)
  BY DEF TopoOk
<1>5. Live(q) = Live(tp) \cup {w} /\ TreeOk(q)
  BY <1>2, <1>3, <1>4, InsertTree
<1>6. SameNames(q, tp) /\ SameStatus(q, tp) /\ q.node[w] = n
  BY <1>2, <1>3, <1>4, InsertNames
<1>7. /\ q \in Topologies
      /\ \A o \in Users \cup {System} : q.originatorIndex[o] =
            tp.originatorIndex[o] \cup (IF o = orig THEN {w} ELSE {})
      /\ \A u \in Users : q.ownerIndex[u] =
            tp.ownerIndex[u] \cup (IF u = owner THEN {w} ELSE {})
      /\ q.canSee = tp.canSee /\ q.seenBy = tp.seenBy /\ q.route = tp.route
      /\ q.rights = tp.rights /\ q.byHolder = tp.byHolder /\ q.byTarget = tp.byTarget
  BY <1>2, <1>3, <1>4, InsertFields
<1>8. w # Root /\ Root \in Nodes
  BY <1>4, TopologyAssumption DEF TreeOk
<1>9. PICK g : g = Grant(q, Root, w)
  OBVIOUS
<1>10. /\ g \in Topologies /\ g.node = q.node /\ SameIndex(g, q) /\ SameRights(g, q)
       /\ g.canSee = [q.canSee EXCEPT ![Root] = @ \cup {w}]
       /\ g.seenBy = [q.seenBy EXCEPT ![w] = @ \cup {Root}]
  <2>1. q \in Topologies
    BY <1>7
  <2>2. /\ g \in Topologies /\ g.node = q.node /\ SameIndex(g, q) /\ SameRights(g, q)
        /\ Root # w => /\ g.canSee = [q.canSee EXCEPT ![Root] = @ \cup {w}]
                       /\ g.seenBy = [q.seenBy EXCEPT ![w] = @ \cup {Root}]
    BY <2>1, <1>8, <1>9, GrantLeaves
  <2> QED
    BY <2>2, <1>8
<1>11. PICK d : d = RouteTo(g, w, owner)
  OBVIOUS
<1>12. /\ d \in Topologies /\ d.node = g.node /\ SameSight(d, g) /\ SameRights(d, g)
       /\ d.originatorIndex = g.originatorIndex /\ d.ownerIndex = g.ownerIndex
       /\ d.route = [g.route EXCEPT ![w] = owner]
  BY <1>10, <1>11, RouteLeaves
<1>13. d.node = q.node
  BY <1>10, <1>12
<1>14. SameTree(d, q) /\ SameNames(d, q) /\ SameStatus(d, q)
  BY <1>13, NodeKept
<1>15. Live(d) = Live(tp) \cup {w} /\ TreeOk(d) /\ w \notin Live(tp) /\ Live(tp) \subseteq Nodes
  BY <1>5, <1>7, <1>12, <1>14, PartsKept DEF SameTree, Live
<1>16. SameNames(d, tp) /\ SameStatus(d, tp) /\ d.node[w].owner = owner /\ d.node[w].originator = orig
       /\ d.node[w].status = status
  BY <1>2, <1>6, <1>13 DEF SameNames, SameStatus
<1>17. OwnersOk(d)
  <2>1. tp.originatorIndex \in [Users \cup {System} -> SUBSET Nodes]
        /\ tp.ownerIndex \in [Users -> SUBSET Nodes] /\ tp.route \in [Nodes -> Users \cup {NoNode}]
    BY <1>4, TopologyFields
  <2>2. ASSUME NEW u \in Users
        PROVE  d.ownerIndex[u] = {x \in Live(d) : d.node[x].owner = u}
    <3>1. d.ownerIndex[u] = tp.ownerIndex[u] \cup (IF u = owner THEN {w} ELSE {})
      BY <2>1, <1>7, <1>10, <1>12 DEF SameIndex
    <3>2. tp.ownerIndex[u] = {x \in Live(tp) : tp.node[x].owner = u}
      BY DEF TopoOk, OwnersOk
    <3> QED
      BY <3>1, <3>2, <1>15, <1>16 DEF SameNames
  <2>3. ASSUME NEW o \in Users \cup {System}
        PROVE  d.originatorIndex[o] = {x \in Live(d) : d.node[x].originator = o}
    <3>1. d.originatorIndex[o] = tp.originatorIndex[o] \cup (IF o = orig THEN {w} ELSE {})
      BY <2>1, <1>7, <1>10, <1>12 DEF SameIndex
    <3>2. tp.originatorIndex[o] = {x \in Live(tp) : tp.node[x].originator = o}
      BY DEF TopoOk, OwnersOk
    <3> QED
      BY <3>1, <3>2, <1>15, <1>16 DEF SameNames
  <2>4. ASSUME NEW x \in Live(d)
        PROVE  d.route[x] = d.node[x].owner
    <3>1. d.route[x] = IF x = w THEN owner ELSE tp.route[x]
      BY <2>1, <1>7, <1>10, <1>12, <1>15 DEF SameIndex
    <3> QED
      BY <3>1, <1>15, <1>16 DEF SameNames, TopoOk, OwnersOk
  <2> QED
    BY <2>2, <2>3, <2>4 DEF OwnersOk
<1>18. SightOk(d)
  <2>1. tp.canSee \in [Nodes -> SUBSET Nodes] /\ tp.seenBy \in [Nodes -> SUBSET Nodes]
    BY <1>4, TopologyFields
  <2>2. /\ d.canSee = [tp.canSee EXCEPT ![Root] = @ \cup {w}]
        /\ d.seenBy = [tp.seenBy EXCEPT ![w] = @ \cup {Root}]
    BY <1>7, <1>10, <1>12 DEF SameSight
  <2> QED
    BY <2>1, <2>2, <1>8, <1>15 DEF SightOk, TopoOk
<1>19. SameRights(d, tp)
  BY <1>7, <1>10, <1>12 DEF SameRights
<1>20. RightsOk(d) /\ RightsStep(d, tp)
  BY <1>4, <1>12, <1>19, PartsKept DEF TopoOk
<1>21. TopoOk(d)
  BY <1>12, <1>15, <1>17, <1>18, <1>20 DEF TopoOk
<1>22. ASSUME NEW a, TopoOk(a), NEW h \in Nodes, NEW t \in Nodes, NEW kind \in {"Send", "SendOnce", "Receive"}
       PROVE  LET b == CreateRight(a, h, t, kind)
              IN  TopoOk(b) /\ Live(b) = Live(a) /\ SameStatus(b, a) /\ SameNames(b, a) /\ RightsStep(b, a)
  <2>1. PICK b : b = CreateRight(a, h, t, kind)
    OBVIOUS
  <2>2. b \in Topologies /\ b.node = a.node /\ SameIndex(b, a) /\ SameSight(b, a)
        /\ RightsOk(b) /\ RightsStep(b, a)
    BY <1>22, <2>1, CreateRightLeaves DEF TopoOk
  <2> QED
    BY <1>22, <2>1, <2>2, RightsOnly DEF SameTree
<1>23. PICK e : e = CreateRight(d, p, w, "Send")
  OBVIOUS
<1>24. TopoOk(e) /\ Live(e) = Live(d) /\ SameStatus(e, d) /\ SameNames(e, d) /\ RightsStep(e, d)
  BY <1>21, <1>22, <1>23
<1>25. PICK f : f = CreateRight(e, w, p, "Send")
  OBVIOUS
<1>26. TopoOk(f) /\ Live(f) = Live(e) /\ SameStatus(f, e) /\ SameNames(f, e) /\ RightsStep(f, e)
  BY <1>22, <1>24, <1>25
<1>27. PICK r : r = CreateRight(f, w, w, "Receive")
  OBVIOUS
<1>28. TopoOk(r) /\ Live(r) = Live(f) /\ SameStatus(r, f) /\ SameNames(r, f) /\ RightsStep(r, f)
  BY <1>22, <1>26, <1>27
<1>29. SameStatus(r, tp) /\ SameNames(r, tp) /\ r.node[w].status = status
  BY <1>15, <1>16, <1>24, <1>26, <1>28 DEF SameStatus, SameNames
<1>30. RightsStep(r, tp)
  BY <1>20, <1>24, <1>26, <1>28, RightsSteps
<1>31. CreateWorkspace(tp, w, p, owner, orig, status, task) = r
  BY <1>1, <1>3, <1>9, <1>11, <1>23, <1>25, <1>27 DEF CreateWorkspace
<1> QED
  BY <1>15, <1>24, <1>26, <1>28, <1>29, <1>30, <1>31

\* terminate_workspace: whoever changes its status is w, or is below it and of
\* the same owner.
LEMMA TerminateKeeps ==
  ASSUME NEW tp, TopoOk(tp), NEW w \in Live(tp), NEW status \in TerminalStates
  PROVE  LET r == Terminate(tp, w, status)
         IN  /\ TopoOk(r) /\ RightsStep(r, tp) /\ Live(r) = Live(tp) /\ SameNames(r, tp)
             /\ \A x \in Live(tp) : r.node[x].status # tp.node[x].status =>
                   r.node[x].status \in TerminalStates
             /\ \A x \in Live(tp) : r.node[x].status # tp.node[x].status =>
                   x = w \/ (x \in Descendants(tp, w) /\ tp.node[x].owner = tp.node[w].owner)
<1>1. status \in WorkspaceStates
  BY DEF TerminalStates, WorkspaceStates
<1>2. PICK q : q = SetStatus(tp, {w}, status)
  OBVIOUS
<1>3. TopoOk(q) /\ RightsStep(q, tp)
  BY <1>1, <1>2, StatusKeeps
<1>4. SameTree(q, tp) /\ SameNames(q, tp)
      /\ \A x \in Live(tp) : q.node[x].status = IF x \in {w} THEN status ELSE tp.node[x].status
  BY <1>1, <1>2, SetStatusLeaves DEF TopoOk
<1>5. PICK c : c = ExpireWorkspaces(q, {w})
  OBVIOUS
<1>6. TopoOk(c) /\ SameTree(c, q) /\ SameNames(c, q) /\ SameStatus(c, q) /\ RightsStep(c, q)
  BY <1>3, <1>5, ExpireLeaves
<1>7. SameTree(c, tp) /\ SameNames(c, tp) /\ RightsStep(c, tp)
      /\ \A x \in Live(tp) : c.node[x].status = IF x = w THEN status ELSE tp.node[x].status
  BY <1>3, <1>4, <1>6, RightsSteps DEF SameTree, SameNames, SameStatus
<1>8. CASE status # "Failed"
  <2>1. Terminate(tp, w, status) = c
    BY <1>2, <1>5, <1>8 DEF Terminate
  <2> QED
    BY <2>1, <1>6, <1>7 DEF SameTree
<1>9. CASE status = "Failed"
  <2>1. PICK d : d = CascadeFailure(c, w)
    OBVIOUS
  <2>2. /\ TopoOk(d) /\ Live(d) = Live(c) /\ SameNames(d, c) /\ RightsStep(d, c)
        /\ \A x \in Live(c) : d.node[x].status # c.node[x].status =>
              d.node[x].status = "Failed"
        /\ \A x \in Live(c) : d.node[x].status # c.node[x].status =>
              x = w \/ (x \in Descendants(c, w) /\ c.node[x].owner = c.node[w].owner)
    BY <2>1, <1>6, <1>7, CascadeKeeps DEF SameTree
  <2>3. Descendants(c, w) = Descendants(tp, w)
    <3>1. \A x \in Nodes : Children(c, x) = Children(tp, x)
      BY <1>7 DEF SameTree, Children, Live
    <3> QED
      BY <3>1, SameChildren DEF Live
  <2>4. PICK failed : failed = {x \in Descendants(d, w) : d.node[x].status = "Failed"}
    OBVIOUS
  <2>5. PICK r : r = ExpireWorkspaces(d, failed)
    OBVIOUS
  <2>6. TopoOk(r) /\ SameTree(r, d) /\ SameNames(r, d) /\ SameStatus(r, d) /\ RightsStep(r, d)
    BY <2>2, <2>5, ExpireLeaves
  <2>7. Terminate(tp, w, status) = r
    BY <1>2, <1>5, <1>9, <2>1, <2>4, <2>5 DEF Terminate
  <2>8. RightsStep(r, tp)
    BY <1>7, <2>2, <2>6, RightsSteps
  <2>9. ASSUME NEW x \in Live(tp), r.node[x].status # tp.node[x].status
        PROVE  /\ r.node[x].status \in TerminalStates
               /\ x = w \/ (x \in Descendants(tp, w) /\ tp.node[x].owner = tp.node[w].owner)
    BY <1>7, <1>9, <2>2, <2>3, <2>6, <2>9 DEF SameStatus, SameTree, SameNames
  <2>10. Live(r) = Live(tp) /\ SameNames(r, tp)
    BY <1>7, <2>2, <2>6 DEF SameTree, SameNames
  <2> QED
    BY <2>6, <2>7, <2>8, <2>9, <2>10
<1> QED
  BY <1>8, <1>9

\* transfer_ownership moves the workspace from one owner's index to the
\* other's and reroutes its escalations.
LEMMA TransferKeeps ==
  ASSUME NEW tp, TopoOk(tp), NEW w \in Live(tp), NEW owner \in Users, tp.node[w].owner # owner
  PROVE  LET r == TransferOwnership(tp, w, owner)
         IN  TopoOk(r) /\ SameStatus(r, tp) /\ SameRights(r, tp)
<1>1. tp \in Topologies /\ w \in Nodes
  BY DEF TopoOk, Live
<1>2. PICK n \in NodeRecord : n = tp.node[w]
  BY <1>1, LiveNode DEF Live
<1>3. PICK m : m = [n EXCEPT !.owner = owner]
  OBVIOUS
<1>4. m \in NodeRecord /\ m.parent = n.parent /\ m.children = n.children /\ m.owner = owner
      /\ m.originator = n.originator /\ m.status = n.status
  BY <1>3 DEF NodeRecord
<1>5. tp.node \in [Nodes -> NodeRecord \cup {NoNode}] /\ tp.ownerIndex \in [Users -> SUBSET Nodes]
      /\ tp.route \in [Nodes -> Users \cup {NoNode}]
  BY <1>1, TopologyFields
<1>6. PICK nodes \in [Nodes -> NodeRecord \cup {NoNode}] : nodes = [tp.node EXCEPT ![w] = m]
  BY <1>1, <1>4, <1>5
<1>7. n.owner \in Users
  BY NodeFields
<1>8. PICK dropped \in [Users -> SUBSET Nodes] : dropped = [tp.ownerIndex EXCEPT ![n.owner] = @ \ {w}]
  BY <1>5, <1>7, Indexed
<1>9. PICK wi \in [Users -> SUBSET Nodes] : wi = [dropped EXCEPT ![owner] = @ \cup {w}]
  BY <1>1, Indexed
<1>10. PICK q : q = [tp EXCEPT !.node = nodes, !.ownerIndex = wi]
  OBVIOUS
<1>11. q \in Topologies
  BY <1>1, <1>10 DEF Topologies
<1>12. q.node = nodes /\ q.ownerIndex = wi /\ q.originatorIndex = tp.originatorIndex
       /\ q.route = tp.route /\ SameSight(q, tp) /\ SameRights(q, tp)
  BY <1>1, <1>10 DEF Topologies, SameSight, SameRights
<1>13. PICK r : r = RouteTo(q, w, owner)
  OBVIOUS
<1>14. /\ r \in Topologies /\ r.node = q.node /\ SameSight(r, q) /\ SameRights(r, q)
       /\ r.originatorIndex = q.originatorIndex /\ r.ownerIndex = q.ownerIndex
       /\ r.route = [q.route EXCEPT ![w] = owner]
  BY <1>1, <1>11, <1>13, RouteLeaves
<1>15. TransferOwnership(tp, w, owner) = r
  BY <1>2, <1>3, <1>6, <1>8, <1>9, <1>10, <1>13 DEF TransferOwnership
<1>16. \A x \in Nodes : r.node[x] = IF x = w THEN m ELSE tp.node[x]
  BY <1>5, <1>6, <1>12, <1>14
<1>17. Live(r) = Live(tp)
  BY <1>1, <1>2, <1>4, <1>16, TopologyAssumption DEF Live, Exists
<1>18. SameTree(r, tp) /\ SameStatus(r, tp)
  BY <1>2, <1>4, <1>16, <1>17 DEF SameTree, SameStatus, Live
<1>19. SameSight(r, tp) /\ SameRights(r, tp)
  BY <1>12, <1>14 DEF SameSight, SameRights
<1>20. TreeOk(r) /\ SightOk(r) /\ RightsOk(r)
  BY <1>1, <1>14, <1>17, <1>18, <1>19, PartsKept DEF TopoOk
<1>21. OwnersOk(r)
  <2>1. ASSUME NEW u \in Users
        PROVE  r.ownerIndex[u] = {x \in Live(r) : r.node[x].owner = u}
    <3>1. wi[u] = (tp.ownerIndex[u] \ (IF u = n.owner THEN {w} ELSE {})) \cup (IF u = owner THEN {w} ELSE {})
      BY <1>5, <1>7, <1>8, <1>9
    <3>2. tp.ownerIndex[u] = {x \in Live(tp) : tp.node[x].owner = u}
      BY DEF TopoOk, OwnersOk
    <3>3. \A x \in Live(tp) : r.node[x].owner = IF x = w THEN owner ELSE tp.node[x].owner
      BY <1>4, <1>16 DEF Live
    <3> QED
      BY <3>1, <3>2, <3>3, <1>2, <1>12, <1>14, <1>17
  <2>2. ASSUME NEW o \in Users \cup {System}
        PROVE  r.originatorIndex[o] = {x \in Live(r) : r.node[x].originator = o}
    <3>1. \A x \in Live(tp) : r.node[x].originator = tp.node[x].originator
      BY <1>2, <1>4, <1>16 DEF Live
    <3> QED
      BY <3>1, <1>12, <1>14, <1>17 DEF TopoOk, OwnersOk
  <2>3. ASSUME NEW x \in Live(r)
        PROVE  r.route[x] = r.node[x].owner
    <3>1. r.route[x] = IF x = w THEN owner ELSE tp.route[x]
      BY <1>5, <1>12, <1>14, <1>17 DEF Live
    <3>2. r.node[x].owner = IF x = w THEN owner ELSE tp.node[x].owner
      BY <1>4, <1>16 DEF Live
    <3> QED
      BY <3>1, <3>2, <1>17 DEF TopoOk, OwnersOk
  <2> QED
    BY <2>1, <2>2, <2>3 DEF OwnersOk
<1> QED
  BY <1>14, <1>15, <1>18, <1>19, <1>20, <1>21 DEF TopoOk

\* grant adds one pair to both directions of visibility.
LEMMA GrantKeeps ==
  ASSUME NEW tp, TopoOk(tp), NEW v \in Nodes, NEW t \in Nodes
  PROVE  LET r == Grant(tp, v, t)
         IN  TopoOk(r) /\ SameStatus(r, tp) /\ SameRights(r, tp)
<1>1. PICK r : r = Grant(tp, v, t)
  OBVIOUS
<1>2. /\ r \in Topologies /\ r.node = tp.node /\ SameIndex(r, tp) /\ SameRights(r, tp)
      /\ v # t => /\ r.canSee = [tp.canSee EXCEPT ![v] = @ \cup {t}]
                  /\ r.seenBy = [tp.seenBy EXCEPT ![t] = @ \cup {v}]
      /\ v = t => r = tp
  BY <1>1, GrantLeaves DEF TopoOk
<1>3. SameTree(r, tp) /\ SameNames(r, tp) /\ SameStatus(r, tp)
  BY <1>2, NodeKept
<1>4. TreeOk(r) /\ OwnersOk(r) /\ RightsOk(r)
  BY <1>2, <1>3, PartsKept DEF TopoOk, SameTree
<1>5. SightOk(r)
  <2>1. tp.canSee \in [Nodes -> SUBSET Nodes] /\ tp.seenBy \in [Nodes -> SUBSET Nodes]
    BY TopologyFields DEF TopoOk
  <2>2. CASE v # t
    <3>1. \A x \in Nodes : /\ r.canSee[x] = tp.canSee[x] \cup (IF x = v THEN {t} ELSE {})
                           /\ r.seenBy[x] = tp.seenBy[x] \cup (IF x = t THEN {v} ELSE {})
      BY <2>1, <2>2, <1>2
    <3>2. SightOk(tp) /\ Live(r) = Live(tp) /\ Root \in Nodes
      BY <1>3, TopologyAssumption DEF TopoOk, SameTree
    <3> QED
      BY <3>1, <3>2 DEF SightOk
  <2>3. CASE v = t
    BY <2>3, <1>2 DEF TopoOk
  <2> QED
    BY <2>2, <2>3
<1> QED
  BY <1>1, <1>2, <1>3, <1>4, <1>5 DEF TopoOk

\* What every step does to the topology.
Stays(r, tp) == TopoOk(r) /\ SameStatus(r, tp) /\ RightsStep(r, tp)

\* Creation, with its owner and its originator resolved.
LEMMA CreateStep ==
  ASSUME TopoOk(topo), NEW w \in Nodes, NEW p \in Nodes, NEW explicit, NEW injector,
         Create(w, p, explicit, injector)
  PROVE  Stays(topo', topo)
<1>1. ~Exists(topo, w) /\ Exists(topo, p)
      /\ topo' = CreateWorkspace(topo, w, p, ResolveOwner(topo, p, explicit),
                                 ResolveOriginator(topo, p, injector), "Idle", NoNode)
  BY DEF Create
<1>2. topo.node[p] \in NodeRecord
  BY <1>1, LiveNode DEF TopoOk
<1>3. PICK owner \in Users, orig \in Users \cup {System} :
         owner = ResolveOwner(topo, p, explicit) /\ orig = ResolveOriginator(topo, p, injector)
  BY <1>2, NodeFields DEF ResolveOwner, ResolveOriginator
<1>4. "Idle" \in WorkspaceStates
  BY DEF WorkspaceStates
<1>5. topo' = CreateWorkspace(topo, w, p, owner, orig, "Idle", NoNode)
  BY <1>1, <1>3
<1> QED
  BY <1>1, <1>4, <1>5, CreateKeeps DEF Stays

\* The steps on one right.
LEMMA RightStep ==
  ASSUME TopoOk(topo),
         \/ \E h, t \in Nodes : NewRight(h, t, "SendOnce")
         \/ \E id \in DOMAIN topo.rights, h \in Nodes : PassRight(id, h)
         \/ \E id \in DOMAIN topo.rights : ConsumeRight(id)
         \/ \E id \in DOMAIN topo.rights : RevokeRight(id)
  PROVE  Stays(topo', topo)
<1>1. topo \in Topologies /\ RightsOk(topo)
  BY DEF TopoOk
<1>2. /\ topo' \in Topologies /\ topo'.node = topo.node /\ SameIndex(topo', topo) /\ SameSight(topo', topo)
      /\ RightsOk(topo') /\ RightsStep(topo', topo)
  <2>1. CASE \E h, t \in Nodes : NewRight(h, t, "SendOnce")
    <3>1. PICK h \in Nodes, t \in Nodes : topo' = CreateRight(topo, h, t, "SendOnce")
      BY <2>1 DEF NewRight
    <3> QED
      BY <1>1, <3>1, CreateRightLeaves
  <2>2. CASE \E id \in DOMAIN topo.rights, h \in Nodes : PassRight(id, h)
    <3>1. PICK id \in DOMAIN topo.rights, h \in Nodes :
             topo.rights[id].status = "Active" /\ topo' = TransferRight(topo, id, h)
      BY <2>2 DEF PassRight
    <3> QED
      BY <1>1, <3>1, TransferRightLeaves
  <2>3. CASE \E id \in DOMAIN topo.rights : ConsumeRight(id)
    <3>1. PICK id \in DOMAIN topo.rights : topo' = SetRight(topo, {id}, "Consumed")
      BY <2>3 DEF ConsumeRight
    <3> QED
      BY <1>1, <3>1, SetRightLeaves
  <2>4. CASE \E id \in DOMAIN topo.rights : RevokeRight(id)
    <3>1. PICK id \in DOMAIN topo.rights : topo' = SetRight(topo, {id}, "Revoked")
      BY <2>4 DEF RevokeRight
    <3> QED
      BY <1>1, <3>1, SetRightLeaves
  <2> QED
    BY <2>1, <2>2, <2>3, <2>4
<1> QED
  BY <1>2, RightsOnly DEF Stays

\* A step that is not a termination leaves every status.
LEMMA OtherSteps ==
  ASSUME TopoOk(topo), TopologyNext,
         ~ \E w \in Nodes \ {Root}, status \in TerminalStates : End(w, status)
  PROVE  Stays(topo', topo)
<1>1. TopoOk(topo) => Stays(topo, topo)
  BY DEF Stays, SameStatus, RightsStep
<1>2. ASSUME NEW w \in Nodes, NEW owner \in Users, ChangeOwner(w, owner)
      PROVE  Stays(topo', topo)
  <2>1. w \in Live(topo) /\ topo.node[w].owner # owner /\ topo' = TransferOwnership(topo, w, owner)
    BY <1>2 DEF ChangeOwner, Live
  <2>2. TopoOk(topo') /\ SameStatus(topo', topo) /\ SameRights(topo', topo)
    BY <2>1, TransferKeeps
  <2> QED
    BY <2>2, PartsKept DEF Stays, TopoOk
<1>3. ASSUME NEW v \in Nodes, NEW t \in Nodes, NEW g \in Nodes, GrantChecked(v, t, g)
      PROVE  Stays(topo', topo)
  <2>1. topo' = Grant(topo, v, t)
    BY <1>3 DEF GrantChecked
  <2>2. TopoOk(topo') /\ SameStatus(topo', topo) /\ SameRights(topo', topo)
    BY <2>1, GrantKeeps
  <2> QED
    BY <2>2, PartsKept DEF Stays, TopoOk
<1>4. ASSUME NEW from \in Nodes, NEW to \in Nodes,
             HandleSendEnvelope(from, to) \/ HandleInjectEnvelope(to)
      PROVE  Stays(topo', topo)
  <2>1. topo' = topo
    BY <1>4 DEF HandleSendEnvelope, HandleInjectEnvelope
  <2> QED
    BY <2>1, <1>1
<1>5. ASSUME NEW to \in Nodes, HandleInjectEnvelope(to)
      PROVE  Stays(topo', topo)
  BY <1>4, <1>5
<1> QED
  BY <1>2, <1>3, <1>4, <1>5, CreateStep, RightStep DEF TopologyNext

\* Every step keeps the invariant, and what it may do to a status and to a
\* right is bounded.
LEMMA TopologyStep ==
  ASSUME TopoOk(topo), TopologyNext
  PROVE  /\ TopoOk(topo') /\ RightsStep(topo', topo)
         /\ \/ SameStatus(topo', topo)
            \/ \E top \in Live(topo) : \A x \in Live(topo) :
                  topo'.node[x].status # topo.node[x].status =>
                     x = top \/ (x \in Descendants(topo, top)
                                  /\ topo.node[x].owner = topo.node[top].owner)
<1>1. ASSUME NEW w \in Nodes \ {Root}, NEW status \in TerminalStates, End(w, status)
      PROVE  /\ TopoOk(topo') /\ RightsStep(topo', topo)
             /\ \E top \in Live(topo) : \A x \in Live(topo) :
                  topo'.node[x].status # topo.node[x].status =>
                     x = top \/ (x \in Descendants(topo, top)
                                  /\ topo.node[x].owner = topo.node[top].owner)
  <2>1. w \in Live(topo) /\ topo' = Terminate(topo, w, status)
    BY <1>1 DEF End, Live
  <2>2. /\ TopoOk(topo') /\ RightsStep(topo', topo)
        /\ \A x \in Live(topo) : topo'.node[x].status # topo.node[x].status =>
              x = w \/ (x \in Descendants(topo, w) /\ topo.node[x].owner = topo.node[w].owner)
    BY <2>1, TerminateKeeps
  <2> QED
    BY <2>1, <2>2
<1>2. CASE ~ \E w \in Nodes \ {Root}, status \in TerminalStates : End(w, status)
  BY <1>2, OtherSteps DEF Stays
<1> QED
  BY <1>1, <1>2

\* For any workspaces, owners and tasks, over any sequence of creations,
\* terminations, transfers of ownership and of rights, and grants: one tree,
\* indices that agree with it, a root that sees everything, failures that stay
\* inside an ownership boundary and rights that stay ended (TopologySet).
THEOREM TopologyAlwaysHolds ==
  TopologySpec => TopologyHolds
<1> DEFINE Inv == TopoOk(topo)
<1>1. TopologyInit => Inv
  BY NewTopologyOk DEF TopologyInit
<1>2. Inv /\ [TopologyNext]_topologyVars => Inv'
  <2>1. CASE TopologyNext
    <3>1. Inv => TopoOk(topo')
      BY <2>1, TopologyStep
    <3> QED
      BY <3>1 DEF TopoOk, TreeOk, OwnersOk, SightOk, RightsOk, Live, Exists, Descendants, Children
  <2>2. CASE UNCHANGED topologyVars
    <3>1. topo' = topo
      BY <2>2 DEF topologyVars
    <3> QED
      BY <3>1 DEF TopoOk, TreeOk, OwnersOk, SightOk, RightsOk, Live, Exists, Descendants, Children
  <2> QED
    BY <2>1, <2>2
<1>3. Inv => TreeIsATree /\ IndicesAgree /\ RootSeesAll
  BY TopoOkImplies
<1>4. Inv /\ [TopologyNext]_topologyVars
      => [\A w \in Live(topo) :
           topo'.node[w].status = "Failed" /\ topo.node[w].status # "Failed"
           => \E top \in Live(topo) :
                /\ w = top \/ w \in Descendants(topo, top)
                /\ topo.node[top].owner = topo.node[w].owner
                /\ \A x \in Live(topo) : topo'.node[x].status # topo.node[x].status
                      => x = top \/ x \in Descendants(topo, top)]_topologyVars
  <2> SUFFICES ASSUME Inv, TopologyNext, NEW w \in Live(topo),
                      topo'.node[w].status = "Failed", topo.node[w].status # "Failed"
               PROVE  \E top \in Live(topo) :
                /\ w = top \/ w \in Descendants(topo, top)
                /\ topo.node[top].owner = topo.node[w].owner
                /\ \A x \in Live(topo) : topo'.node[x].status # topo.node[x].status
                      => x = top \/ x \in Descendants(topo, top)
    OBVIOUS
  <2>1. ~SameStatus(topo', topo)
    BY DEF SameStatus
  <2>2. PICK top \in Live(topo) : \A x \in Live(topo) :
                  topo'.node[x].status # topo.node[x].status =>
                     x = top \/ (x \in Descendants(topo, top)
                                  /\ topo.node[x].owner = topo.node[top].owner)
    BY <2>1, TopologyStep
  <2> QED
    BY <2>2
<1>5. Inv /\ [TopologyNext]_topologyVars
      => [\A i \in DOMAIN topo.rights :
           /\ topo.rights[i].status # "Active" => topo'.rights[i] = topo.rights[i]
           /\ topo'.rights[i].target = topo.rights[i].target
           /\ topo'.rights[i].kind = topo.rights[i].kind]_topologyVars
  BY TopologyStep DEF RightsStep
<1> HIDE DEF Inv
<1>6. TopologySpec => [](TreeIsATree /\ IndicesAgree /\ RootSeesAll)
  BY <1>1, <1>2, <1>3, PTL DEF TopologySpec
<1>7. TopologySpec => FailureStaysInOwner
  BY <1>1, <1>2, <1>4, PTL DEF TopologySpec, FailureStaysInOwner
<1>8. TopologySpec => RightsAreFinal
  BY <1>1, <1>2, <1>5, PTL DEF TopologySpec, RightsAreFinal
<1> QED
  BY <1>6, <1>7, <1>8 DEF TopologyHolds

(* --------------------------- induction over sets ------------------------ *)
\* A non-empty set of natural numbers has a least element.
LEMMA LeastNumber ==
  ASSUME NEW T \in SUBSET Nat, T # {}
  PROVE  \E m \in T : \A n \in T : m <= n
<1>1. PICK F : F = {1..n : n \in T}
  OBVIOUS
<1>2. F \subseteq FiniteSubsetsOf(Nat)
  <2> SUFFICES ASSUME NEW n \in T PROVE 1..n \in FiniteSubsetsOf(Nat)
    BY <1>1
  <2>1. n \in Int /\ 1 \in Int
    OBVIOUS
  <2>2. IsFiniteSet(1..n)
    BY <2>1, FS_Interval
  <2> QED
    BY <2>2 DEF FiniteSubsetsOf
<1>3. F # {}
  BY <1>1
<1>4. PICK x \in F : \A y \in F : ~ (<<y, x>> \in StrictSubsetOrdering(Nat))
  BY <1>2, <1>3, FS_StrictSubsetOrderingWellFounded, WFMin
<1>5. PICK m \in T : x = 1..m
  BY <1>1
<1>6. ASSUME NEW n \in T, n < m PROVE FALSE
  <2>1. 1..n \in F /\ 1..n \subseteq 1..m /\ 1..n # 1..m
    BY <1>1, <1>6
  <2>2. 1..n \in SUBSET Nat /\ 1..m \in SUBSET Nat
    OBVIOUS
  <2>3. <<1..n, 1..m>> \in StrictSubsetOrdering(Nat)
    BY <2>1, <2>2 DEF StrictSubsetOrdering
  <2> QED
    BY <2>1, <2>3, <1>4, <1>5
<1> QED
  BY <1>6

\* A set of numbers with zero and with every successor has them all.
LEMMA SetInduction ==
  ASSUME NEW T, 0 \in T, \A n \in Nat : n \in T => n + 1 \in T
  PROVE  \A n \in Nat : n \in T
<1> SUFFICES ASSUME NEW k \in Nat, k \notin T PROVE FALSE
  OBVIOUS
<1>1. PICK U : U = {n \in Nat : n \notin T}
  OBVIOUS
<1>2. U \in SUBSET Nat /\ U # {}
  BY <1>1
<1>3. PICK m \in U : \A n \in U : m <= n
  BY <1>2, LeastNumber
<1>4. m \in Nat /\ m # 0 /\ m - 1 \in Nat /\ (m - 1) + 1 = m
  BY <1>1, <1>3
<1>5. m - 1 \in T
  BY <1>1, <1>3, <1>4
<1> QED
  BY <1>1, <1>3, <1>4, <1>5

\* A non-empty set of numbers up to n has a greatest one.
LEMMA GreatestNumber ==
  ASSUME NEW n \in Nat, NEW S \in SUBSET (1..n), S # {}
  PROVE  \E g \in S : \A k \in S : k <= g
<1>1. PICK T : T = {k \in 0..n : n - k \in S}
  OBVIOUS
<1>2. ASSUME NEW k \in S PROVE k \in Nat /\ n - k \in T
  <2>1. k \in Nat /\ n - k \in 0..n /\ n - (n - k) = k
    OBVIOUS
  <2> QED
    BY <2>1, <1>1
<1>3. T \in SUBSET Nat /\ T # {}
  <2>1. PICK k \in S : TRUE
    OBVIOUS
  <2>2. 0..n \in SUBSET Nat
    OBVIOUS
  <2> QED
    BY <2>1, <2>2, <1>1, <1>2
<1>4. PICK t \in T : \A u \in T : t <= u
  BY <1>3, LeastNumber
<1>5. PICK g \in S : g = n - t
  BY <1>1, <1>4
<1>6. ASSUME NEW k \in S PROVE k <= g
  <2>1. n - k \in T /\ k \in Nat /\ t \in Nat
    BY <1>2, <1>3
  <2>2. t <= n - k
    BY <2>1, <1>4
  <2> QED
    BY <2>1, <2>2, <1>5
<1> QED
  BY <1>6

(* ------------------------------ scheduling ------------------------------ *)
Graphs ==
  [task : [TaskIds -> TaskRecord \cup {NoTask}], remaining : [TaskIds -> Nat],
   forward : [TaskIds -> Seq(TaskIds)], boundTask : [Nodes -> TaskIds \cup {NoTask}]]

\* The forward edges from d to t, by position, and the dependencies of t that
\* still keep it waiting.
EdgesTo(g, d, t) == {i \in DOMAIN g.forward[d] : g.forward[d][i] = t}
Deps(g, t) == Range(g.task[t].deps)
Open(g, t) == {d \in Deps(g, t) : g.task[d].status \notin Finished}
Waits(g, t) == Known(g, t) /\ g.task[t].status \in {"Draft", "Pending"}
Clean(g, t) ==
  \A d \in TaskIds : Cardinality(EdgesTo(g, d, t)) = IF d \in Deps(g, t) THEN 1 ELSE 0

\* A task's dependencies are in the graph, and know of it.
DepsOk(g) ==
  \A t \in TaskIds : Known(g, t) =>
    \A d \in Deps(g, t) : d \in TaskIds /\ Known(g, d) /\ EdgesTo(g, d, t) # {}

\* What the properties say of the graph.
ReadyOk(g) ==
  \A t \in TaskIds : Waits(g, t) /\ Clean(g, t) => g.remaining[t] = Cardinality(Open(g, t))
BindOk(g) ==
  /\ \A w \in Nodes : g.boundTask[w] # NoTask => Known(g, g.boundTask[w])
  /\ \A t \in TaskIds, w \in Nodes : Known(g, t) =>
       /\ g.task[t].ws = w <=> g.boundTask[w] = t
       /\ g.task[t].ws = w => g.task[t].history[Len(g.task[t].history)] = w

GraphOk(g) ==
  /\ g \in Graphs
  /\ IsFiniteSet({t \in TaskIds : Known(g, t)})
  /\ DepsOk(g) /\ ReadyOk(g) /\ BindOk(g)

\* What an operation leaves: the tasks and their edges, their bindings, and
\* what readiness looks at.
SameGraph(h, g) ==
  /\ \A t \in TaskIds : Known(h, t) <=> Known(g, t)
  /\ \A t \in TaskIds : Known(g, t) => h.task[t].deps = g.task[t].deps
  /\ \A d, t \in TaskIds : Known(g, t) => EdgesTo(h, d, t) = EdgesTo(g, d, t)
SameBinding(h, g) ==
  /\ h.boundTask = g.boundTask
  /\ \A t \in TaskIds : Known(g, t) => /\ h.task[t].ws = g.task[t].ws
                                       /\ h.task[t].history = g.task[t].history
SameReadiness(h, g) ==
  /\ h.remaining = g.remaining
  /\ \A t \in TaskIds : Known(g, t) =>
       /\ h.task[t].status \in Finished <=> g.task[t].status \in Finished
       /\ h.task[t].status \in {"Draft", "Pending"} => g.task[t].status \in {"Draft", "Pending"}

\* The fields of a graph have their types.
LEMMA GraphFields ==
  ASSUME NEW g \in Graphs
  PROVE  /\ g.task \in [TaskIds -> TaskRecord \cup {NoTask}]
         /\ g.remaining \in [TaskIds -> Nat]
         /\ g.forward \in [TaskIds -> Seq(TaskIds)]
         /\ g.boundTask \in [Nodes -> TaskIds \cup {NoTask}]
BY DEF Graphs

\* A task in the graph has a record.
LEMMA KnownTask ==
  ASSUME NEW g \in Graphs, NEW t \in TaskIds
  PROVE  Known(g, t) <=> g.task[t] \in TaskRecord
<1>1. g.task[t] \in TaskRecord \cup {NoTask}
  BY GraphFields
<1> QED
  BY <1>1, SchedulingAssumption DEF Known

\* The fields of a task's record have their types.
LEMMA TaskFields ==
  ASSUME NEW r \in TaskRecord
  PROVE  /\ r.status \in TaskStates /\ r.deps \in Seq(TaskIds)
         /\ r.parent \in TaskIds \cup {NoTask} /\ r.ws \in Nodes \cup {NoNode}
         /\ r.history \in Seq(Nodes)
BY DEF TaskRecord

\* A part of the invariant holds after an operation that leaves its fields.
LEMMA GraphKept ==
  ASSUME NEW g, GraphOk(g), NEW h \in Graphs, SameGraph(h, g)
  PROVE  /\ IsFiniteSet({t \in TaskIds : Known(h, t)}) /\ DepsOk(h)
         /\ \A t \in TaskIds : Known(g, t) => Deps(h, t) = Deps(g, t) /\ (Clean(h, t) <=> Clean(g, t))
         /\ SameBinding(h, g) => BindOk(h)
         /\ SameReadiness(h, g) => ReadyOk(h)
<1>1. {t \in TaskIds : Known(h, t)} = {t \in TaskIds : Known(g, t)}
  BY DEF SameGraph
<1>2. \A t \in TaskIds : Known(g, t) => Deps(h, t) = Deps(g, t)
  BY DEF SameGraph, Deps
<1>3. \A d, t \in TaskIds : Known(g, t) => EdgesTo(h, d, t) = EdgesTo(g, d, t)
  BY DEF SameGraph
<1>4. \A t \in TaskIds : Known(g, t) => (Clean(h, t) <=> Clean(g, t))
  BY <1>2, <1>3 DEF Clean
<1>5. DepsOk(h)
  BY <1>2, <1>3 DEF GraphOk, DepsOk, SameGraph
<1>6. ASSUME SameBinding(h, g) PROVE BindOk(h)
  <2>1. \A w \in Nodes : h.boundTask[w] # NoTask => Known(h, h.boundTask[w])
    <3> SUFFICES ASSUME NEW w \in Nodes, h.boundTask[w] # NoTask PROVE Known(h, h.boundTask[w])
      OBVIOUS
    <3>1. h.boundTask[w] \in TaskIds /\ h.boundTask[w] = g.boundTask[w]
      BY <1>6, GraphFields DEF SameBinding
    <3> QED
      BY <3>1, <1>6 DEF SameGraph, GraphOk, BindOk
  <2>2. \A t \in TaskIds, w \in Nodes : Known(h, t) =>
           /\ h.task[t].ws = w <=> h.boundTask[w] = t
           /\ h.task[t].ws = w => h.task[t].history[Len(h.task[t].history)] = w
    BY <1>6 DEF SameGraph, SameBinding, GraphOk, BindOk
  <2> QED
    BY <2>1, <2>2 DEF BindOk
<1>7. ASSUME SameReadiness(h, g) PROVE ReadyOk(h)
  <2> SUFFICES ASSUME NEW t \in TaskIds, Waits(h, t), Clean(h, t)
               PROVE  h.remaining[t] = Cardinality(Open(h, t))
    BY DEF ReadyOk
  <2>1. Known(g, t) /\ Waits(g, t) /\ Clean(g, t)
    BY <1>4, <1>7 DEF Waits, SameGraph, SameReadiness
  <2>2. \A d \in Deps(g, t) : d \in TaskIds /\ Known(g, d)
    BY <2>1 DEF GraphOk, DepsOk
  <2>3. Open(h, t) = Open(g, t)
    BY <2>1, <2>2, <1>2, <1>7 DEF Open, SameReadiness
  <2>4. g.remaining[t] = Cardinality(Open(g, t))
    BY <2>1 DEF GraphOk, ReadyOk
  <2> QED
    BY <2>3, <2>4, <1>7 DEF SameReadiness
<1> QED
  BY <1>1, <1>2, <1>4, <1>5, <1>6, <1>7 DEF GraphOk

\* An operation that leaves the rest keeps the invariant.
LEMMA GraphStays ==
  ASSUME NEW g, GraphOk(g), NEW h \in Graphs, SameGraph(h, g), SameReadiness(h, g), BindOk(h)
  PROVE  GraphOk(h)
BY GraphKept DEF GraphOk

(* ------------------------ one task's record changes --------------------- *)
WithTask(g, t, r) == [g EXCEPT !.task = [g.task EXCEPT ![t] = r]]

\* The graph with another record for t.
LEMMA TaskReplaced ==
  ASSUME NEW g \in Graphs, NEW t \in TaskIds, NEW r \in TaskRecord
  PROVE  LET h == WithTask(g, t, r)
         IN  /\ h \in Graphs /\ h.task[t] = r
             /\ \A u \in TaskIds : u # t => h.task[u] = g.task[u]
             /\ h.remaining = g.remaining /\ h.forward = g.forward /\ h.boundTask = g.boundTask
<1>1. PICK tasks : tasks = [g.task EXCEPT ![t] = r]
  OBVIOUS
<1>2. tasks \in [TaskIds -> TaskRecord \cup {NoTask}] /\ tasks[t] = r
      /\ \A u \in TaskIds : u # t => tasks[u] = g.task[u]
  BY <1>1, GraphFields
<1>3. PICK h : h = [g EXCEPT !.task = tasks]
  OBVIOUS
<1>4. h \in Graphs
  BY <1>2, <1>3 DEF Graphs
<1>5. h.task = tasks /\ h.remaining = g.remaining /\ h.forward = g.forward /\ h.boundTask = g.boundTask
  BY <1>3 DEF Graphs
<1>6. WithTask(g, t, r) = h
  BY <1>1, <1>3 DEF WithTask
<1> QED
  BY <1>1, <1>2, <1>4, <1>5, <1>6

\* A legal trigger of the task's machine leads to a state of the machine.  None
\* leads back to waiting but the approval of a draft, and only an integration
\* or a cancellation finishes.
LEMMA TaskMoves ==
  ASSUME NEW s, NEW trigger, TaskLegal(s, trigger)
  PROVE  /\ TaskNext(s, trigger) \in TaskStates
         /\ s \notin Finished
         /\ TaskNext(s, trigger) \in {"Draft", "Pending"} => s \in {"Draft", "Pending"}
         /\ TaskNext(s, trigger) \in Finished => trigger \in {"Integrate", "Cancel"}
         /\ trigger = "Integrate" => TaskNext(s, trigger) = "Integrated"
         /\ trigger = "Cancel" => TaskNext(s, trigger) = "Cancelled"
<1>1. PICK to : to = TaskNext(s, trigger)
  OBVIOUS
<1>2. to \in TaskStates /\ <<s, trigger, to>> \in TaskEdges
  BY <1>1 DEF TaskLegal, TaskNext
<1>3. /\ s \notin Finished
      /\ to \in {"Draft", "Pending"} => s \in {"Draft", "Pending"}
      /\ to \in Finished => trigger \in {"Integrate", "Cancel"}
      /\ trigger = "Integrate" => to = "Integrated"
      /\ trigger = "Cancel" => to = "Cancelled"
  BY <1>2 DEF TaskEdges, Finished
<1> QED
  BY <1>1, <1>2, <1>3

\* What a transition leaves.
LEMMA TransitionLeaves ==
  ASSUME NEW g \in Graphs, NEW t \in TaskIds, Known(g, t), NEW trigger,
         TaskLegal(g.task[t].status, trigger)
  PROVE  LET h == Transition(g, t, trigger)
         IN  /\ h \in Graphs /\ SameGraph(h, g) /\ SameBinding(h, g) /\ h.remaining = g.remaining
             /\ h.task[t].status = TaskNext(g.task[t].status, trigger)
             /\ \A u \in TaskIds : u # t => h.task[u] = g.task[u]
<1>1. PICK old \in TaskRecord : old = g.task[t]
  BY KnownTask
<1>2. PICK s \in TaskStates : s = TaskNext(old.status, trigger)
  BY <1>1, TaskMoves
<1>3. PICK r : r = [old EXCEPT !.status = s]
  OBVIOUS
<1>4. r \in TaskRecord /\ r.status = s /\ r.deps = old.deps /\ r.parent = old.parent
      /\ r.ws = old.ws /\ r.history = old.history
  BY <1>3 DEF TaskRecord
<1>5. PICK h : h = WithTask(g, t, r)
  OBVIOUS
<1>6. Transition(g, t, trigger) = h
  BY <1>1, <1>2, <1>3, <1>5 DEF Transition, WithTask
<1>7. /\ h \in Graphs /\ h.task[t] = r /\ \A u \in TaskIds : u # t => h.task[u] = g.task[u]
      /\ h.remaining = g.remaining /\ h.forward = g.forward /\ h.boundTask = g.boundTask
  BY <1>4, <1>5, TaskReplaced
<1>8. \A u \in TaskIds : Known(h, u) <=> Known(g, u)
  BY <1>4, <1>7, KnownTask DEF Known
<1> QED
  BY <1>1, <1>2, <1>4, <1>6, <1>7, <1>8 DEF SameGraph, SameBinding, EdgesTo

\* A transition that finishes nothing keeps the invariant.
LEMMA AdvanceKeeps ==
  ASSUME NEW g, GraphOk(g), NEW t \in TaskIds, Known(g, t), NEW trigger,
         TaskLegal(g.task[t].status, trigger), trigger \notin {"Integrate", "Cancel"}
  PROVE  LET h == Transition(g, t, trigger)
         IN  /\ GraphOk(h) /\ SameGraph(h, g) /\ SameReadiness(h, g) /\ SameBinding(h, g)
<1>1. PICK h : h = Transition(g, t, trigger)
  OBVIOUS
<1>2. /\ h \in Graphs /\ SameGraph(h, g) /\ SameBinding(h, g) /\ h.remaining = g.remaining
      /\ h.task[t].status = TaskNext(g.task[t].status, trigger)
      /\ \A u \in TaskIds : u # t => h.task[u] = g.task[u]
  BY <1>1, TransitionLeaves DEF GraphOk
<1>3. SameReadiness(h, g)
  BY <1>2, TaskMoves DEF SameReadiness
<1>4. BindOk(h)
  BY <1>2, GraphKept
<1> QED
  BY <1>1, <1>2, <1>3, <1>4, GraphStays

(* ------------------------- adding and integrating ----------------------- *)
\* The edges from d to u are finitely many.
LEMMA EdgesFinite ==
  ASSUME NEW g \in Graphs, NEW d \in TaskIds, NEW u
  PROVE  IsFiniteSet(EdgesTo(g, d, u)) /\ Cardinality(EdgesTo(g, d, u)) \in Nat
         /\ EdgesTo(g, d, u) \subseteq 1..Len(g.forward[d])
<1>1. PICK f \in Seq(TaskIds) : f = g.forward[d]
  BY GraphFields
<1>2. Len(f) \in Nat /\ DOMAIN f = 1..Len(f)
  OBVIOUS
<1>3. IsFiniteSet(1..Len(f))
  BY <1>2, FS_Interval
<1>4. EdgesTo(g, d, u) \subseteq 1..Len(f)
  BY <1>1, <1>2 DEF EdgesTo
<1>5. IsFiniteSet(EdgesTo(g, d, u))
  BY <1>3, <1>4, FS_Subset
<1> QED
  BY <1>1, <1>4, <1>5, FS_CardinalityType

\* A task has finitely many dependencies.
LEMMA DepsFinite ==
  ASSUME NEW deps \in Seq(TaskIds)
  PROVE  IsFiniteSet(Range(deps)) /\ Range(deps) \subseteq TaskIds
<1>1. Len(deps) \in Nat /\ DOMAIN deps = 1..Len(deps)
  OBVIOUS
<1>2. IsFiniteSet(1..Len(deps))
  BY <1>1, FS_Interval
<1>3. PICK R : R = Range(deps)
  OBVIOUS
<1>4. R = {deps[x] : x \in 1..Len(deps)}
  BY <1>1, <1>3 DEF Range
<1>5. deps \in [1..Len(deps) -> R]
  BY <1>1, <1>4
<1>6. deps \in Surjection(1..Len(deps), R)
  BY <1>4, <1>5 DEF Surjection
<1>7. IsFiniteSet(R)
  BY <1>2, <1>6, FS_Surjection
<1> QED
  BY <1>1, <1>3, <1>4, <1>7

WithEdges(g, linked, t) ==
  [g EXCEPT !.forward = [d \in TaskIds |->
     IF d \in linked THEN Append(g.forward[d], t) ELSE g.forward[d]]]

\* New edges to t leave the edges to everybody else.
LEMMA EdgesGrow ==
  ASSUME NEW g \in Graphs, NEW linked, NEW t \in TaskIds
  PROVE  LET h == WithEdges(g, linked, t)
         IN  /\ h \in Graphs /\ h.task = g.task /\ h.remaining = g.remaining
             /\ h.boundTask = g.boundTask
             /\ \A d, u \in TaskIds : u # t => EdgesTo(h, d, u) = EdgesTo(g, d, u)
             /\ \A d \in TaskIds : d \in linked => EdgesTo(h, d, t) # {}
<1>1. PICK fwd : fwd = [d \in TaskIds |-> IF d \in linked THEN Append(g.forward[d], t) ELSE g.forward[d]]
  OBVIOUS
<1>2. ASSUME NEW d \in TaskIds
      PROVE  /\ fwd[d] \in Seq(TaskIds)
             /\ \A u \in TaskIds : u # t => {i \in DOMAIN fwd[d] : fwd[d][i] = u} = EdgesTo(g, d, u)
             /\ d \in linked => {i \in DOMAIN fwd[d] : fwd[d][i] = t} # {}
  <2>1. PICK f \in Seq(TaskIds) : f = g.forward[d]
    BY GraphFields
  <2>2. CASE d \notin linked
    <3>1. fwd[d] = f
      BY <1>1, <2>1, <2>2
    <3> QED
      BY <2>1, <2>2, <3>1 DEF EdgesTo
  <2>3. CASE d \in linked
    <3>1. PICK e : e = Append(f, t)
      OBVIOUS
    <3>2. fwd[d] = e
      BY <1>1, <2>1, <2>3, <3>1
    <3>3. /\ e \in Seq(TaskIds) /\ DOMAIN e = 1..(Len(f) + 1) /\ DOMAIN f = 1..Len(f)
          /\ Len(f) \in Nat /\ e[Len(f) + 1] = t /\ \A i \in 1..Len(f) : e[i] = f[i]
      BY <3>1
    <3>4. ASSUME NEW u \in TaskIds, u # t
          PROVE  {i \in DOMAIN e : e[i] = u} = {i \in DOMAIN f : f[i] = u}
      <4>1. \A i \in 1..(Len(f) + 1) : i \in 1..Len(f) \/ i = Len(f) + 1
        BY <3>3
      <4> QED
        BY <3>3, <3>4, <4>1
    <3>5. Len(f) + 1 \in DOMAIN e
      BY <3>3
    <3> QED
      BY <2>1, <3>2, <3>3, <3>4, <3>5 DEF EdgesTo
  <2> QED
    BY <2>2, <2>3
<1>3. fwd \in [TaskIds -> Seq(TaskIds)]
  BY <1>1, <1>2
<1>4. PICK h : h = [g EXCEPT !.forward = fwd]
  OBVIOUS
<1>5. h \in Graphs
  BY <1>3, <1>4 DEF Graphs
<1>6. h.forward = fwd /\ h.task = g.task /\ h.remaining = g.remaining /\ h.boundTask = g.boundTask
  BY <1>4 DEF Graphs
<1>7. WithEdges(g, linked, t) = h
  BY <1>1, <1>4 DEF WithEdges
<1>8. /\ \A d, u \in TaskIds : u # t => EdgesTo(h, d, u) = EdgesTo(g, d, u)
      /\ \A d \in TaskIds : d \in linked => EdgesTo(h, d, t) # {}
  BY <1>2, <1>6 DEF EdgesTo
<1> QED
  BY <1>5, <1>6, <1>7, <1>8

WithNew(g, t, r, n) ==
  [g EXCEPT !.task = [g.task EXCEPT ![t] = r], !.remaining = [g.remaining EXCEPT ![t] = n]]

\* add_task on a new id: refused, it leaves edges to a task that is not there;
\* accepted, the counter is the number of dependencies not yet finished.
LEMMA AddKeeps ==
  ASSUME NEW g, GraphOk(g), NEW t \in TaskIds, ~Known(g, t), NEW status \in {"Draft", "Pending"},
         NEW deps \in Seq(TaskIds), NEW parent \in TaskIds \cup {NoTask}
  PROVE  LET h == AddTask(g, t, NewTask(status, deps, parent))
         IN  /\ GraphOk(h)
             /\ \A u \in TaskIds : Known(g, u) => h.task[u] = g.task[u]
             /\ \A u \in TaskIds : Known(h, u) => Known(g, u) \/ (u = t /\ h.task[u].ws = NoNode)
<1>1. PICK new : new = NewTask(status, deps, parent)
  OBVIOUS
<1>2. /\ new \in TaskRecord /\ new.status = status /\ new.deps = deps /\ new.ws = NoNode
  <2>1. << >> \in Seq(Nodes) /\ status \in TaskStates
    BY DEF TaskStates
  <2> QED
    BY <1>1, <2>1 DEF NewTask, TaskRecord
<1>3. PICK unknown : unknown = {i \in DOMAIN deps : ~Known(g, deps[i])}
  OBVIOUS
<1>4. PICK linked : linked = {deps[i] : i \in {j \in DOMAIN deps : \A u \in unknown : j < u}}
  OBVIOUS
<1>5. PICK e : e = WithEdges(g, linked, t)
  OBVIOUS
<1>6. /\ e \in Graphs /\ e.task = g.task /\ e.remaining = g.remaining /\ e.boundTask = g.boundTask
      /\ \A d, u \in TaskIds : u # t => EdgesTo(e, d, u) = EdgesTo(g, d, u)
      /\ \A d \in TaskIds : d \in linked => EdgesTo(e, d, t) # {}
  BY <1>5, EdgesGrow DEF GraphOk
<1>7. SameGraph(e, g)
  BY <1>6 DEF SameGraph, Known
<1>8. SameBinding(e, g) /\ SameReadiness(e, g)
  BY <1>6 DEF SameBinding, SameReadiness
<1>9. GraphOk(e)
  BY <1>6, <1>7, <1>8, GraphKept, GraphStays
<1>10. CASE unknown # {}
  <2>1. AddTask(g, t, new) = e
    BY <1>2, <1>3, <1>4, <1>5, <1>10 DEF AddTask, WithEdges
  <2> QED
    BY <2>1, <1>1, <1>6, <1>9 DEF Known
<1>11. CASE unknown = {}
  <2>1. linked = Range(deps) /\ \A d \in linked : d \in TaskIds /\ Known(g, d)
    BY <1>3, <1>4, <1>11 DEF Range
  <2>2. PICK open : open = {d \in linked : g.task[d].status \notin Finished}
    OBVIOUS
  <2>3. PICK n \in Nat : n = Cardinality(open)
    <3>1. IsFiniteSet(open)
      BY <2>1, <2>2, DepsFinite, FS_Subset
    <3> QED
      BY <3>1, FS_CardinalityType
  <2>4. PICK h : h = WithNew(e, t, new, n)
    OBVIOUS
  <2>5. AddTask(g, t, new) = h
    BY <1>2, <1>3, <1>4, <1>5, <1>11, <2>2, <2>3, <2>4 DEF AddTask, WithEdges, WithNew
  <2>6. /\ h \in Graphs /\ h.task[t] = new /\ h.remaining[t] = n
        /\ h.forward = e.forward /\ h.boundTask = g.boundTask
        /\ \A u \in TaskIds : u # t => h.task[u] = g.task[u] /\ h.remaining[u] = g.remaining[u]
    <3>1. PICK tasks : tasks = [e.task EXCEPT ![t] = new]
      OBVIOUS
    <3>2. PICK counts : counts = [e.remaining EXCEPT ![t] = n]
      OBVIOUS
    <3>3. tasks \in [TaskIds -> TaskRecord \cup {NoTask}] /\ counts \in [TaskIds -> Nat]
          /\ tasks[t] = new /\ counts[t] = n
          /\ \A u \in TaskIds : u # t => tasks[u] = g.task[u] /\ counts[u] = g.remaining[u]
      BY <1>2, <1>6, <3>1, <3>2, GraphFields
    <3>4. h = [e EXCEPT !.task = tasks, !.remaining = counts]
      BY <2>4, <3>1, <3>2 DEF WithNew
    <3>5. h \in Graphs
      BY <1>6, <3>3, <3>4 DEF Graphs
    <3>6. h.task = tasks /\ h.remaining = counts /\ h.forward = e.forward /\ h.boundTask = e.boundTask
      BY <1>6, <3>4 DEF Graphs
    <3> QED
      BY <1>6, <3>3, <3>5, <3>6
  <2>7. \A u \in TaskIds : Known(h, u) <=> Known(g, u) \/ u = t
    BY <2>6, <1>2, SchedulingAssumption DEF Known
  <2>8. IsFiniteSet({u \in TaskIds : Known(h, u)})
    <3>1. {u \in TaskIds : Known(h, u)} = {u \in TaskIds : Known(g, u)} \cup {t}
      BY <2>7
    <3> QED
      BY <3>1, FS_AddElement DEF GraphOk
  <2>9. \A d, u \in TaskIds : EdgesTo(h, d, u) = EdgesTo(e, d, u)
    BY <2>6 DEF EdgesTo
  <2>10. Deps(h, t) = linked /\ \A u \in TaskIds : u # t => Deps(h, u) = Deps(g, u)
    BY <2>1, <2>6, <1>2 DEF Deps
  <2>11. DepsOk(h)
    <3> SUFFICES ASSUME NEW u \in TaskIds, Known(h, u), NEW d \in Deps(h, u)
                 PROVE  d \in TaskIds /\ Known(h, d) /\ EdgesTo(h, d, u) # {}
      BY DEF DepsOk
    <3>1. CASE u = t
      BY <3>1, <2>1, <2>7, <2>9, <2>10, <1>6
    <3>2. CASE u # t
      <4>1. d \in TaskIds /\ Known(g, d) /\ EdgesTo(g, d, u) # {}
        BY <3>2, <2>7, <2>10 DEF GraphOk, DepsOk
      <4> QED
        BY <4>1, <3>2, <2>7, <2>9, <1>6
    <3> QED
      BY <3>1, <3>2
  <2>12. ReadyOk(h)
    <3> SUFFICES ASSUME NEW u \in TaskIds, Waits(h, u), Clean(h, u)
                 PROVE  h.remaining[u] = Cardinality(Open(h, u))
      BY DEF ReadyOk
    <3>1. CASE u = t
      <4>1. Open(h, t) = open
        <5>1. \A d \in linked : d # t /\ h.task[d] = g.task[d]
          BY <2>1, <2>6
        <5> QED
          BY <5>1, <2>2, <2>10 DEF Open
      <4> QED
        BY <3>1, <4>1, <2>3, <2>6
    <3>2. CASE u # t
      <4>1. Waits(g, u) /\ Clean(g, u)
        BY <3>2, <2>6, <2>7, <2>9, <2>10, <1>6 DEF Waits, Clean
      <4>2. \A d \in Deps(g, u) : d \in TaskIds /\ d # t
        BY <4>1 DEF Waits, GraphOk, DepsOk
      <4>3. Open(h, u) = Open(g, u)
        BY <4>2, <3>2, <2>6, <2>10 DEF Open
      <4> QED
        BY <4>1, <4>3, <3>2, <2>6 DEF GraphOk, ReadyOk
    <3> QED
      BY <3>1, <3>2
  <2>13. BindOk(h)
    <3>1. \A w \in Nodes : h.boundTask[w] # NoTask => Known(h, h.boundTask[w]) /\ h.boundTask[w] # t
      <4> SUFFICES ASSUME NEW w \in Nodes, h.boundTask[w] # NoTask
                   PROVE  Known(h, h.boundTask[w]) /\ h.boundTask[w] # t
        OBVIOUS
      <4>1. g.boundTask[w] \in TaskIds /\ Known(g, g.boundTask[w])
        BY <2>6, GraphFields DEF GraphOk, BindOk
      <4> QED
        BY <4>1, <2>6, <2>7
    <3>2. t # NoTask
      BY SchedulingAssumption
    <3>3. ASSUME NEW u \in TaskIds, NEW w \in Nodes, Known(h, u)
          PROVE  /\ h.task[u].ws = w <=> h.boundTask[w] = u
                 /\ h.task[u].ws = w => h.task[u].history[Len(h.task[u].history)] = w
      <4>1. CASE u = t
        BY <4>1, <3>1, <3>2, <2>6, <1>2, TopologyAssumption
      <4>2. CASE u # t
        <5>1. Known(g, u) /\ h.task[u] = g.task[u] /\ h.boundTask = g.boundTask
          BY <4>2, <3>3, <2>6, <2>7
        <5> QED
          BY <5>1 DEF GraphOk, BindOk
      <4> QED
        BY <4>1, <4>2
    <3> QED
      BY <3>1, <3>3 DEF BindOk
  <2>14. GraphOk(h)
    BY <2>6, <2>8, <2>11, <2>12, <2>13 DEF GraphOk
  <2>15. /\ \A u \in TaskIds : Known(g, u) => h.task[u] = g.task[u]
         /\ \A u \in TaskIds : Known(h, u) => Known(g, u) \/ (u = t /\ h.task[u].ws = NoNode)
    BY <2>6, <2>7, <1>2
  <2> QED
    BY <2>5, <2>14, <2>15, <1>1
<1> QED
  BY <1>10, <1>11

\* mark_completed, on a task that becomes integrated: whoever waits for it has
\* one edge from it, and loses one of the dependencies it waits for.
LEMMA IntegrateKeeps ==
  ASSUME NEW g, GraphOk(g), NEW t \in TaskIds, Known(g, t),
         TaskLegal(g.task[t].status, "Integrate")
  PROVE  LET h == MarkCompleted(Transition(g, t, "Integrate"), t)
         IN  /\ GraphOk(h) /\ SameGraph(h, g) /\ SameBinding(h, g)
             /\ \A u \in TaskIds : Known(g, u) => h.task[u].status = g.task[u].status \/ u = t
             /\ h.task[t].status = "Integrated"
<1>1. PICK m : m = Transition(g, t, "Integrate")
  OBVIOUS
<1>2. /\ m \in Graphs /\ SameGraph(m, g) /\ SameBinding(m, g) /\ m.remaining = g.remaining
      /\ m.task[t].status = TaskNext(g.task[t].status, "Integrate")
      /\ \A u \in TaskIds : u # t => m.task[u] = g.task[u]
  BY <1>1, TransitionLeaves DEF GraphOk
<1>3. m.task[t].status = "Integrated" /\ g.task[t].status \notin Finished
  BY <1>2, TaskMoves
<1>4. PICK counts : counts = [u \in TaskIds |->
         IF Cardinality(EdgesTo(m, t, u)) >= m.remaining[u] THEN 0
         ELSE m.remaining[u] - Cardinality(EdgesTo(m, t, u))]
  OBVIOUS
<1>5. ASSUME NEW u \in TaskIds
      PROVE  /\ counts[u] \in Nat
             /\ \A n \in Nat : m.remaining[u] = n /\ Cardinality(EdgesTo(m, t, u)) = 0 => counts[u] = n
             /\ \A n \in Nat : m.remaining[u] = n + 1 /\ Cardinality(EdgesTo(m, t, u)) = 1 => counts[u] = n
  <2>1. PICK k \in Nat : k = Cardinality(EdgesTo(m, t, u))
    BY <1>2, EdgesFinite
  <2>2. PICK r \in Nat : r = m.remaining[u]
    BY <1>2, GraphFields
  <2>3. counts[u] = IF k >= r THEN 0 ELSE r - k
    BY <1>4, <2>1, <2>2
  <2> QED
    BY <2>1, <2>2, <2>3
<1>6. counts \in [TaskIds -> Nat]
  BY <1>4, <1>5
<1>7. PICK h : h = [m EXCEPT !.remaining = counts]
  OBVIOUS
<1>8. h = MarkCompleted(m, t)
  BY <1>4, <1>7 DEF MarkCompleted, EdgesTo
<1>9. h \in Graphs
  BY <1>2, <1>6, <1>7 DEF Graphs
<1>10. h.remaining = counts /\ h.task = m.task /\ h.forward = m.forward /\ h.boundTask = m.boundTask
  BY <1>2, <1>7 DEF Graphs
<1>11. SameGraph(h, g) /\ SameBinding(h, g)
  BY <1>2, <1>10 DEF SameGraph, SameBinding, Known, EdgesTo
<1>12. /\ IsFiniteSet({u \in TaskIds : Known(h, u)}) /\ DepsOk(h) /\ BindOk(h)
       /\ \A u \in TaskIds : Known(g, u) => Deps(h, u) = Deps(g, u) /\ (Clean(h, u) <=> Clean(g, u))
  BY <1>9, <1>11, GraphKept
<1>13. ReadyOk(h)
  <2> SUFFICES ASSUME NEW u \in TaskIds, Waits(h, u), Clean(h, u)
               PROVE  h.remaining[u] = Cardinality(Open(h, u))
    BY DEF ReadyOk
  <2>1. u # t /\ Known(g, u) /\ h.task[u] = g.task[u]
    BY <1>2, <1>3, <1>10, <1>11 DEF Waits, SameGraph
  <2>2. Waits(g, u) /\ Clean(g, u) /\ Deps(h, u) = Deps(g, u)
    BY <2>1, <1>12 DEF Waits
  <2>3. g.remaining[u] = Cardinality(Open(g, u))
    BY <2>2 DEF GraphOk, ReadyOk
  <2>4. \A d \in Deps(g, u) : d \in TaskIds
    BY <2>1 DEF GraphOk, DepsOk
  <2>5. Open(h, u) = Open(g, u) \ {t}
    <3>1. \A d \in TaskIds : d # t => h.task[d] = g.task[d]
      BY <1>2, <1>10
    <3>2. h.task[t].status \in Finished
      BY <1>3, <1>10 DEF Finished
    <3> QED
      BY <2>2, <2>4, <3>1, <3>2 DEF Open
  <2>6. IsFiniteSet(Open(g, u))
    <3>1. g.task[u].deps \in Seq(TaskIds)
      BY <2>1, KnownTask, TaskFields DEF GraphOk
    <3> QED
      BY <3>1, DepsFinite, FS_Subset DEF Open, Deps
  <2>7. EdgesTo(m, t, u) = EdgesTo(g, t, u)
    BY <2>1, <1>2 DEF SameGraph
  <2>8. CASE t \in Deps(g, u)
    <3>1. t \in Open(g, u)
      BY <2>8, <1>3 DEF Open
    <3>2. PICK n \in Nat : n = Cardinality(Open(h, u))
      BY <2>5, <2>6, FS_Subset, FS_CardinalityType
    <3>3. Cardinality(Open(g, u)) = n + 1
      <4>1. PICK k \in Nat : k = Cardinality(Open(g, u))
        BY <2>6, FS_CardinalityType
      <4>2. n = k - 1
        BY <2>5, <2>6, <3>1, <3>2, <4>1, FS_RemoveElement
      <4> QED
        BY <4>1, <4>2
    <3>4. Cardinality(EdgesTo(m, t, u)) = 1
      BY <2>2, <2>7, <2>8 DEF Clean
    <3>5. counts[u] = n
      BY <3>3, <3>4, <2>3, <1>2, <1>5
    <3> QED
      BY <3>2, <3>5, <1>10
  <2>9. CASE t \notin Deps(g, u)
    <3>1. Open(h, u) = Open(g, u)
      BY <2>5, <2>9 DEF Open
    <3>2. PICK n \in Nat : n = Cardinality(Open(g, u))
      BY <2>6, FS_CardinalityType
    <3>3. Cardinality(EdgesTo(m, t, u)) = 0
      BY <2>2, <2>7, <2>9 DEF Clean
    <3>4. counts[u] = n
      BY <3>2, <3>3, <2>3, <1>2, <1>5
    <3> QED
      BY <3>1, <3>2, <3>4, <1>10
  <2> QED
    BY <2>8, <2>9
<1>14. GraphOk(h)
  BY <1>9, <1>12, <1>13 DEF GraphOk
<1>15. /\ \A u \in TaskIds : Known(g, u) => h.task[u].status = g.task[u].status \/ u = t
       /\ h.task[t].status = "Integrated"
  BY <1>2, <1>3, <1>10
<1> QED
  BY <1>1, <1>8, <1>11, <1>14, <1>15

(* ------------------------------ cancellation ---------------------------- *)
\* What is cancelled with t: t, of the others only tasks that wait, and with
\* each task whoever waits for it.
LEMMA CancelSetIs ==
  ASSUME NEW g \in Graphs, NEW t \in TaskIds
  PROVE  /\ t \in CancelSet(g, t) /\ CancelSet(g, t) \subseteq TaskIds
         /\ \A u \in CancelSet(g, t) : u = t \/ Waits(g, u)
         /\ \A d \in CancelSet(g, t), u \in TaskIds :
               Waits(g, u) /\ EdgesTo(g, d, u) # {} => u \in CancelSet(g, t)
<1>1. PICK W : W = {u \in TaskIds : Known(g, u) /\ g.task[u].status \in {"Draft", "Pending"}}
  OBVIOUS
<1>2. \A u \in TaskIds : u \in W <=> Waits(g, u)
  BY <1>1 DEF Waits
<1>3. PICK C : C = {u \in TaskIds : \A S \in SUBSET TaskIds :
                     t \in S /\ (\A d \in S : Range(g.forward[d]) \cap W \subseteq S) => u \in S}
  OBVIOUS
<1>4. CancelSet(g, t) = C
  BY <1>1, <1>3 DEF CancelSet
<1>5. t \in C /\ C \subseteq TaskIds
  BY <1>3
<1>6. C \subseteq {t} \cup W
  <2>1. {t} \cup W \in SUBSET TaskIds /\ t \in {t} \cup W
        /\ \A d \in {t} \cup W : Range(g.forward[d]) \cap W \subseteq {t} \cup W
    BY <1>1
  <2> QED
    BY <2>1, <1>3
<1>7. ASSUME NEW d \in C, NEW u \in W, u \in Range(g.forward[d]) PROVE u \in C
  <2>1. u \in TaskIds
    BY <1>1
  <2> SUFFICES ASSUME NEW S \in SUBSET TaskIds, t \in S,
                      \A x \in S : Range(g.forward[x]) \cap W \subseteq S
               PROVE  u \in S
    BY <2>1, <1>3
  <2>2. d \in S
    BY <1>3
  <2> QED
    BY <2>2, <1>7
<1>8. \A d, u \in TaskIds : EdgesTo(g, d, u) # {} => u \in Range(g.forward[d])
  BY DEF EdgesTo, Range
<1> QED
  BY <1>2, <1>4, <1>5, <1>6, <1>7, <1>8

\* cancel_task: nobody who still waits loses a dependency, since whoever
\* waited for a cancelled task is cancelled with it.
LEMMA CancelKeeps ==
  ASSUME NEW g, GraphOk(g), NEW t \in TaskIds, Known(g, t), TaskLegal(g.task[t].status, "Cancel")
  PROVE  LET h == Cancel(g, t)
         IN  /\ GraphOk(h) /\ SameGraph(h, g) /\ SameBinding(h, g)
             /\ \A u \in TaskIds : u \notin CancelSet(g, t) => h.task[u] = g.task[u]
             /\ \A u \in CancelSet(g, t) : h.task[u].status = "Cancelled"
<1>1. PICK all : all = CancelSet(g, t)
  OBVIOUS
<1>2. /\ g \in Graphs /\ t \in all /\ all \subseteq TaskIds
      /\ \A u \in all : u = t \/ Waits(g, u)
      /\ \A d \in all, u \in TaskIds : Waits(g, u) /\ EdgesTo(g, d, u) # {} => u \in all
  BY <1>1, CancelSetIs DEF GraphOk
<1>3. \A u \in all : Known(g, u)
  BY <1>2 DEF Waits
<1>4. PICK tasks : tasks = [u \in TaskIds |->
         IF u \in all THEN [g.task[u] EXCEPT !.status = "Cancelled"] ELSE g.task[u]]
  OBVIOUS
<1>5. ASSUME NEW u \in all
      PROVE  /\ tasks[u] \in TaskRecord /\ tasks[u].status = "Cancelled"
             /\ tasks[u].deps = g.task[u].deps /\ tasks[u].ws = g.task[u].ws
             /\ tasks[u].history = g.task[u].history
  <2>1. PICK r \in TaskRecord : r = g.task[u]
    BY <1>2, <1>3, KnownTask
  <2>2. tasks[u] = [r EXCEPT !.status = "Cancelled"] /\ "Cancelled" \in TaskStates
    BY <2>1, <1>2, <1>4 DEF TaskStates
  <2> QED
    BY <2>1, <2>2 DEF TaskRecord
<1>6. \A u \in TaskIds : u \notin all => tasks[u] = g.task[u]
  BY <1>4
<1>7. tasks \in [TaskIds -> TaskRecord \cup {NoTask}]
  <2>1. \A u \in TaskIds : g.task[u] \in TaskRecord \cup {NoTask}
    BY <1>2, GraphFields
  <2>2. \A u \in TaskIds : tasks[u] \in TaskRecord \cup {NoTask}
    BY <2>1, <1>5, <1>6
  <2>3. DOMAIN tasks = TaskIds /\ tasks = [u \in TaskIds |-> tasks[u]]
    BY <1>4
  <2> QED
    BY <2>2, <2>3
<1>8. PICK h : h = [g EXCEPT !.task = tasks]
  OBVIOUS
<1>9. Cancel(g, t) = h
  BY <1>1, <1>4, <1>8 DEF Cancel
<1>10. h \in Graphs
  BY <1>2, <1>7, <1>8 DEF Graphs
<1>11. h.task = tasks /\ h.remaining = g.remaining /\ h.forward = g.forward /\ h.boundTask = g.boundTask
  BY <1>2, <1>8 DEF Graphs
<1>12. \A u \in TaskIds : Known(h, u) <=> Known(g, u)
  BY <1>2, <1>3, <1>5, <1>6, <1>10, <1>11, KnownTask DEF Known
<1>13. SameGraph(h, g) /\ SameBinding(h, g)
  BY <1>5, <1>6, <1>11, <1>12 DEF SameGraph, SameBinding, EdgesTo
<1>14. /\ IsFiniteSet({u \in TaskIds : Known(h, u)}) /\ DepsOk(h) /\ BindOk(h)
       /\ \A u \in TaskIds : Known(g, u) => Deps(h, u) = Deps(g, u) /\ (Clean(h, u) <=> Clean(g, u))
  BY <1>10, <1>13, GraphKept
<1>15. ReadyOk(h)
  <2> SUFFICES ASSUME NEW u \in TaskIds, Waits(h, u), Clean(h, u)
               PROVE  h.remaining[u] = Cardinality(Open(h, u))
    BY DEF ReadyOk
  <2>1. u \notin all /\ Known(g, u)
    BY <1>5, <1>11, <1>12 DEF Waits
  <2>2. Waits(g, u) /\ Clean(g, u) /\ Deps(h, u) = Deps(g, u)
    BY <2>1, <1>6, <1>11, <1>14 DEF Waits
  <2>3. \A d \in Deps(g, u) : d \in TaskIds /\ d \notin all
    BY <2>1, <2>2, <1>2 DEF GraphOk, DepsOk
  <2>4. Open(h, u) = Open(g, u)
    BY <2>2, <2>3, <1>6, <1>11 DEF Open
  <2> QED
    BY <2>2, <2>4, <1>11 DEF GraphOk, ReadyOk
<1>16. GraphOk(h)
  BY <1>10, <1>14, <1>15 DEF GraphOk
<1> QED
  BY <1>1, <1>5, <1>6, <1>9, <1>11, <1>13, <1>16

(* ------------------------------- bindings ------------------------------- *)
WithBinding(g, t, r, w, b) ==
  [g EXCEPT !.task = [g.task EXCEPT ![t] = r], !.boundTask = [g.boundTask EXCEPT ![w] = b]]

\* The graph with another binding of t, which leaves what t is and waits for.
LEMMA BindingReplaced ==
  ASSUME NEW g, GraphOk(g), NEW t \in TaskIds, Known(g, t), NEW r \in TaskRecord,
         r.deps = g.task[t].deps, r.status = g.task[t].status,
         NEW w \in Nodes, NEW b \in TaskIds \cup {NoTask}
  PROVE  LET h == WithBinding(g, t, r, w, b)
         IN  /\ h \in Graphs /\ SameGraph(h, g) /\ SameReadiness(h, g)
             /\ h.task[t] = r /\ h.boundTask[w] = b
             /\ \A u \in TaskIds : u # t => h.task[u] = g.task[u]
             /\ \A x \in Nodes : x # w => h.boundTask[x] = g.boundTask[x]
<1>1. PICK tasks : tasks = [g.task EXCEPT ![t] = r]
  OBVIOUS
<1>2. PICK bound : bound = [g.boundTask EXCEPT ![w] = b]
  OBVIOUS
<1>3. g \in Graphs
  BY DEF GraphOk
<1>4. tasks \in [TaskIds -> TaskRecord \cup {NoTask}] /\ tasks[t] = r
      /\ \A u \in TaskIds : u # t => tasks[u] = g.task[u]
  BY <1>1, <1>3, GraphFields
<1>5. bound \in [Nodes -> TaskIds \cup {NoTask}] /\ bound[w] = b
      /\ \A x \in Nodes : x # w => bound[x] = g.boundTask[x]
  BY <1>2, <1>3, GraphFields
<1>6. PICK h : h = [g EXCEPT !.task = tasks, !.boundTask = bound]
  OBVIOUS
<1>7. h \in Graphs
  BY <1>3, <1>4, <1>5, <1>6 DEF Graphs
<1>8. h.task = tasks /\ h.boundTask = bound /\ h.forward = g.forward /\ h.remaining = g.remaining
  BY <1>3, <1>6 DEF Graphs
<1>9. \A u \in TaskIds : Known(h, u) <=> Known(g, u)
  BY <1>3, <1>4, <1>7, <1>8, KnownTask DEF Known
<1>10. SameGraph(h, g) /\ SameReadiness(h, g)
  BY <1>4, <1>8, <1>9 DEF SameGraph, SameReadiness, EdgesTo
<1>11. WithBinding(g, t, r, w, b) = h
  BY <1>1, <1>2, <1>6 DEF WithBinding
<1> QED
  BY <1>4, <1>5, <1>7, <1>8, <1>10, <1>11

\* What a step on the bindings does to every task.
SameStatuses(h, g) ==
  /\ SameGraph(h, g)
  /\ \A t \in TaskIds : Known(g, t) => h.task[t].status = g.task[t].status

\* bind, on an unbound task and an unbound workspace.
LEMMA BindKeeps ==
  ASSUME NEW g, GraphOk(g), NEW t \in TaskIds, Known(g, t), NEW w \in Nodes, CanBind(g, t, w)
  PROVE  LET h == Bind(g, t, w)
         IN  /\ GraphOk(h) /\ SameStatuses(h, g)
             /\ h.task[t].ws = w /\ h.task[t].parent = g.task[t].parent
             /\ \A u \in TaskIds : u # t => h.task[u] = g.task[u]
<1>1. PICK old \in TaskRecord : old = g.task[t]
  BY KnownTask DEF GraphOk
<1>2. old.ws = NoNode /\ g.boundTask[w] = NoTask /\ old.history \in Seq(Nodes)
  BY <1>1, TaskFields DEF CanBind
<1>3. PICK history \in Seq(Nodes) : history = Append(old.history, w) /\ history[Len(history)] = w
  <2>1. PICK before \in Seq(Nodes) : before = old.history
    BY <1>2
  <2>2. Append(before, w) \in Seq(Nodes) /\ Append(before, w)[Len(Append(before, w))] = w
    OBVIOUS
  <2> QED
    BY <2>1, <2>2
<1>4. history[Len(history)] = w
  BY <1>3
<1>5. PICK r : r = [old EXCEPT !.ws = w, !.history = history]
  OBVIOUS
<1>6. r \in TaskRecord
  BY <1>5 DEF TaskRecord
<1>7. r.ws = w /\ r.history = history /\ r.deps = old.deps /\ r.status = old.status /\ r.parent = old.parent
  BY <1>5 DEF TaskRecord
<1>8. PICK h : h = WithBinding(g, t, r, w, t)
  OBVIOUS
<1>9. Bind(g, t, w) = h
  BY <1>1, <1>3, <1>5, <1>8 DEF Bind, WithBinding
<1>10. /\ h \in Graphs /\ SameGraph(h, g) /\ SameReadiness(h, g)
       /\ h.task[t] = r /\ h.boundTask[w] = t
       /\ \A u \in TaskIds : u # t => h.task[u] = g.task[u]
       /\ \A x \in Nodes : x # w => h.boundTask[x] = g.boundTask[x]
  BY <1>1, <1>6, <1>7, <1>8, BindingReplaced
<1>11. t # NoTask /\ NoNode \notin Nodes
  BY SchedulingAssumption, TopologyAssumption
<1>12. BindOk(h)
  <2>1. ASSUME NEW x \in Nodes, h.boundTask[x] # NoTask PROVE Known(h, h.boundTask[x])
    <3>1. CASE x = w
      BY <3>1, <1>10 DEF SameGraph
    <3>2. CASE x # w
      <4>1. h.boundTask[x] = g.boundTask[x] /\ g.boundTask[x] \in TaskIds
        BY <3>2, <2>1, <1>10, GraphFields DEF GraphOk
      <4> QED
        BY <4>1, <2>1, <1>10 DEF SameGraph, GraphOk, BindOk
    <3> QED
      BY <3>1, <3>2
  <2>2. ASSUME NEW u \in TaskIds, NEW x \in Nodes, Known(h, u)
        PROVE  /\ h.task[u].ws = x <=> h.boundTask[x] = u
               /\ h.task[u].ws = x => h.task[u].history[Len(h.task[u].history)] = x
    <3>1. Known(g, u)
      BY <2>2, <1>10 DEF SameGraph
    <3>2. /\ g.task[u].ws = x <=> g.boundTask[x] = u
          /\ g.task[u].ws = x => g.task[u].history[Len(g.task[u].history)] = x
          /\ g.task[u].ws = w <=> g.boundTask[w] = u
      BY <3>1 DEF GraphOk, BindOk
    <3>3. u # NoTask
      BY SchedulingAssumption
    <3>4. CASE u = t
      <4>1. CASE x = w
        BY <3>4, <4>1, <1>4, <1>7, <1>10
      <4>2. CASE x # w
        BY <3>2, <3>4, <4>2, <1>1, <1>2, <1>7, <1>10, <1>11
      <4> QED
        BY <4>1, <4>2
    <3>5. CASE u # t
      <4>1. CASE x = w
        BY <3>2, <3>3, <3>5, <4>1, <1>2, <1>10
      <4>2. CASE x # w
        BY <3>2, <3>5, <4>2, <1>10
      <4> QED
        BY <4>1, <4>2
    <3> QED
      BY <3>4, <3>5
  <2> QED
    BY <2>1, <2>2 DEF BindOk
<1>13. GraphOk(h)
  BY <1>10, <1>12, GraphStays
<1>14. SameStatuses(h, g)
  BY <1>1, <1>7, <1>10 DEF SameStatuses
<1> QED
  BY <1>1, <1>7, <1>9, <1>10, <1>13, <1>14

\* unbind takes both directions of a binding away.
LEMMA UnbindKeeps ==
  ASSUME NEW g, GraphOk(g), NEW t \in TaskIds, Known(g, t)
  PROVE  LET h == Unbind(g, t)
         IN  /\ GraphOk(h) /\ SameStatuses(h, g)
             /\ \A u \in TaskIds : u # t => h.task[u] = g.task[u]
             /\ h.task[t].ws = NoNode
<1>1. PICK old \in TaskRecord : old = g.task[t]
  BY KnownTask DEF GraphOk
<1>2. PICK w \in Nodes \cup {NoNode} : w = old.ws
  BY TaskFields
<1>3. CASE w = NoNode
  <2>1. Unbind(g, t) = g
    BY <1>1, <1>2, <1>3 DEF Unbind
  <2> QED
    BY <2>1, <1>1, <1>2, <1>3 DEF SameStatuses, SameGraph
<1>4. CASE w # NoNode
  <2>1. w \in Nodes
    BY <1>4
  <2>2. PICK r : r = [old EXCEPT !.ws = NoNode]
    OBVIOUS
  <2>3. r \in TaskRecord
    BY <2>2 DEF TaskRecord
  <2>4. r.ws = NoNode /\ r.deps = old.deps /\ r.status = old.status
    BY <2>2 DEF TaskRecord
  <2>5. PICK h : h = WithBinding(g, t, r, w, NoTask)
    OBVIOUS
  <2>6. Unbind(g, t) = h
    BY <1>1, <1>2, <1>4, <2>2, <2>5 DEF Unbind, WithBinding
  <2>7. /\ h \in Graphs /\ SameGraph(h, g) /\ SameReadiness(h, g)
        /\ h.task[t] = r /\ h.boundTask[w] = NoTask
        /\ \A u \in TaskIds : u # t => h.task[u] = g.task[u]
        /\ \A x \in Nodes : x # w => h.boundTask[x] = g.boundTask[x]
    BY <1>1, <2>1, <2>3, <2>4, <2>5, BindingReplaced
  <2>8. BindOk(h)
    <3>1. ASSUME NEW x \in Nodes, h.boundTask[x] # NoTask PROVE Known(h, h.boundTask[x])
      <4>1. h.boundTask[x] = g.boundTask[x] /\ g.boundTask[x] \in TaskIds
        BY <3>1, <2>7, GraphFields DEF GraphOk
      <4> QED
        BY <4>1, <3>1, <2>7 DEF SameGraph, GraphOk, BindOk
    <3>2. ASSUME NEW u \in TaskIds, NEW x \in Nodes, Known(h, u)
          PROVE  /\ h.task[u].ws = x <=> h.boundTask[x] = u
                 /\ h.task[u].ws = x => h.task[u].history[Len(h.task[u].history)] = x
      <4>1. Known(g, u) /\ u # NoTask /\ x # NoNode
        BY <3>2, <2>7, SchedulingAssumption, TopologyAssumption DEF SameGraph
      <4>2. /\ g.task[u].ws = x <=> g.boundTask[x] = u
            /\ g.task[u].ws = x => g.task[u].history[Len(g.task[u].history)] = x
            /\ g.task[t].ws = w <=> g.boundTask[w] = t
            /\ g.task[t].ws = x <=> g.boundTask[x] = t
        BY <4>1, <2>1 DEF GraphOk, BindOk
      <4>3. CASE u = t
        <5>1. CASE x = w
          BY <4>1, <4>3, <5>1, <2>4, <2>7
        <5>2. CASE x # w
          BY <4>1, <4>2, <4>3, <5>2, <1>1, <1>2, <2>4, <2>7
        <5> QED
          BY <5>1, <5>2
      <4>4. CASE u # t
        <5>1. CASE x = w
          BY <4>1, <4>2, <4>4, <5>1, <1>1, <1>2, <2>7
        <5>2. CASE x # w
          BY <4>2, <4>4, <5>2, <2>7
        <5> QED
          BY <5>1, <5>2
      <4> QED
        BY <4>3, <4>4
    <3> QED
      BY <3>1, <3>2 DEF BindOk
  <2>9. GraphOk(h)
    BY <2>7, <2>8, GraphStays
  <2>10. SameStatuses(h, g)
    BY <1>1, <2>4, <2>7 DEF SameStatuses
  <2> QED
    BY <2>4, <2>6, <2>7, <2>9, <2>10
<1> QED
  BY <1>3, <1>4

(* ----------------------------- the dispatcher --------------------------- *)
\* What holds of the workspaces: the dispatcher numbered them, a bound one
\* exists, the root never ends, and no more are running than allowed.
SpacesOk(tp, g, next) ==
  /\ next \in Nat /\ next >= 1
  /\ Live(tp) \subseteq {Root} \cup 1..(next - 1)
  /\ \A t \in TaskIds : Known(g, t) /\ g.task[t].ws # NoNode => g.task[t].ws \in Live(tp)
  /\ tp.node[Root].status \notin TerminalStates /\ tp.node[Root].task = NoNode
  /\ IsFiniteSet(ActiveWorkspaces(tp))
  /\ Cardinality(ActiveWorkspaces(tp)) <= MaxConcurrent + 1

LoopOk(acc) == TopoOk(acc.tp) /\ GraphOk(acc.g) /\ SpacesOk(acc.tp, acc.g, acc.next)

\* Statuses that stay the same over two steps.
LEMMA StatusesTwice ==
  ASSUME NEW f, NEW g, NEW h, SameStatuses(g, f), SameStatuses(h, g)
  PROVE  SameStatuses(h, f)
BY DEF SameStatuses, SameGraph

\* The workspace of the parent task exists, and so does the root.
LEMMA ParentExists ==
  ASSUME NEW tp, NEW g, NEW next, TopoOk(tp), GraphOk(g), SpacesOk(tp, g, next),
         NEW t \in TaskIds, Known(g, t)
  PROVE  SelectParent(g, t) \in Live(tp)
<1>1. Root \in Live(tp)
  BY TopologyAssumption DEF TopoOk, TreeOk, Live
<1>2. PICK p \in TaskIds \cup {NoTask} : p = g.task[t].parent
  BY KnownTask, TaskFields DEF GraphOk
<1>3. CASE p # NoTask /\ Known(g, p) /\ g.task[p].ws # NoNode
  BY <1>2, <1>3 DEF SelectParent, SpacesOk
<1>4. CASE ~(p # NoTask /\ Known(g, p) /\ g.task[p].ws # NoNode)
  BY <1>1, <1>2, <1>4 DEF SelectParent
<1> QED
  BY <1>3, <1>4

\* One round of try_dispatch.
LEMMA DispatchRound ==
  ASSUME NEW acc, LoopOk(acc), NEW t \in TaskIds, Known(acc.g, t)
  PROVE  LoopOk(DispatchOne(acc, t)) /\ SameStatuses(DispatchOne(acc, t).g, acc.g)
<1>1. PICK tp, g, w : tp = acc.tp /\ g = acc.g /\ w = acc.next
  OBVIOUS
<1>2. TopoOk(tp) /\ GraphOk(g) /\ SpacesOk(tp, g, w) /\ Known(g, t)
  BY <1>1 DEF LoopOk
<1>3. w \in Nat /\ w >= 1 /\ SameStatuses(g, g)
  BY <1>2 DEF SpacesOk, SameStatuses, SameGraph
<1>4. CASE ~HasCapacity(tp) \/ w > MaxDispatched
  <2>1. DispatchOne(acc, t) = acc
    BY <1>1, <1>4 DEF DispatchOne
  <2> QED
    BY <2>1, <1>1, <1>3
<1>5. CASE HasCapacity(tp) /\ ~(w > MaxDispatched)
  <2>1. w \in Nodes \ {Root} /\ ~Exists(tp, w)
    <3>1. w \in 1..MaxDispatched /\ w \notin 1..(w - 1)
      BY <1>3, <1>5, SchedulingAssumption
    <3> QED
      BY <3>1, <1>2, SchedulingAssumption DEF SpacesOk, Live
  <2>2. PICK p \in Live(tp) : p = SelectParent(g, t)
    BY <1>2, ParentExists
  <2>3. p \in Nodes /\ Exists(tp, p)
    BY DEF Live
  <2>4. PICK owner \in Users : owner = tp.node[Root].owner
    <3>1. Root \in Nodes /\ Exists(tp, Root) /\ tp \in Topologies
      BY <1>2, TopologyAssumption DEF TopoOk, TreeOk
    <3> QED
      BY <3>1, LiveNode, NodeFields
  <2>5. PICK q : q = CreateWorkspace(tp, w, p, owner, System, "Idle", t)
    OBVIOUS
  <2>6. "Idle" \in WorkspaceStates /\ "Idle" \notin TerminalStates
    BY DEF WorkspaceStates, TerminalStates
  <2>7. /\ TopoOk(q) /\ SameStatus(q, tp) /\ Live(q) = Live(tp) \cup {w} /\ SameNames(q, tp)
        /\ q.node[w].status = "Idle"
    <3>1. w \in Nodes /\ ~Exists(tp, w) /\ TopoOk(tp) /\ System \in Users \cup {System}
          /\ t \in TaskIds \cup {NoNode}
      BY <2>1, <1>2
    <3>2. LET r == CreateWorkspace(tp, w, p, owner, System, "Idle", t)
          IN  /\ TopoOk(r) /\ SameStatus(r, tp) /\ Live(r) = Live(tp) \cup {w}
              /\ SameNames(r, tp) /\ r.node[w].status = "Idle"
      BY <3>1, <2>3, <2>6, CreateKeeps
    <3> QED
      BY <3>2, <2>5
  <2>8. PICK h : h = IF CanBind(g, t, w) THEN Bind(g, t, w) ELSE g
    OBVIOUS
  <2>9. GraphOk(h) /\ SameStatuses(h, g)
        /\ \A u \in TaskIds : h.task[u].ws = g.task[u].ws \/ h.task[u].ws = w
    <3>1. CASE CanBind(g, t, w)
      BY <3>1, <2>1, <2>8, <1>2, BindKeeps
    <3>2. CASE ~CanBind(g, t, w)
      BY <3>2, <2>8, <1>2, <1>3
    <3> QED
      BY <3>1, <3>2
  <2>10. DispatchOne(acc, t) = [tp |-> q, g |-> h, next |-> w + 1]
    BY <1>1, <1>5, <2>2, <2>4, <2>5, <2>8 DEF DispatchOne
  <2>11. Root \in Live(tp) /\ Live(tp) \subseteq Nodes /\ w \notin Live(tp)
    BY <1>2, <2>1, TopologyAssumption DEF TopoOk, TreeOk, Live
  <2>12. ActiveWorkspaces(q) = ActiveWorkspaces(tp) \cup {w} /\ w \notin ActiveWorkspaces(tp)
    BY <2>6, <2>7, <2>11 DEF ActiveWorkspaces, SameStatus
  <2>13. IsFiniteSet(ActiveWorkspaces(q)) /\ Cardinality(ActiveWorkspaces(q)) <= MaxConcurrent + 1
    <3>1. IsFiniteSet(ActiveWorkspaces(tp))
      BY <1>2 DEF SpacesOk
    <3>2. PICK k \in Nat : k = Cardinality(ActiveWorkspaces(tp))
      BY <3>1, FS_CardinalityType
    <3>3. k - 1 < MaxConcurrent
      BY <3>2, <1>5 DEF HasCapacity
    <3>4. IsFiniteSet(ActiveWorkspaces(q)) /\ Cardinality(ActiveWorkspaces(q)) = k + 1
      BY <3>1, <3>2, <2>12, FS_AddElement
    <3> QED
      BY <3>3, <3>4, SchedulingAssumption
  <2>14. w + 1 \in Nat /\ w + 1 >= 1 /\ Live(q) \subseteq {Root} \cup 1..((w + 1) - 1)
    <3>1. Live(tp) \subseteq {Root} \cup 1..(w - 1)
      BY <1>2 DEF SpacesOk
    <3>2. 1..(w - 1) \subseteq 1..((w + 1) - 1) /\ w \in 1..((w + 1) - 1)
      BY <1>3
    <3> QED
      BY <3>1, <3>2, <2>7, <1>3
  <2>15. \A u \in TaskIds : Known(h, u) /\ h.task[u].ws # NoNode => h.task[u].ws \in Live(q)
    <3> SUFFICES ASSUME NEW u \in TaskIds, Known(h, u), h.task[u].ws # NoNode
                 PROVE  h.task[u].ws \in Live(q)
      OBVIOUS
    <3>1. Known(g, u)
      BY <2>9 DEF SameStatuses, SameGraph
    <3> QED
      BY <3>1, <2>7, <2>9, <1>2 DEF SpacesOk
  <2>16. q.node[Root].status \notin TerminalStates /\ q.node[Root].task = NoNode
    BY <2>7, <2>11, <1>2 DEF SpacesOk, SameStatus, SameNames
  <2>17. SpacesOk(q, h, w + 1)
    BY <2>13, <2>14, <2>15, <2>16 DEF SpacesOk
  <2> QED
    BY <2>7, <2>9, <2>10, <2>17, <1>1 DEF LoopOk
<1> QED
  BY <1>4, <1>5

\* try_dispatch's loop, run over the first n tasks of the order.
Dispatching(f, start, order, n) ==
  f = [i \in 0..n |-> IF i = 0 THEN start ELSE DispatchOne(f[i - 1], order[i])]

\* The loop has a state after every round.
LEMMA DispatchRuns ==
  ASSUME NEW start, NEW order, NEW n \in Nat
  PROVE  \E f : Dispatching(f, start, order, n)
<1>1. PICK T : T = {k \in Nat : \E f : Dispatching(f, start, order, k)}
  OBVIOUS
<1>2. 0 \in T
  <2>1. PICK f : f = [i \in 0..0 |-> start]
    OBVIOUS
  <2>2. Dispatching(f, start, order, 0)
    BY <2>1 DEF Dispatching
  <2> QED
    BY <2>2, <1>1
<1>3. ASSUME NEW k \in Nat, k \in T PROVE k + 1 \in T
  <2>1. PICK f : f = [i \in 0..k |-> IF i = 0 THEN start ELSE DispatchOne(f[i - 1], order[i])]
    BY <1>1, <1>3 DEF Dispatching
  <2>2. PICK newest : newest = DispatchOne(f[k], order[k + 1])
    OBVIOUS
  <2>3. PICK h : h = [i \in 0..(k + 1) |-> IF i <= k THEN f[i] ELSE newest]
    OBVIOUS
  <2>4. \A i \in 0..(k + 1) : h[i] = IF i = 0 THEN start ELSE DispatchOne(h[i - 1], order[i])
    <3> TAKE i \in 0..(k + 1)
    <3>1. CASE i = 0
      BY <3>1, <2>1, <2>3
    <3>2. CASE i > 0 /\ i <= k
      <4>1. i \in 0..k /\ i - 1 \in 0..k /\ i - 1 \in 0..(k + 1) /\ i - 1 <= k
        BY <3>2
      <4>2. h[i] = f[i] /\ h[i - 1] = f[i - 1]
        BY <4>1, <2>3, <3>2
      <4> QED
        BY <4>1, <4>2, <3>2, <2>1
    <3>3. CASE i = k + 1
      <4>1. k \in 0..(k + 1) /\ i - 1 = k /\ ~(i <= k) /\ i # 0
        BY <3>3
      <4>2. h[i] = newest /\ h[k] = f[k]
        BY <4>1, <2>3
      <4> QED
        BY <4>1, <4>2, <3>3, <2>2
    <3> QED
      BY <3>1, <3>2, <3>3
  <2>5. Dispatching(h, start, order, k + 1)
    BY <2>3, <2>4 DEF Dispatching
  <2> QED
    BY <2>5, <1>1
<1>4. \A k \in Nat : k \in T
  BY <1>2, <1>3, SetInduction
<1> QED
  BY <1>1, <1>4

\* The loop over tasks of the graph: what holds before it holds after it, and
\* it changes no task's status.
LEMMA DispatchLoop ==
  ASSUME NEW start, LoopOk(start), NEW order \in Seq(TaskIds),
         \A i \in 1..Len(order) : Known(start.g, order[i])
  PROVE  LET end == Dispatched(start, order)[Len(order)]
         IN  LoopOk(end) /\ SameStatuses(end.g, start.g)
<1>1. PICK n \in Nat : n = Len(order)
  OBVIOUS
<1>2. \E f : f = [i \in 0..Len(order) |->
                    IF i = 0 THEN start ELSE DispatchOne(f[i - 1], order[i])]
  <2>1. PICK f : Dispatching(f, start, order, n)
    BY DispatchRuns
  <2>2. f = [i \in 0..Len(order) |-> IF i = 0 THEN start ELSE DispatchOne(f[i - 1], order[i])]
    BY <2>1, <1>1 DEF Dispatching
  <2> QED
    BY <2>2
<1>3. PICK f : f = Dispatched(start, order)
  OBVIOUS
<1>4. f = [i \in 0..Len(order) |-> IF i = 0 THEN start ELSE DispatchOne(f[i - 1], order[i])]
  BY <1>2, <1>3 DEF Dispatched
<1>5. f[0] = start
  BY <1>1, <1>4
<1>6. ASSUME NEW i \in Nat, i < n PROVE f[i + 1] = DispatchOne(f[i], order[i + 1])
  <2>1. i + 1 \in 0..Len(order) /\ i + 1 # 0 /\ (i + 1) - 1 = i
    BY <1>1, <1>6
  <2> QED
    BY <2>1, <1>4
<1>7. PICK T : T = {k \in Nat : k <= n => LoopOk(f[k]) /\ SameStatuses(f[k].g, start.g)}
  OBVIOUS
<1>8. 0 \in T
  <2>1. SameStatuses(start.g, start.g)
    BY DEF SameStatuses, SameGraph
  <2> QED
    BY <2>1, <1>5, <1>7
<1>9. ASSUME NEW k \in Nat, k \in T PROVE k + 1 \in T
  <2>1. CASE k < n
    <3>1. LoopOk(f[k]) /\ SameStatuses(f[k].g, start.g)
      BY <2>1, <1>7, <1>9
    <3>2. k + 1 \in 1..Len(order)
      BY <2>1, <1>1
    <3>3. PICK t \in TaskIds : t = order[k + 1] /\ Known(start.g, t)
      BY <3>2
    <3>4. Known(f[k].g, t)
      BY <3>1, <3>3 DEF SameStatuses, SameGraph
    <3>5. LoopOk(f[k + 1]) /\ SameStatuses(f[k + 1].g, f[k].g)
      BY <2>1, <3>1, <3>3, <3>4, <1>6, DispatchRound
    <3>6. SameStatuses(f[k + 1].g, start.g)
      BY <3>1, <3>5, StatusesTwice
    <3> QED
      BY <3>5, <3>6, <1>7
  <2>2. CASE ~(k < n)
    BY <2>2, <1>7
  <2> QED
    BY <2>1, <2>2
<1>10. \A k \in Nat : k \in T
  BY <1>8, <1>9, SetInduction
<1>11. n \in T
  BY <1>10
<1> QED
  BY <1>1, <1>3, <1>7, <1>11

(* ---------------------------- the scheduler's steps ---------------------- *)
\* Whoever waits for a task that a step cancels waits no more.
CascadeStep(h, g) ==
  \A t, d \in TaskIds :
     /\ Known(g, t) /\ Known(g, d)
     /\ d \in Range(g.task[t].deps)
     /\ g.task[d].status # "Cancelled" /\ h.task[d].status = "Cancelled"
     => h.task[t].status \notin {"Draft", "Pending"}

\* What a step that only changes the graph has to keep.
GraphStep(tp, h, g, next) == GraphOk(h) /\ SpacesOk(tp, h, next) /\ CascadeStep(h, g)

\* A step that cancels nothing.
LEMMA NothingCancelled ==
  ASSUME NEW g, NEW h,
         \A d \in TaskIds : Known(g, d) /\ h.task[d].status = "Cancelled"
                            => g.task[d].status = "Cancelled"
  PROVE  CascadeStep(h, g)
BY DEF CascadeStep

\* The workspaces stay in order when bindings end or lead to one that exists.
LEMMA SpacesStay ==
  ASSUME NEW tp, NEW g, NEW h, NEW next, SpacesOk(tp, g, next),
         \A u \in TaskIds : Known(h, u) /\ h.task[u].ws # NoNode => h.task[u].ws \in Live(tp)
  PROVE  SpacesOk(tp, h, next)
BY DEF SpacesOk

\* They do when the bindings stay.
LEMMA SpacesSame ==
  ASSUME NEW tp, NEW g, NEW h, NEW next, SpacesOk(tp, g, next), SameGraph(h, g), SameBinding(h, g)
  PROVE  SpacesOk(tp, h, next)
<1>1. ASSUME NEW u \in TaskIds, Known(h, u), h.task[u].ws # NoNode PROVE h.task[u].ws \in Live(tp)
  BY <1>1 DEF SameGraph, SameBinding, SpacesOk
<1> QED
  BY <1>1, SpacesStay

\* What adding tasks leaves.
Added(h, g) ==
  /\ GraphOk(h)
  /\ \A u \in TaskIds : Known(g, u) => h.task[u] = g.task[u]
  /\ \A u \in TaskIds : Known(h, u) => Known(g, u) \/ h.task[u].ws = NoNode

\* Adding tasks is a step of the scheduler.
LEMMA AddedStep ==
  ASSUME NEW tp, NEW g, NEW h, NEW next, SpacesOk(tp, g, next), Added(h, g)
  PROVE  GraphStep(tp, h, g, next)
<1>1. ASSUME NEW u \in TaskIds, Known(h, u), h.task[u].ws # NoNode PROVE h.task[u].ws \in Live(tp)
  BY <1>1 DEF Added, SpacesOk
<1>2. CascadeStep(h, g)
  BY NothingCancelled DEF Added
<1> QED
  BY <1>1, <1>2, SpacesStay DEF Added, GraphStep

\* One of add_subtasks.
LEMMA AddOneKeeps ==
  ASSUME NEW g, NEW acc, Added(acc.g, g), NEW parent \in TaskIds, NEW sub,
         sub.id \in TaskIds, sub.deps \in Seq(TaskIds)
  PROVE  Added(AddOne(acc, parent, sub).g, g)
<1>1. PICK f, t, deps : f = acc.g /\ t = sub.id /\ deps = sub.deps
  OBVIOUS
<1>2. CASE ~acc.ok \/ Known(f, t)
  <2>1. AddOne(acc, parent, sub).g = f
    BY <1>1, <1>2 DEF AddOne
  <2> QED
    BY <2>1, <1>1
<1>3. CASE acc.ok /\ ~Known(f, t)
  <2>1. PICK h : h = AddTask(f, t, NewTask("Pending", deps, parent))
    OBVIOUS
  <2>2. AddOne(acc, parent, sub).g = h
    BY <1>1, <1>3, <2>1 DEF AddOne
  <2>3. t \in TaskIds /\ deps \in Seq(TaskIds) /\ parent \in TaskIds \cup {NoTask}
        /\ "Pending" \in {"Draft", "Pending"} /\ GraphOk(f)
    BY <1>1 DEF Added
  <2>4. /\ GraphOk(h)
        /\ \A u \in TaskIds : Known(f, u) => h.task[u] = f.task[u]
        /\ \A u \in TaskIds : Known(h, u) => Known(f, u) \/ h.task[u].ws = NoNode
    BY <2>1, <2>3, <1>3, AddKeeps
  <2>5. Added(f, g)
    BY <1>1
  <2>6. ASSUME NEW u \in TaskIds, Known(g, u) PROVE h.task[u] = g.task[u]
    BY <2>4, <2>5, <2>6 DEF Added, Known
  <2>7. ASSUME NEW u \in TaskIds, Known(h, u) PROVE Known(g, u) \/ h.task[u].ws = NoNode
    BY <2>4, <2>5, <2>7 DEF Added
  <2> QED
    BY <2>2, <2>4, <2>6, <2>7 DEF Added
<1> QED
  BY <1>2, <1>3

\* add_task and add_subtasks.
LEMMA AddSteps ==
  ASSUME NEW tp, NEW g, NEW next, GraphOk(g), SpacesOk(tp, g, next)
  PROVE  /\ \A t \in TaskIds, status \in {"Draft", "Pending"} : \A deps \in DepLists(t) :
              ~Known(g, t) => GraphStep(tp, AddTask(g, t, NewTask(status, deps, NoTask)), g, next)
         /\ \A parent, a, b \in TaskIds :
              GraphStep(tp, AddSubtasks(g, parent, [id |-> a, deps |-> << >>],
                                        [id |-> b, deps |-> <<a>>]), g, next)
<1>1. ASSUME NEW t \in TaskIds, NEW status \in {"Draft", "Pending"}, NEW deps \in DepLists(t),
             ~Known(g, t)
      PROVE  GraphStep(tp, AddTask(g, t, NewTask(status, deps, NoTask)), g, next)
  <2>1. deps \in Seq(TaskIds) /\ NoTask \in TaskIds \cup {NoTask}
    <3>1. \/ deps = << >>
          \/ \E x \in TaskIds : deps = <<x>>
          \/ \E x, y \in TaskIds : deps = <<x, y>>
      BY DEF DepLists
    <3>2. CASE deps = << >>
      BY <3>2
    <3>3. CASE \E x \in TaskIds : deps = <<x>>
      <4>1. PICK x \in TaskIds : deps = <<x>>
        BY <3>3
      <4> QED
        BY <4>1
    <3>4. CASE \E x, y \in TaskIds : deps = <<x, y>>
      <4>1. PICK x \in TaskIds, y \in TaskIds : deps = <<x, y>>
        BY <3>4
      <4> QED
        BY <4>1
    <3> QED
      BY <3>1, <3>2, <3>3, <3>4
  <2>2. Added(AddTask(g, t, NewTask(status, deps, NoTask)), g)
    BY <1>1, <2>1, AddKeeps DEF Added
  <2> QED
    BY <2>2, AddedStep
<1>2. ASSUME NEW parent \in TaskIds, NEW a \in TaskIds, NEW b \in TaskIds
      PROVE  GraphStep(tp, AddSubtasks(g, parent, [id |-> a, deps |-> << >>],
                                       [id |-> b, deps |-> <<a>>]), g, next)
  <2>1. PICK first, second : first = [id |-> a, deps |-> << >>] /\ second = [id |-> b, deps |-> <<a>>]
    OBVIOUS
  <2>2. /\ first.id \in TaskIds /\ first.deps \in Seq(TaskIds)
        /\ second.id \in TaskIds /\ second.deps \in Seq(TaskIds)
    BY <2>1
  <2>3. PICK start : start = [g |-> g, ok |-> TRUE]
    OBVIOUS
  <2>4. Added(start.g, g)
    BY <2>3 DEF Added
  <2>5. PICK one : one = AddOne(start, parent, first)
    OBVIOUS
  <2>6. Added(one.g, g)
    BY <2>2, <2>4, <2>5, AddOneKeeps
  <2>7. Added(AddOne(one, parent, second).g, g)
    BY <2>2, <2>6, AddOneKeeps
  <2>8. AddSubtasks(g, parent, first, second) = AddOne(one, parent, second).g
    BY <2>3, <2>5 DEF AddSubtasks
  <2> QED
    BY <2>1, <2>7, <2>8, AddedStep
<1> QED
  BY <1>1, <1>2

\* The transitions of a task.
LEMMA TaskSteps ==
  ASSUME NEW tp, NEW g, NEW next, GraphOk(g), SpacesOk(tp, g, next), NEW t \in TaskIds, Known(g, t)
  PROVE  /\ \A trigger : TaskLegal(g.task[t].status, trigger) /\ trigger \notin {"Integrate", "Cancel"}
                         => GraphStep(tp, Transition(g, t, trigger), g, next)
         /\ TaskLegal(g.task[t].status, "Integrate") =>
              GraphStep(tp, MarkCompleted(Transition(g, t, "Integrate"), t), g, next)
         /\ TaskLegal(g.task[t].status, "Cancel") => GraphStep(tp, Cancel(g, t), g, next)
<1>0. g \in Graphs
  BY DEF GraphOk
<1>1. ASSUME NEW trigger, TaskLegal(g.task[t].status, trigger), trigger \notin {"Integrate", "Cancel"}
      PROVE  GraphStep(tp, Transition(g, t, trigger), g, next)
  <2>1. PICK h : h = Transition(g, t, trigger)
    OBVIOUS
  <2>2. /\ GraphOk(h) /\ SameGraph(h, g) /\ SameReadiness(h, g) /\ SameBinding(h, g)
    BY <1>1, <2>1, AdvanceKeeps
  <2>3. \A u \in TaskIds : u # t => h.task[u] = g.task[u]
    BY <1>0, <1>1, <2>1, TransitionLeaves
  <2>4. g.task[t].status \notin Finished
    BY <1>1, TaskMoves
  <2>5. h.task[t].status # "Cancelled"
    BY <2>2, <2>4 DEF SameReadiness, Finished
  <2>6. CascadeStep(h, g)
    BY <2>3, <2>5, NothingCancelled
  <2> QED
    BY <2>1, <2>2, <2>6, SpacesSame DEF GraphStep
<1>2. ASSUME TaskLegal(g.task[t].status, "Integrate")
      PROVE  GraphStep(tp, MarkCompleted(Transition(g, t, "Integrate"), t), g, next)
  <2>1. PICK h : h = MarkCompleted(Transition(g, t, "Integrate"), t)
    OBVIOUS
  <2>2. /\ GraphOk(h) /\ SameGraph(h, g) /\ SameBinding(h, g)
        /\ \A u \in TaskIds : Known(g, u) => h.task[u].status = g.task[u].status \/ u = t
        /\ h.task[t].status = "Integrated"
    BY <1>2, <2>1, IntegrateKeeps
  <2>3. CascadeStep(h, g)
    BY <2>2, NothingCancelled
  <2> QED
    BY <2>1, <2>2, <2>3, SpacesSame DEF GraphStep
<1>3. ASSUME TaskLegal(g.task[t].status, "Cancel")
      PROVE  GraphStep(tp, Cancel(g, t), g, next)
  <2>1. PICK h, all : h = Cancel(g, t) /\ all = CancelSet(g, t)
    OBVIOUS
  <2>2. /\ GraphOk(h) /\ SameGraph(h, g) /\ SameBinding(h, g)
        /\ \A u \in TaskIds : u \notin all => h.task[u] = g.task[u]
        /\ \A u \in all : h.task[u].status = "Cancelled"
    BY <1>3, <2>1, CancelKeeps
  <2>3. \A d \in all, u \in TaskIds : Waits(g, u) /\ EdgesTo(g, d, u) # {} => u \in all
    BY <1>0, <2>1, CancelSetIs
  <2>4. ASSUME NEW u \in TaskIds, NEW d \in TaskIds, Known(g, u), Known(g, d),
               d \in Range(g.task[u].deps), g.task[d].status # "Cancelled",
               h.task[d].status = "Cancelled", h.task[u].status \in {"Draft", "Pending"}
        PROVE  FALSE
    <3>1. d \in all
      BY <2>2, <2>4
    <3>2. u \notin all
      BY <2>2, <2>4
    <3>3. Waits(g, u)
      BY <2>2, <2>4, <3>2 DEF Waits
    <3>4. EdgesTo(g, d, u) # {}
      BY <2>4 DEF GraphOk, DepsOk, Deps
    <3> QED
      BY <2>3, <3>1, <3>2, <3>3, <3>4
  <2>5. CascadeStep(h, g)
    BY <2>4 DEF CascadeStep
  <2> QED
    BY <2>1, <2>2, <2>5, SpacesSame DEF GraphStep
<1> QED
  BY <1>1, <1>2, <1>3

\* The steps that bind and unbind.
LEMMA BindSteps ==
  ASSUME NEW tp, NEW g, NEW next, GraphOk(g), SpacesOk(tp, g, next), NEW t \in TaskIds, Known(g, t)
  PROVE  /\ GraphStep(tp, Unbind(g, t), g, next)
         /\ \A w \in Live(tp) : CanBind(g, t, w) /\ TaskLegal(g.task[t].status, "Assign")
              => GraphStep(tp, Transition(Bind(g, t, w), t, "Assign"), g, next)
<1>1. GraphStep(tp, Unbind(g, t), g, next)
  <2>1. PICK h : h = Unbind(g, t)
    OBVIOUS
  <2>2. /\ GraphOk(h) /\ SameStatuses(h, g)
        /\ \A u \in TaskIds : u # t => h.task[u] = g.task[u]
        /\ h.task[t].ws = NoNode
    BY <2>1, UnbindKeeps
  <2>3. ASSUME NEW u \in TaskIds, Known(h, u), h.task[u].ws # NoNode PROVE h.task[u].ws \in Live(tp)
    BY <2>2, <2>3 DEF SameStatuses, SameGraph, SpacesOk
  <2>4. CascadeStep(h, g)
    BY <2>2, NothingCancelled DEF SameStatuses
  <2> QED
    BY <2>1, <2>2, <2>3, <2>4, SpacesStay DEF GraphStep
<1>2. ASSUME NEW w \in Live(tp), CanBind(g, t, w), TaskLegal(g.task[t].status, "Assign")
      PROVE  GraphStep(tp, Transition(Bind(g, t, w), t, "Assign"), g, next)
  <2>1. PICK f : f = Bind(g, t, w)
    OBVIOUS
  <2>2. w \in Nodes
    BY DEF Live
  <2>3. /\ GraphOk(f) /\ SameStatuses(f, g) /\ f.task[t].ws = w
        /\ \A u \in TaskIds : u # t => f.task[u] = g.task[u]
    BY <1>2, <2>1, <2>2, BindKeeps
  <2>4. ASSUME NEW u \in TaskIds, Known(f, u), f.task[u].ws # NoNode PROVE f.task[u].ws \in Live(tp)
    BY <2>3, <2>4 DEF SameStatuses, SameGraph, SpacesOk
  <2>5. SpacesOk(tp, f, next)
    BY <2>4, SpacesStay
  <2>6. Known(f, t) /\ TaskLegal(f.task[t].status, "Assign")
    BY <1>2, <2>3 DEF SameStatuses, SameGraph
  <2>7. PICK h : h = Transition(f, t, "Assign")
    OBVIOUS
  <2>8. GraphStep(tp, h, f, next)
    BY <2>3, <2>5, <2>6, <2>7, TaskSteps
  <2>9. CascadeStep(h, g)
    <3> SUFFICES ASSUME NEW u \in TaskIds, NEW d \in TaskIds, Known(g, u), Known(g, d),
               d \in Range(g.task[u].deps), g.task[d].status # "Cancelled",
               h.task[d].status = "Cancelled"
        PROVE  h.task[u].status \notin {"Draft", "Pending"}
      BY DEF CascadeStep
    <3>1. Known(f, u) /\ Known(f, d) /\ f.task[u].deps = g.task[u].deps
          /\ f.task[d].status = g.task[d].status
      BY <2>3 DEF SameStatuses, SameGraph
    <3> QED
      BY <3>1, <2>8 DEF GraphStep, CascadeStep
  <2> QED
    BY <2>1, <2>7, <2>8, <2>9 DEF GraphStep
<1> QED
  BY <1>1, <1>2

\* A workspace ends, with those below it.
LEMMA EndStep ==
  ASSUME NEW tp, NEW g, NEW next, TopoOk(tp), SpacesOk(tp, g, next),
         NEW w \in Live(tp) \ {Root}, NEW status \in TerminalStates
  PROVE  TopoOk(Terminate(tp, w, status)) /\ SpacesOk(Terminate(tp, w, status), g, next)
<1>1. PICK r : r = Terminate(tp, w, status)
  OBVIOUS
<1>2. /\ TopoOk(r) /\ Live(r) = Live(tp) /\ SameNames(r, tp)
      /\ \A x \in Live(tp) : r.node[x].status # tp.node[x].status => r.node[x].status \in TerminalStates
      /\ \A x \in Live(tp) : r.node[x].status # tp.node[x].status => x = w \/ x \in Descendants(tp, w)
  <2>1. w \in Live(tp)
    OBVIOUS
  <2> QED
    BY <1>1, <2>1, TerminateKeeps
<1>3. Root \in Live(tp) /\ Root \notin Descendants(tp, w)
  <2>1. tp \in Topologies /\ TreeOk(tp) /\ w \in Live(tp)
    BY DEF TopoOk
  <2> QED
    BY <2>1, DescendantsLive, TopologyAssumption DEF TreeOk, Live
<1>4. r.node[Root].status = tp.node[Root].status /\ r.node[Root].task = tp.node[Root].task
  BY <1>2, <1>3 DEF SameNames
<1>5. ActiveWorkspaces(r) \subseteq ActiveWorkspaces(tp)
  BY <1>2 DEF ActiveWorkspaces
<1>6. IsFiniteSet(ActiveWorkspaces(tp)) /\ Cardinality(ActiveWorkspaces(tp)) <= MaxConcurrent + 1
  BY DEF SpacesOk
<1>7. PICK j \in Nat, k \in Nat : /\ j = Cardinality(ActiveWorkspaces(r))
                                  /\ k = Cardinality(ActiveWorkspaces(tp)) /\ j <= k
                                  /\ IsFiniteSet(ActiveWorkspaces(r))
  BY <1>5, <1>6, FS_Subset, FS_CardinalityType
<1>8. j <= MaxConcurrent + 1
  BY <1>6, <1>7, SchedulingAssumption
<1> QED
  BY <1>1, <1>2, <1>4, <1>7, <1>8 DEF SpacesOk

\* try_dispatch.
LEMMA DispatchStep ==
  ASSUME NEW tp, NEW g, NEW next, TopoOk(tp), GraphOk(g), SpacesOk(tp, g, next),
         NEW order \in SetToSeqs(Dispatchable(g))
  PROVE  LET end == Dispatched([tp |-> tp, g |-> g, next |-> next], order)[Len(order)]
         IN  TopoOk(end.tp) /\ GraphStep(end.tp, end.g, g, end.next)
<1>1. IsFiniteSet(Dispatchable(g))
  <2>1. Dispatchable(g) \subseteq {t \in TaskIds : Known(g, t)}
    BY DEF Dispatchable
  <2> QED
    BY <2>1, FS_Subset DEF GraphOk
<1>2. PICK n \in Nat : n = Cardinality(Dispatchable(g))
  BY <1>1, FS_CardinalityType
<1>3. order \in [1..n -> Dispatchable(g)]
  BY <1>2 DEF SetToSeqs
<1>4. Dispatchable(g) \subseteq TaskIds /\ \A t \in Dispatchable(g) : Known(g, t)
  BY DEF Dispatchable
<1>5. order \in Seq(TaskIds) /\ Len(order) = n
  <2>1. order \in [1..n -> TaskIds]
    BY <1>3, <1>4
  <2> QED
    BY <2>1
<1>6. PICK start : start = [tp |-> tp, g |-> g, next |-> next]
  OBVIOUS
<1>7. LoopOk(start) /\ start.g = g
  BY <1>6 DEF LoopOk
<1>8. \A i \in 1..Len(order) : Known(start.g, order[i])
  BY <1>3, <1>4, <1>5, <1>7
<1>9. PICK end : end = Dispatched(start, order)[Len(order)]
  OBVIOUS
<1>10. LoopOk(end) /\ SameStatuses(end.g, g)
  BY <1>5, <1>7, <1>8, <1>9, DispatchLoop
<1>11. CascadeStep(end.g, g)
  BY <1>10, NothingCancelled DEF SameStatuses
<1> QED
  BY <1>6, <1>9, <1>10, <1>11 DEF LoopOk, GraphStep

(* ------------------------- the scheduler's invariant --------------------- *)
GateRecord ==
  [task : TaskIds, fallback : {"AutoApprove", "Cancel"},
   outcome : {"Pending", "Rejected", "ApprovedByHuman", "ApprovedByTimeout"}]

SchedulingOk(tp, g, next, gs) ==
  TopoOk(tp) /\ GraphOk(g) /\ SpacesOk(tp, g, next) /\ gs \in Seq(GateRecord)

\* No gate that was answered changes.
AnswersStay(hs, gs) == \A id \in DOMAIN gs : gs[id].outcome # "Pending" => hs[id] = gs[id]

\* The empty graph.
LEMMA NewGraphOk ==
  GraphOk(NewGraph)
<1>1. PICK g : g = NewGraph
  OBVIOUS
<1>2. /\ g.task = [t \in TaskIds |-> NoTask] /\ g.remaining = [t \in TaskIds |-> 0]
      /\ g.forward = [t \in TaskIds |-> << >>] /\ g.boundTask = [w \in Nodes |-> NoTask]
  BY <1>1 DEF NewGraph
<1>3. g \in Graphs
  BY <1>1 DEF NewGraph, Graphs
<1>4. \A t \in TaskIds : ~Known(g, t)
  BY <1>2 DEF Known
<1>5. {t \in TaskIds : Known(g, t)} = {}
  BY <1>4
<1>6. IsFiniteSet({t \in TaskIds : Known(g, t)})
  BY <1>5, FS_EmptySet
<1>7. DepsOk(g) /\ ReadyOk(g) /\ BindOk(g)
  BY <1>2, <1>4 DEF DepsOk, ReadyOk, BindOk, Waits
<1> QED
  BY <1>1, <1>3, <1>6, <1>7 DEF GraphOk

\* The start: a topology that is the root, and nothing bound.
LEMMA SchedulingStarts ==
  ASSUME NEW u \in Users
  PROVE  SpacesOk(NewTopology(u), NewGraph, 1)
<1>1. PICK tp, g : tp = NewTopology(u) /\ g = NewGraph
  OBVIOUS
<1>2. tp.node[Root] = NewNode(NoNode, u, System, "Active", NoNode)
      /\ \A w \in Nodes : w # Root => tp.node[w] = NoNode
  BY <1>1, TopologyAssumption DEF NewTopology
<1>3. tp.node[Root].status = "Active" /\ tp.node[Root].task = NoNode
  BY <1>2 DEF NewNode
<1>4. "Active" \notin TerminalStates
  BY DEF TerminalStates
<1>5. Live(tp) \subseteq {Root}
  BY <1>2 DEF Live, Exists
<1>6. ActiveWorkspaces(tp) \subseteq {Root}
  BY <1>5 DEF ActiveWorkspaces
<1>7. IsFiniteSet({Root}) /\ Cardinality({Root}) = 1
  BY FS_Singleton
<1>8. IsFiniteSet(ActiveWorkspaces(tp)) /\ Cardinality(ActiveWorkspaces(tp)) <= 1
      /\ Cardinality(ActiveWorkspaces(tp)) \in Nat
  BY <1>6, <1>7, FS_Subset, FS_CardinalityType
<1>9. Cardinality(ActiveWorkspaces(tp)) <= MaxConcurrent + 1
  BY <1>8, SchedulingAssumption
<1>10. \A t \in TaskIds : ~Known(g, t)
  BY <1>1 DEF Known, NewGraph
<1> QED
  BY <1>1, <1>3, <1>4, <1>5, <1>8, <1>9, <1>10 DEF SpacesOk

\* A step of the graph alone.
LEMMA OnGraphStep ==
  ASSUME NEW h, SchedulingOk(topo, graph, nextWs, gates), OnGraph(h),
         GraphStep(topo, h, graph, nextWs)
  PROVE  /\ SchedulingOk(topo', graph', nextWs', gates') /\ CascadeStep(graph', graph)
         /\ AnswersStay(gates', gates)
<1>1. topo' = topo /\ graph' = h /\ nextWs' = nextWs /\ gates' = gates
  BY DEF OnGraph, topologyVars
<1> QED
  BY <1>1 DEF SchedulingOk, GraphStep, AnswersStay

\* The gates: opening one adds one, and only a pending one is closed.
LEMMA GateSteps ==
  ASSUME SchedulingOk(topo, graph, nextWs, gates)
  PROVE  /\ \A t \in TaskIds, fallback \in {"AutoApprove", "Cancel"} : OpenGate(t, fallback) =>
              gates' \in Seq(GateRecord) /\ AnswersStay(gates', gates)
         /\ \A id \in DOMAIN gates,
              outcome \in {"Rejected", "ApprovedByHuman", "ApprovedByTimeout"} :
              CloseGate(id, outcome) => gates' \in Seq(GateRecord) /\ AnswersStay(gates', gates)
<1>0. PICK gs \in Seq(GateRecord) : gs = gates
  BY DEF SchedulingOk
<1>1. ASSUME NEW t \in TaskIds, NEW fallback \in {"AutoApprove", "Cancel"}, OpenGate(t, fallback)
      PROVE  gates' \in Seq(GateRecord) /\ AnswersStay(gates', gates)
  <2>1. PICK gate \in GateRecord : gate = [task |-> t, fallback |-> fallback, outcome |-> "Pending"]
    BY DEF GateRecord
  <2>2. gates' = Append(gs, gate)
    BY <1>0, <1>1, <2>1 DEF OpenGate
  <2>3. Append(gs, gate) \in Seq(GateRecord) /\ \A id \in DOMAIN gs : Append(gs, gate)[id] = gs[id]
    OBVIOUS
  <2> QED
    BY <1>0, <2>2, <2>3 DEF AnswersStay
<1>2. ASSUME NEW id \in DOMAIN gates,
             NEW outcome \in {"Rejected", "ApprovedByHuman", "ApprovedByTimeout"},
             CloseGate(id, outcome)
      PROVE  gates' \in Seq(GateRecord) /\ AnswersStay(gates', gates)
  <2>1. id \in 1..Len(gs) /\ gs[id] \in GateRecord /\ gs[id].outcome = "Pending"
    BY <1>0, <1>2 DEF CloseGate
  <2>2. PICK gate : gate = [gs[id] EXCEPT !.outcome = outcome]
    OBVIOUS
  <2>3. gate \in GateRecord
    BY <2>1, <2>2 DEF GateRecord
  <2>4. gates' = [gs EXCEPT ![id] = gate]
    BY <1>0, <1>2, <2>2 DEF CloseGate
  <2>5. [gs EXCEPT ![id] = gate] \in Seq(GateRecord)
    BY <2>1, <2>3
  <2>6. \A k \in DOMAIN gs : k # id => gates'[k] = gs[k]
    BY <2>4
  <2> QED
    BY <1>0, <2>1, <2>4, <2>5, <2>6 DEF AnswersStay
<1> QED
  BY <1>1, <1>2

\* Every step of the scheduler.
LEMMA SchedulingStep ==
  ASSUME SchedulingOk(topo, graph, nextWs, gates), SchedulingNext
  PROVE  /\ SchedulingOk(topo', graph', nextWs', gates') /\ CascadeStep(graph', graph)
         /\ AnswersStay(gates', gates)
<1>0. TopoOk(topo) /\ GraphOk(graph) /\ SpacesOk(topo, graph, nextWs) /\ gates \in Seq(GateRecord)
  BY DEF SchedulingOk
<1> DEFINE Goal == /\ SchedulingOk(topo', graph', nextWs', gates') /\ CascadeStep(graph', graph)
                   /\ AnswersStay(gates', gates)
<1>1. ASSUME NEW t \in TaskIds, NEW status \in {"Draft", "Pending"}, NEW deps \in DepLists(t),
             Add(t, status, deps)
      PROVE  Goal
  <2>1. PICK h : h = AddTask(graph, t, NewTask(status, deps, NoTask))
    OBVIOUS
  <2>2. OnGraph(h) /\ ~Known(graph, t)
    BY <1>1, <2>1 DEF Add
  <2>3. GraphStep(topo, h, graph, nextWs)
    BY <1>0, <2>1, <2>2, AddSteps
  <2> QED
    BY <2>2, <2>3, OnGraphStep
<1>2. ASSUME NEW parent \in TaskIds, NEW a \in TaskIds, NEW b \in TaskIds, Decompose(parent, a, b)
      PROVE  Goal
  <2>1. PICK h : h = AddSubtasks(graph, parent, [id |-> a, deps |-> << >>], [id |-> b, deps |-> <<a>>])
    OBVIOUS
  <2>2. OnGraph(h)
    BY <1>2, <2>1 DEF Decompose
  <2>3. GraphStep(topo, h, graph, nextWs)
    BY <1>0, <2>1, AddSteps
  <2> QED
    BY <2>2, <2>3, OnGraphStep
<1>3. ASSUME NEW t \in TaskIds, NEW trigger \in {"Approve", "Assign", "Start", "Complete", "Fail"},
             Advance(t, trigger)
      PROVE  Goal
  <2>1. PICK h : h = Transition(graph, t, trigger)
    OBVIOUS
  <2>2. OnGraph(h) /\ Known(graph, t) /\ TaskLegal(graph.task[t].status, trigger)
        /\ trigger \notin {"Integrate", "Cancel"}
    BY <1>3, <2>1 DEF Advance
  <2>3. GraphStep(topo, h, graph, nextWs)
    BY <1>0, <2>1, <2>2, TaskSteps
  <2> QED
    BY <2>2, <2>3, OnGraphStep
<1>4. ASSUME NEW t \in TaskIds, Integrate(t) PROVE Goal
  <2>1. PICK h : h = MarkCompleted(Transition(graph, t, "Integrate"), t)
    OBVIOUS
  <2>2. OnGraph(h) /\ Known(graph, t) /\ TaskLegal(graph.task[t].status, "Integrate")
    BY <1>4, <2>1 DEF Integrate
  <2>3. GraphStep(topo, h, graph, nextWs)
    BY <1>0, <2>1, <2>2, TaskSteps
  <2> QED
    BY <2>2, <2>3, OnGraphStep
<1>5. ASSUME NEW t \in TaskIds, CancelTask(t) PROVE Goal
  <2>1. PICK h : h = Cancel(graph, t)
    OBVIOUS
  <2>2. OnGraph(h) /\ Known(graph, t) /\ TaskLegal(graph.task[t].status, "Cancel")
    BY <1>5, <2>1 DEF CancelTask
  <2>3. GraphStep(topo, h, graph, nextWs)
    BY <1>0, <2>1, <2>2, TaskSteps
  <2> QED
    BY <2>2, <2>3, OnGraphStep
<1>6. ASSUME NEW t \in TaskIds, NEW retryOn \in BOOLEAN, Retry(t, retryOn) PROVE Goal
  <2>1. PICK h : h = Unbind(graph, t)
    OBVIOUS
  <2>2. OnGraph(h) /\ Known(graph, t)
    BY <1>6, <2>1 DEF Retry
  <2>3. GraphStep(topo, h, graph, nextWs)
    BY <1>0, <2>1, <2>2, BindSteps
  <2> QED
    BY <2>2, <2>3, OnGraphStep
<1>7. ASSUME NEW t \in TaskIds, NEW w \in Nodes, Assign(t, w) PROVE Goal
  <2>1. PICK h : h = Transition(Bind(graph, t, w), t, "Assign")
    OBVIOUS
  <2>2. OnGraph(h) /\ Known(graph, t) /\ w \in Live(topo) /\ CanBind(graph, t, w)
        /\ TaskLegal(graph.task[t].status, "Assign")
    BY <1>7, <2>1 DEF Assign, Live
  <2>3. GraphStep(topo, h, graph, nextWs)
    BY <1>0, <2>1, <2>2, BindSteps
  <2> QED
    BY <2>2, <2>3, OnGraphStep
<1>8. ASSUME NEW order \in SetToSeqs(Dispatchable(graph)), TryDispatch(order) PROVE Goal
  <2>1. PICK end : end = Dispatched([tp |-> topo, g |-> graph, next |-> nextWs], order)[Len(order)]
    OBVIOUS
  <2>2. topo' = end.tp /\ graph' = end.g /\ nextWs' = end.next /\ gates' = gates
    BY <1>8, <2>1 DEF TryDispatch
  <2>3. TopoOk(end.tp) /\ GraphStep(end.tp, end.g, graph, end.next)
    BY <1>0, <2>1, DispatchStep
  <2> QED
    BY <1>0, <2>2, <2>3 DEF SchedulingOk, GraphStep, AnswersStay
<1>9. ASSUME gates' \in Seq(GateRecord), AnswersStay(gates', gates),
             UNCHANGED <<topologyVars, graph, nextWs>>
      PROVE  Goal
  <2>1. topo' = topo /\ graph' = graph /\ nextWs' = nextWs
    BY <1>9 DEF topologyVars
  <2>2. CascadeStep(graph, graph)
    BY NothingCancelled
  <2> QED
    BY <1>0, <1>9, <2>1, <2>2 DEF SchedulingOk
<1>10. ASSUME NEW t \in TaskIds, NEW fallback \in {"AutoApprove", "Cancel"}, OpenGate(t, fallback)
       PROVE  Goal
  <2>1. UNCHANGED <<topologyVars, graph, nextWs>>
    BY <1>10 DEF OpenGate
  <2> QED
    BY <1>9, <1>10, <2>1, GateSteps
<1>11. ASSUME NEW id \in DOMAIN gates,
              NEW outcome \in {"Rejected", "ApprovedByHuman", "ApprovedByTimeout"},
              CloseGate(id, outcome)
       PROVE  Goal
  <2>1. UNCHANGED <<topologyVars, graph, nextWs>>
    BY <1>11 DEF CloseGate
  <2> QED
    BY <1>9, <1>11, <2>1, GateSteps
<1>12. ASSUME NEW id \in DOMAIN gates, NEW decision \in {"Approve", "Modify", "Reject"},
              ResolveGate(id, decision)
       PROVE  Goal
  <2>1. CASE decision = "Reject"
    BY <1>11, <1>12, <2>1 DEF ResolveGate
  <2>2. CASE decision # "Reject"
    BY <1>11, <1>12, <2>2 DEF ResolveGate
  <2> QED
    BY <2>1, <2>2
<1>13. ASSUME NEW id \in DOMAIN gates, TimeoutGate(id) PROVE Goal
  <2>1. CASE gates[id].fallback = "AutoApprove"
    BY <1>11, <1>13, <2>1 DEF TimeoutGate
  <2>2. CASE gates[id].fallback # "AutoApprove"
    BY <1>11, <1>13, <2>2 DEF TimeoutGate
  <2> QED
    BY <2>1, <2>2
<1>14. ASSUME NEW w \in Nodes \ {Root}, NEW status \in TerminalStates, EndWorkspace(w, status)
       PROVE  Goal
  <2>1. PICK r : r = Terminate(topo, w, status)
    OBVIOUS
  <2>2. topo' = r /\ graph' = graph /\ nextWs' = nextWs /\ gates' = gates
        /\ w \in Live(topo) \ {Root}
    BY <1>14, <2>1 DEF EndWorkspace, Live, Exists
  <2>3. TopoOk(r) /\ SpacesOk(r, graph, nextWs)
    BY <1>0, <2>1, <2>2, EndStep
  <2>4. CascadeStep(graph, graph) /\ AnswersStay(gates, gates)
    BY NothingCancelled DEF AnswersStay
  <2> QED
    BY <1>0, <2>2, <2>3, <2>4 DEF SchedulingOk
<1> QED
  BY <1>1, <1>2, <1>3, <1>4, <1>5, <1>6, <1>7, <1>8, <1>10, <1>12, <1>13, <1>14
  DEF SchedulingNext

\* What the properties of a state say follows from the invariant.
LEMMA SchedulingOkImplies ==
  ASSUME SchedulingOk(topo, graph, nextWs, gates)
  PROVE  ReadinessExact /\ BindingsAgree /\ CapacityRespected
<1>0. TopoOk(topo) /\ GraphOk(graph) /\ SpacesOk(topo, graph, nextWs)
  BY DEF SchedulingOk
<1>1. ReadinessExact
  <2> SUFFICES ASSUME NEW t \in TaskIds, Known(graph, t),
                      graph.task[t].status \in {"Draft", "Pending"}, NoStrayEdge(t)
               PROVE  graph.remaining[t] =
                        Cardinality({d \in Range(graph.task[t].deps) :
                                        graph.task[d].status \notin Finished})
    BY DEF ReadinessExact
  <2>1. Waits(graph, t) /\ Clean(graph, t)
    BY DEF Waits, Clean, NoStrayEdge, EdgesTo, Deps
  <2>2. graph.remaining[t] = Cardinality(Open(graph, t))
    BY <1>0, <2>1 DEF GraphOk, ReadyOk
  <2> QED
    BY <2>2 DEF Open, Deps
<1>2. BindingsAgree
  BY <1>0 DEF BindingsAgree, GraphOk, BindOk
<1>3. CapacityRespected
  <2>1. PICK A, B : /\ A = ActiveWorkspaces(topo)
                    /\ B = {w \in ActiveWorkspaces(topo) : topo.node[w].task # NoNode}
    OBVIOUS
  <2>2. Root \in A /\ Root \notin B /\ B \subseteq A
    <3>1. Root \in Live(topo)
      BY <1>0, TopologyAssumption DEF TopoOk, TreeOk, Live
    <3> QED
      BY <3>1, <1>0, <2>1 DEF SpacesOk, ActiveWorkspaces
  <2>3. IsFiniteSet(A) /\ Cardinality(A) <= MaxConcurrent + 1
    BY <1>0, <2>1 DEF SpacesOk
  <2>4. IsFiniteSet(A \ {Root}) /\ Cardinality(A \ {Root}) = Cardinality(A) - 1
    BY <2>2, <2>3, FS_RemoveElement
  <2>5. PICK a \in Nat, b \in Nat : a = Cardinality(A) /\ b = Cardinality(B) /\ b <= a - 1
    <3>1. B \subseteq A \ {Root}
      BY <2>2
    <3> QED
      BY <3>1, <2>3, <2>4, FS_Subset, FS_CardinalityType
  <2>6. b <= MaxConcurrent
    BY <2>3, <2>5, SchedulingAssumption
  <2> QED
    BY <2>1, <2>5, <2>6 DEF CapacityRespected
<1> QED
  BY <1>1, <1>2, <1>3

SchedulingInv == SchedulingOk(topo, graph, nextWs, gates)

\* For any tasks, workspaces and limits, over any sequence of adds, refused
\* adds, decompositions, integrations, cancellations, retries, bindings,
\* dispatches in any order, gate answers and timeouts: the readiness counters
\* are exact, the bindings agree, the dispatcher keeps its capacity, a
\* cancellation takes along whoever waits for the task, and the first answer
\* to a gate stands (task_graph.rs, scheduling.rs, dispatch.rs, gate.rs).
THEOREM SchedulingAlwaysHolds ==
  SchedulingSpec => SchedulingHolds
<1>1. SchedulingInit => SchedulingInv
  <2> SUFFICES ASSUME SchedulingInit PROVE SchedulingInv
    OBVIOUS
  <2>1. PICK u \in Users : topo = NewTopology(u)
    BY DEF SchedulingInit, TopologyInit
  <2>2. graph = NewGraph /\ nextWs = 1 /\ gates = << >>
    BY DEF SchedulingInit
  <2>3. TopoOk(topo) /\ GraphOk(graph) /\ SpacesOk(topo, graph, nextWs)
    BY <2>1, <2>2, NewTopologyOk, NewGraphOk, SchedulingStarts
  <2>4. gates \in Seq(GateRecord)
    BY <2>2
  <2> QED
    BY <2>3, <2>4 DEF SchedulingInv, SchedulingOk
<1>2. ASSUME SchedulingInv, [SchedulingNext]_schedulingVars
      PROVE  /\ SchedulingOk(topo', graph', nextWs', gates')
             /\ CascadeStep(graph', graph) /\ AnswersStay(gates', gates)
  <2>1. CASE SchedulingNext
    BY <1>2, <2>1, SchedulingStep DEF SchedulingInv
  <2>2. CASE UNCHANGED schedulingVars
    <3>1. topo' = topo /\ graph' = graph /\ nextWs' = nextWs /\ gates' = gates
      BY <2>2 DEF schedulingVars, topologyVars
    <3>2. CascadeStep(graph, graph) /\ AnswersStay(gates, gates)
      BY NothingCancelled DEF AnswersStay
    <3> QED
      BY <3>1, <3>2, <1>2 DEF SchedulingInv
  <2> QED
    BY <1>2, <2>1, <2>2
<1>3. SchedulingInv /\ [SchedulingNext]_schedulingVars => SchedulingInv'
  <2> SUFFICES ASSUME SchedulingInv, [SchedulingNext]_schedulingVars PROVE SchedulingInv'
    OBVIOUS
  <2>1. TopoOk(topo') /\ GraphOk(graph') /\ SpacesOk(topo', graph', nextWs')
        /\ gates' \in Seq(GateRecord)
    BY <1>2 DEF SchedulingOk
  <2>2. TopoOk(topo)'
    BY <2>1 DEF TopoOk, TreeOk, OwnersOk, SightOk, RightsOk, Live, Exists, Descendants, Children
  <2>3. GraphOk(graph)'
    BY <2>1 DEF GraphOk, Graphs, DepsOk, ReadyOk, BindOk, Known, Waits, Clean, EdgesTo, Deps, Open, Range
  <2>4. SpacesOk(topo, graph, nextWs)'
    BY <2>1 DEF SpacesOk, Live, Exists, Known, ActiveWorkspaces
  <2> QED
    BY <2>1, <2>2, <2>3, <2>4 DEF SchedulingInv, SchedulingOk
<1>4. SchedulingInv => ReadinessExact /\ BindingsAgree /\ CapacityRespected
  BY SchedulingOkImplies DEF SchedulingInv
<1>5. SchedulingInv /\ [SchedulingNext]_schedulingVars =>
        [\A t, d \in TaskIds :
           /\ Known(graph, t) /\ Known(graph, d)
           /\ d \in Range(graph.task[t].deps)
           /\ graph.task[d].status # "Cancelled" /\ graph'.task[d].status = "Cancelled"
           => graph'.task[t].status \notin {"Draft", "Pending"}]_schedulingVars
  BY <1>2 DEF CascadeStep
<1>6. SchedulingInv /\ [SchedulingNext]_schedulingVars =>
        [\A id \in DOMAIN gates :
           gates[id].outcome # "Pending" => gates'[id] = gates[id]]_schedulingVars
  BY <1>2 DEF AnswersStay
<1> QED
  BY <1>1, <1>3, <1>4, <1>5, <1>6, PTL
  DEF SchedulingSpec, SchedulingHolds, CancelCascades, FirstAnswerWins

(* ---------------------------- the integrations -------------------------- *)
\* resolve_all's loop, run over the first n conflicts.
Resolving(f, found, n) ==
  f = [i \in 0..n |-> IF i = 0 THEN "Resolved" ELSE ResolveNext(f[i - 1], found[i])]

\* The loop has an outcome after every round.
LEMMA ResolvingRuns ==
  ASSUME NEW found, NEW n \in Nat
  PROVE  \E f : Resolving(f, found, n)
<1>1. PICK T : T = {k \in Nat : \E f : Resolving(f, found, k)}
  OBVIOUS
<1>2. 0 \in T
  <2>1. PICK f : f = [i \in 0..0 |-> "Resolved"]
    OBVIOUS
  <2>2. Resolving(f, found, 0)
    BY <2>1 DEF Resolving
  <2> QED
    BY <2>2, <1>1
<1>3. ASSUME NEW k \in Nat, k \in T PROVE k + 1 \in T
  <2>1. PICK f : f = [i \in 0..k |-> IF i = 0 THEN "Resolved" ELSE ResolveNext(f[i - 1], found[i])]
    BY <1>1, <1>3 DEF Resolving
  <2>2. PICK newest : newest = ResolveNext(f[k], found[k + 1])
    OBVIOUS
  <2>3. PICK g : g = [i \in 0..(k + 1) |-> IF i <= k THEN f[i] ELSE newest]
    OBVIOUS
  <2>4. \A i \in 0..(k + 1) : g[i] = IF i = 0 THEN "Resolved" ELSE ResolveNext(g[i - 1], found[i])
    <3> TAKE i \in 0..(k + 1)
    <3>1. CASE i = 0
      BY <3>1, <2>1, <2>3
    <3>2. CASE i > 0 /\ i <= k
      <4>1. i \in 0..k /\ i - 1 \in 0..k /\ i - 1 \in 0..(k + 1) /\ i - 1 <= k
        BY <3>2
      <4>2. g[i] = f[i] /\ g[i - 1] = f[i - 1]
        BY <4>1, <2>3, <3>2
      <4> QED
        BY <4>1, <4>2, <3>2, <2>1
    <3>3. CASE i = k + 1
      <4>1. k \in 0..(k + 1) /\ i - 1 = k /\ ~(i <= k) /\ i # 0
        BY <3>3
      <4>2. g[i] = newest /\ g[k] = f[k]
        BY <4>1, <2>3
      <4> QED
        BY <4>1, <4>2, <3>3, <2>2
    <3> QED
      BY <3>1, <3>2, <3>3
  <2>5. Resolving(g, found, k + 1)
    BY <2>3, <2>4 DEF Resolving
  <2> QED
    BY <2>5, <1>1
<1>4. \A k \in Nat : k \in T
  BY <1>2, <1>3, SetInduction
<1> QED
  BY <1>1, <1>4

\* What resolve_all computes, round by round.
LEMMA OutcomesAre ==
  ASSUME NEW found \in Seq(ConflictTypes)
  PROVE  /\ Outcomes(found)[0] = "Resolved"
         /\ \A i \in 1..Len(found) :
               Outcomes(found)[i] = ResolveNext(Outcomes(found)[i - 1], found[i])
<1>1. Len(found) \in Nat
  OBVIOUS
<1>2. \E f : f = [i \in 0..Len(found) |->
                    IF i = 0 THEN "Resolved" ELSE ResolveNext(f[i - 1], found[i])]
  BY <1>1, ResolvingRuns DEF Resolving
<1>3. PICK f : f = Outcomes(found)
  OBVIOUS
<1>4. f = [i \in 0..Len(found) |-> IF i = 0 THEN "Resolved" ELSE ResolveNext(f[i - 1], found[i])]
  BY <1>2, <1>3 DEF Outcomes
<1>5. f[0] = "Resolved"
  BY <1>1, <1>4
<1>6. ASSUME NEW i \in 1..Len(found) PROVE f[i] = ResolveNext(f[i - 1], found[i])
  BY <1>1, <1>4
<1> QED
  BY <1>3, <1>5, <1>6

\* The conflicts among the first n that the coordinator cannot resolve itself.
BlockersTo(found, n) == {i \in 1..n : ResolutionFor(found[i]) # "CoordinatorResolve"}

\* The outcome after n rounds: that of the first of them.
Decided(found, n, outcome) ==
  IF BlockersTo(found, n) = {} THEN outcome = "Resolved"
  ELSE \E first \in BlockersTo(found, n) :
         /\ \A j \in BlockersTo(found, n) : first <= j
         /\ outcome = IF ResolutionFor(found[first]) = "Escalate" THEN "Pending" ELSE "Rework"

\* One more round keeps the outcome of the first conflict that blocks.
LEMMA RoundDecides ==
  ASSUME NEW found \in Seq(ConflictTypes), NEW n \in Nat, n < Len(found), NEW outcome,
         Decided(found, n, outcome)
  PROVE  Decided(found, n + 1, ResolveNext(outcome, found[n + 1]))
<1>1. PICK B : B = BlockersTo(found, n)
  OBVIOUS
<1>2. PICK C : C = BlockersTo(found, n + 1)
  OBVIOUS
<1>3. PICK r : r = ResolutionFor(found[n + 1])
  OBVIOUS
<1>4. r \in {"CoordinatorResolve", "Escalate", "AgentRework"}
  <2>1. found[n + 1] \in ConflictTypes
    OBVIOUS
  <2> QED
    BY <1>3, <2>1 DEF ResolutionFor, ConflictTypes
<1>5. B \subseteq 1..n /\ C = B \cup (IF r = "CoordinatorResolve" THEN {} ELSE {n + 1})
  BY <1>1, <1>2, <1>3 DEF BlockersTo
<1>6. CASE B = {}
  <2>1. outcome = "Resolved"
    BY <1>1, <1>6 DEF Decided
  <2>2. CASE r = "CoordinatorResolve"
    BY <2>1, <2>2, <1>2, <1>3, <1>5, <1>6 DEF Decided, ResolveNext
  <2>3. CASE r # "CoordinatorResolve"
    <3>1. C = {n + 1}
      BY <2>3, <1>5, <1>6
    <3>2. ResolveNext(outcome, found[n + 1]) = IF r = "Escalate" THEN "Pending" ELSE "Rework"
      BY <2>1, <2>3, <1>3, <1>4 DEF ResolveNext
    <3>3. PICK next : next = ResolveNext(outcome, found[n + 1])
      OBVIOUS
    <3>4. n + 1 \in C /\ (\A j \in C : n + 1 <= j) /\ C # {}
      BY <3>1
    <3>5. Decided(found, n + 1, next)
      BY <3>2, <3>3, <3>4, <1>2, <1>3 DEF Decided
    <3> QED
      BY <3>3, <3>5
  <2> QED
    BY <2>2, <2>3
<1>7. CASE B # {}
  <2>1. PICK first \in B :
           /\ \A j \in B : first <= j
           /\ outcome = IF ResolutionFor(found[first]) = "Escalate" THEN "Pending" ELSE "Rework"
    BY <1>1, <1>7 DEF Decided
  <2>2. ResolveNext(outcome, found[n + 1]) = outcome
    BY <2>1 DEF ResolveNext
  <2>3. first \in C /\ \A j \in C : first <= j
    BY <2>1, <1>5
  <2> QED
    BY <2>1, <2>2, <2>3, <1>2 DEF Decided
<1> QED
  BY <1>6, <1>7

\* resolve_all: its outcome is that of the first conflict it cannot resolve.
LEMMA ResolveAllDecides ==
  ASSUME NEW found \in Seq(ConflictTypes)
  PROVE  Decided(found, Len(found), ResolveAll(found))
<1>1. PICK f : f = Outcomes(found)
  OBVIOUS
<1>2. f[0] = "Resolved" /\ \A i \in 1..Len(found) : f[i] = ResolveNext(f[i - 1], found[i])
  BY <1>1, OutcomesAre
<1>3. PICK T : T = {k \in Nat : k <= Len(found) => Decided(found, k, f[k])}
  OBVIOUS
<1>4. 0 \in T
  BY <1>2, <1>3 DEF Decided, BlockersTo
<1>5. ASSUME NEW k \in Nat, k \in T PROVE k + 1 \in T
  <2>1. CASE k + 1 <= Len(found)
    <3>1. k < Len(found) /\ Decided(found, k, f[k])
      BY <2>1, <1>3, <1>5
    <3>2. f[k + 1] = ResolveNext(f[k], found[k + 1])
      <4>1. k + 1 \in 1..Len(found) /\ (k + 1) - 1 = k
        BY <2>1
      <4> QED
        BY <4>1, <1>2
    <3>3. Decided(found, k + 1, f[k + 1])
      BY <3>1, <3>2, RoundDecides
    <3> QED
      BY <3>3, <1>3
  <2>2. CASE ~(k + 1 <= Len(found))
    BY <2>2, <1>3
  <2> QED
    BY <2>1, <2>2
<1>6. \A k \in Nat : k \in T
  BY <1>4, <1>5, SetInduction
<1>7. Len(found) \in T
  BY <1>6
<1> QED
  BY <1>1, <1>3, <1>7 DEF ResolveAll

CheckpointRecord ==
  [final : BOOLEAN, confidence : Confidences, touched : SUBSET Artifacts]

Stages == {"idle", "merge", "resolve", "done", "Resolved", "Pending", "Rework"}

IntegrationTypes ==
  /\ pending \in Seq(Sources)
  /\ inProgress \in Sources \cup {NoSource}
  /\ checkpoints \in [Sources -> Seq(CheckpointRecord)]
  /\ merged \in SUBSET Artifacts
  /\ stage \in Stages
  /\ conflicts \in Seq(ConflictTypes)
  /\ pushes \in Nat

\* Only a workspace with a checkpoint is queued, and the pipeline is at rest
\* exactly when nothing is in progress.
IntegrationInv ==
  /\ IntegrationTypes
  /\ \A k \in DOMAIN pending : checkpoints[pending[k]] # << >>
  /\ stage = "idle" <=> inProgress = NoSource
  /\ inProgress # NoSource => checkpoints[inProgress] # << >>
  /\ stage \in {"Resolved", "Pending", "Rework"} => Decided(conflicts, Len(conflicts), stage)

\* The empty queue.
LEMMA IntegrationInvInit ==
  ASSUME IntegrationInit
  PROVE  IntegrationInv
BY IntegrationAssumption DEF IntegrationInit, IntegrationInv, IntegrationTypes, Stages

\* The first blocker of the property is the one of the invariant.
LEMMA InvDecides ==
  ASSUME IntegrationInv
  PROVE  FirstBlockerDecides
<1> SUFFICES ASSUME stage \in {"Resolved", "Pending", "Rework"}
             PROVE  LET blockers == {i \in DOMAIN conflicts :
                                       ResolutionFor(conflicts[i]) # "CoordinatorResolve"}
                        first    == CHOOSE i \in blockers : \A j \in blockers : i <= j
                    IN  stage = IF blockers = {} THEN "Resolved"
                                ELSE IF ResolutionFor(conflicts[first]) = "Escalate"
                                THEN "Pending" ELSE "Rework"
  BY DEF FirstBlockerDecides
<1>1. PICK B : B = BlockersTo(conflicts, Len(conflicts))
  OBVIOUS
<1>2. B = {i \in DOMAIN conflicts : ResolutionFor(conflicts[i]) # "CoordinatorResolve"}
      /\ B \subseteq Nat
  BY <1>1 DEF BlockersTo, IntegrationInv, IntegrationTypes
<1>3. Decided(conflicts, Len(conflicts), stage)
  BY DEF IntegrationInv
<1>4. CASE B = {}
  BY <1>1, <1>2, <1>3, <1>4 DEF Decided
<1>5. CASE B # {}
  <2>1. PICK i \in B :
           /\ \A j \in B : i <= j
           /\ stage = IF ResolutionFor(conflicts[i]) = "Escalate" THEN "Pending" ELSE "Rework"
    BY <1>1, <1>3, <1>5 DEF Decided
  <2>2. PICK first : first = CHOOSE k \in B : \A j \in B : k <= j
    OBVIOUS
  <2>3. first \in B /\ \A j \in B : first <= j
    BY <2>1, <2>2
  <2>4. first = i
    BY <2>1, <2>3, <1>2
  <2> QED
    BY <2>1, <2>2, <2>4, <1>2, <1>5
<1> QED
  BY <1>4, <1>5

\* The checkpoint a merge takes is one of the workspace's: a final one, or
\* without one the last, with its confidence lowered.
LEMMA FinalIsOne ==
  ASSUME NEW cps \in Seq(CheckpointRecord), Finals(cps) # {}
  PROVE  \E i \in DOMAIN cps : FindFinal(cps) = cps[i] /\ cps[i].final
<1>1. PICK F : F = Finals(cps)
  OBVIOUS
<1>2. F # {} /\ F \subseteq 1..Len(cps) /\ Len(cps) \in Nat /\ \A i \in F : i \in DOMAIN cps /\ cps[i].final
  BY <1>1 DEF Finals
<1>4. \E i \in F : \A j \in F : j <= i
  BY <1>2, GreatestNumber
<1>5. PICK i : i = CHOOSE k \in F : \A j \in F : j <= k
  OBVIOUS
<1>6. i \in F
  BY <1>4, <1>5
<1> QED
  BY <1>1, <1>2, <1>5, <1>6 DEF FindFinal

\* What a merge reports: as many overlaps as there are.
LEMMA OverlapsFound ==
  ASSUME NEW touched \in SUBSET Artifacts, merged \in SUBSET Artifacts, NEW strategy
  PROVE  /\ MergeConflicts(strategy, touched) \in Seq(ConflictTypes)
         /\ MergeConflicts(strategy, touched) = << >>
              => strategy = "Direct" \/ touched \cap merged = {}
<1>1. IsFiniteSet(touched \cap merged)
  BY IntegrationAssumption, FS_Subset
<1>2. PICK n \in Nat : n = Cardinality(touched \cap merged)
  BY <1>1, FS_CardinalityType
<1>3. n = 0 <=> touched \cap merged = {}
  BY <1>1, <1>2, FS_EmptySet
<1>4. PICK found : found = [i \in 1..n |-> "ContentOverlap"]
  OBVIOUS
<1>5. found \in Seq(ConflictTypes) /\ Len(found) = n
  <2>1. "ContentOverlap" \in ConflictTypes
    BY DEF ConflictTypes
  <2> QED
    BY <1>4, <2>1
<1>6. << >> \in Seq(ConflictTypes) /\ Len(<< >>) = 0
  OBVIOUS
<1>7. MergeConflicts(strategy, touched) = IF strategy = "Direct" THEN << >> ELSE found
  BY <1>2, <1>4 DEF MergeConflicts
<1> QED
  BY <1>3, <1>5, <1>6, <1>7

\* The merge step: what it leaves, and what a merge that ends without a
\* conflict did.
LEMMA MergeStep ==
  ASSUME IntegrationInv, Merge
  PROVE  /\ IntegrationInv'
         /\ inProgress' = inProgress
         /\ stage' = "done" =>
              \E i \in DOMAIN checkpoints[inProgress] :
                LET cp == checkpoints[inProgress][i]
                IN  \/ cp.touched \cap merged = {} /\ merged' = merged \cup cp.touched
                    \/ cp.final /\ cp.confidence = "High"
                    \/ cp.final /\ cp.confidence = "Low" /\ merged' = merged
<1>1. stage = "merge" /\ inProgress \in Sources
  BY DEF Merge, IntegrationInv, IntegrationTypes
<1>2. PICK cps : cps = checkpoints[inProgress]
  OBVIOUS
<1>3. cps \in Seq(CheckpointRecord) /\ cps # << >>
  BY <1>1, <1>2, IntegrationAssumption DEF IntegrationInv, IntegrationTypes
<1>4. UNCHANGED <<pending, inProgress, checkpoints, pushes>>
  BY DEF Merge
<1>5. CASE Finals(cps) # {}
  <2>1. PICK i \in DOMAIN cps : FindFinal(cps) = cps[i] /\ cps[i].final
    BY <1>3, <1>5, FinalIsOne
  <2>2. PICK cp \in CheckpointRecord : cp = cps[i]
    BY <1>3, <2>1
  <2>3. cp.final /\ cp.touched \in SUBSET Artifacts /\ cp.confidence \in Confidences
    BY <2>1, <2>2 DEF CheckpointRecord
  <2>4. CASE cp.confidence = "Low"
    <3>1. stage' = "done" /\ UNCHANGED <<merged, conflicts>>
      BY <2>1, <2>2, <2>4, <1>2, <1>5 DEF Merge, Decide
    <3> QED
      BY <3>1, <2>1, <2>2, <2>3, <2>4, <1>1, <1>2, <1>4
         DEF IntegrationInv, IntegrationTypes, Stages
  <2>5. CASE cp.confidence # "Low"
    <3>1. PICK strategy : strategy = Decide(cp)
      OBVIOUS
    <3>2. strategy # "Revise" /\ (strategy = "Direct" => cp.confidence = "High")
      BY <2>3, <2>5, <3>1 DEF Decide, SelectStrategy, Confidences
    <3>3. PICK found : found = MergeConflicts(strategy, cp.touched)
      OBVIOUS
    <3>4. /\ conflicts' = found
          /\ stage' = IF found = << >> THEN "done" ELSE "resolve"
          /\ merged' = IF found = << >> THEN merged \cup cp.touched ELSE merged
      BY <2>1, <2>2, <3>1, <3>2, <3>3, <1>2, <1>5 DEF Merge
    <3>5. found \in Seq(ConflictTypes)
          /\ (found = << >> => strategy = "Direct" \/ cp.touched \cap merged = {})
      BY <2>3, <3>3, OverlapsFound DEF IntegrationInv, IntegrationTypes
    <3>6. IntegrationInv'
      BY <3>4, <3>5, <2>3, <1>1, <1>4 DEF IntegrationInv, IntegrationTypes, Stages
    <3>7. stage' = "done" => \/ cp.touched \cap merged = {} /\ merged' = merged \cup cp.touched
                             \/ cp.final /\ cp.confidence = "High"
      BY <3>2, <3>4, <3>5, <2>3
    <3> QED
      BY <3>6, <3>7, <2>2, <1>2, <1>4
  <2> QED
    BY <2>4, <2>5
<1>6. CASE Finals(cps) = {}
  <2>1. PICK i \in DOMAIN cps : i = Len(cps)
    BY <1>3
  <2>2. PICK cp \in CheckpointRecord : cp = cps[i]
    BY <1>3, <2>1
  <2>3. PICK low : low = [cp EXCEPT !.confidence = "Low"]
    OBVIOUS
  <2>4. low.touched = cp.touched /\ cp.touched \in SUBSET Artifacts
    BY <2>2, <2>3 DEF CheckpointRecord
  <2>5. SelectForSalvage(cps) = low
    BY <2>1, <2>2, <2>3, <1>6 DEF SelectForSalvage
  <2>6. PICK found : found = MergeConflicts("Evaluated", cp.touched)
    OBVIOUS
  <2>7. /\ conflicts' = found
        /\ stage' = IF found = << >> THEN "done" ELSE "resolve"
        /\ merged' = IF found = << >> THEN merged \cup cp.touched ELSE merged
    BY <2>4, <2>5, <2>6, <1>2, <1>6 DEF Merge
  <2>8. found \in Seq(ConflictTypes) /\ (found = << >> => cp.touched \cap merged = {})
    BY <2>4, <2>6, OverlapsFound DEF IntegrationInv, IntegrationTypes
  <2>9. IntegrationInv'
    BY <2>4, <2>7, <2>8, <1>1, <1>4 DEF IntegrationInv, IntegrationTypes, Stages
  <2> QED
    BY <2>2, <2>7, <2>8, <2>9, <1>2, <1>4
<1> QED
  BY <1>5, <1>6

\* The other steps of the pipeline.
LEMMA OtherIntegrationSteps ==
  ASSUME IntegrationInv, IntegrationNext, ~Merge
  PROVE  /\ IntegrationInv'
         /\ inProgress # NoSource /\ inProgress' # inProgress => inProgress' = NoSource
         /\ ~(stage = "merge" /\ stage' = "done")
<1> USE DEF IntegrationInv, IntegrationTypes, Stages
<1>1. ASSUME NEW w \in Sources, NEW final \in BOOLEAN, NEW confidence \in Confidences,
             NEW touched \in (SUBSET Artifacts) \ {{}}, Checkpoint(w, final, confidence, touched)
      PROVE  IntegrationInv' /\ inProgress' = inProgress /\ stage' = stage
  <2>1. PICK cp \in CheckpointRecord :
           cp = [final |-> final, confidence |-> confidence, touched |-> touched]
    BY DEF CheckpointRecord
  <2>2. checkpoints' = [checkpoints EXCEPT ![w] = Append(@, cp)]
        /\ UNCHANGED <<pending, inProgress, merged, stage, conflicts, pushes>>
    BY <1>1, <2>1 DEF Checkpoint
  <2>3. Append(checkpoints[w], cp) \in Seq(CheckpointRecord) /\ Append(checkpoints[w], cp) # << >>
    <3>1. PICK old \in Seq(CheckpointRecord) : old = checkpoints[w]
      OBVIOUS
    <3>2. Append(old, cp) \in Seq(CheckpointRecord) /\ Len(Append(old, cp)) = Len(old) + 1
          /\ Len(old) \in Nat /\ Len(<< >>) = 0
      OBVIOUS
    <3> QED
      BY <3>1, <3>2
  <2>4. checkpoints' \in [Sources -> Seq(CheckpointRecord)]
    BY <2>2, <2>3
  <2>5. \A x \in Sources : checkpoints[x] # << >> => checkpoints'[x] # << >>
    BY <2>2, <2>3
  <2> QED
    BY <2>2, <2>4, <2>5
<1>2. ASSUME NEW w \in Sources, Push(w)
      PROVE  IntegrationInv' /\ inProgress' = inProgress /\ stage' = stage
  BY <1>2 DEF Push
<1>3. ASSUME TakeNext
      PROVE  IntegrationInv' /\ inProgress = NoSource /\ stage # "merge"
  <2>1. /\ inProgress = NoSource /\ pending # << >> /\ inProgress' = Head(pending)
        /\ pending' = Tail(pending) /\ stage' = "merge"
        /\ UNCHANGED <<checkpoints, merged, conflicts, pushes>>
    BY <1>3 DEF TakeNext
  <2>2. Head(pending) \in Sources /\ checkpoints[Head(pending)] # << >>
    BY <2>1
  <2>3. Tail(pending) \in Seq(Sources)
        /\ \A k \in DOMAIN Tail(pending) : checkpoints[Tail(pending)[k]] # << >>
    BY <2>1
  <2> QED
    BY <2>1, <2>2, <2>3, IntegrationAssumption
<1>4. ASSUME NEW type \in ConflictTypes, DetectConflict(type)
      PROVE  IntegrationInv' /\ inProgress' = inProgress /\ stage' = stage
  BY <1>4 DEF DetectConflict
<1>5. ASSUME Resolve
      PROVE  IntegrationInv' /\ inProgress' = inProgress /\ stage # "merge"
  <2>1. stage = "resolve" /\ stage' = ResolveAll(conflicts)
        /\ UNCHANGED <<pending, inProgress, checkpoints, merged, conflicts, pushes>>
    BY <1>5 DEF Resolve
  <2>2. Decided(conflicts, Len(conflicts), stage')
    BY <2>1, ResolveAllDecides
  <2>3. stage' \in {"Resolved", "Pending", "Rework"}
    BY <2>2 DEF Decided
  <2>4. Decided(conflicts, Len(conflicts), stage)'
    BY <2>1, <2>2 DEF Decided, BlockersTo
  <2> QED
    BY <2>1, <2>3, <2>4
<1>6. ASSUME Complete
      PROVE  IntegrationInv' /\ inProgress' = NoSource /\ stage' = "idle"
  BY <1>6 DEF Complete
<1> QED
  BY <1>1, <1>2, <1>3, <1>4, <1>5, <1>6 DEF IntegrationNext

\* For any workspaces and artifacts, over any sequence of checkpoints, pushes,
\* merges and detected conflicts: one integration at a time, the first conflict
\* the coordinator cannot resolve decides, and only a final, high-confidence
\* checkpoint is merged over what is already there (integration.rs).
THEOREM MergesAlwaysSafe ==
  IntegrationSpec => MergesSafe
<1>1. IntegrationInit => IntegrationInv
  BY IntegrationInvInit
<1>2. IntegrationInv /\ [IntegrationNext]_integrationVars => IntegrationInv'
  <2>1. CASE UNCHANGED integrationVars
    BY <2>1 DEF integrationVars, IntegrationInv, IntegrationTypes, Decided, BlockersTo
  <2> QED
    BY <2>1, MergeStep, OtherIntegrationSteps
<1>3. IntegrationInv => FirstBlockerDecides
  BY InvDecides
<1>4. IntegrationInv /\ [IntegrationNext]_integrationVars
      => [inProgress # NoSource /\ inProgress' # inProgress => inProgress' = NoSource]_integrationVars
  BY MergeStep, OtherIntegrationSteps
<1>5. IntegrationInv /\ [IntegrationNext]_integrationVars
      => [stage = "merge" /\ stage' = "done"
          => LET cps == checkpoints[inProgress]
             IN  \E i \in DOMAIN cps :
                   \/ cps[i].touched \cap merged = {} /\ merged' = merged \cup cps[i].touched
                   \/ cps[i].final /\ cps[i].confidence = "High"
                   \/ cps[i].final /\ cps[i].confidence = "Low" /\ merged' = merged]_integrationVars
  BY MergeStep, OtherIntegrationSteps
<1>6. IntegrationSpec => []FirstBlockerDecides
  BY <1>1, <1>2, <1>3, PTL DEF IntegrationSpec
<1>7. IntegrationSpec => OneIntegrationAtATime
  BY <1>1, <1>2, <1>4, PTL DEF IntegrationSpec, OneIntegrationAtATime
<1>8. IntegrationSpec => OverlapOnlyDirect
  BY <1>1, <1>2, <1>5, PTL DEF IntegrationSpec, OverlapOnlyDirect
<1> QED
  BY <1>6, <1>7, <1>8 DEF MergesSafe
=============================================================================
