-------------------------------- MODULE Tools --------------------------------
(***************************************************************************)
(* The tool framework of the agent middleware: packages and their          *)
(* validation, the registry, and the path of an invocation through the     *)
(* circuit breaker, the concurrency limiter and the execution engine, for  *)
(* concurrent callers.  An invocation takes its steps one by one because   *)
(* callers run on several threads: the breaker's mutex, the semaphore and  *)
(* the atomic queue counter are each atomic, the path is not.              *)
(***************************************************************************)
EXTENDS Naturals, Sequences, FiniteSets, SequencesExt

CONSTANTS
  ToolNames,       \* names of packages
  Capabilities,    \* capability names
  Callers,         \* concurrent callers of execute
  Threshold, Window, Cooldown,   \* CircuitBreakerConfig (enabled)
  MaxConcurrent, MaxQueued,      \* ConcurrencyConfig, no zero
  DefaultTimeout, MaxTimeout,    \* ExecutionConfig
  MaxToolNow, MaxCalls           \* bounds on time and invocations

ASSUME ToolsAssumption ==
  /\ Threshold \in Nat \ {0} /\ MaxConcurrent \in Nat \ {0}
  /\ {Window, Cooldown, MaxQueued, DefaultTimeout, MaxTimeout} \subseteq Nat

VARIABLES
  tools,      \* ToolRegistry::tools: name -> package
  breaker,    \* CircuitBreaker state of the tool in use
  permits,    \* available permits of the semaphore
  waiting,    \* callers queued on the semaphore, first come first served
  queued,     \* ConcurrencyLimiter::queued
  call,       \* the invocation of each caller, all of one agent context
  clock,      \* Instant::now()
  calls,      \* invocations started
  token,      \* AgentContext::cancellation, cloned into every invocation
  requested,  \* the agent's owner asked for cancellation
  failLog     \* times of all failures the closed breaker was told of

toolVars == <<tools, breaker, permits, waiting, queued, call, clock, calls, token, requested, failLog>>

---------------------------------------------------------------------------
\* Descriptors and packages.  What the string checks decide is a flag: names,
\* versions and schemas are well formed or not.

Descriptor ==
  [nameOk : BOOLEAN, versionOk : BOOLEAN, schemaOk : BOOLEAN,
   caps : UNION {[1..n -> Capabilities] : n \in 0..2}]

\* ToolDescriptor::validate, first violation
DescriptorError(d) ==
  IF ~d.nameOk THEN "InvalidName"
  ELSE IF ~d.versionOk THEN "InvalidVersion"
  ELSE IF d.caps = <<>> THEN "NoCapabilities"
  ELSE IF ~IsInjective(d.caps) THEN "DuplicateCapability"
  ELSE IF ~d.schemaOk THEN "InvalidSchema"
  ELSE "none"

\* Mutant: handlers are only checked against capabilities, not the reverse.
Mutant_ExtraOnly(p) ==
  IF DescriptorError(p.descriptor) # "none" THEN DescriptorError(p.descriptor)
  ELSE IF ~(p.handlers \subseteq ToSet(p.descriptor.caps)) THEN "ExtraHandler"
  ELSE "none"

\* ToolPackage::validate
PackageError(p) ==
  IF DescriptorError(p.descriptor) # "none" THEN DescriptorError(p.descriptor)
  ELSE IF ~(ToSet(p.descriptor.caps) \subseteq p.handlers) THEN "MissingHandler"
  ELSE IF ~(p.handlers \subseteq ToSet(p.descriptor.caps)) THEN "ExtraHandler"
  ELSE "none"

\* discover_descriptors: files by kind of extension; one that does not read,
\* parse or validate is an error and stops nothing, other files are skipped.
Discover(files) ==
  LET tried == {f \in files : f.ext \in {"json", "yaml", "yml"}}
      good == {f \in tried : f.parses /\ DescriptorError(f.descriptor) = "none"}
  IN  [descriptors |-> {f.descriptor : f \in good}, errors |-> tried \ good]

---------------------------------------------------------------------------
Idle == [pc |-> "idle", wasQueued |-> FALSE, probe |-> FALSE, cap |-> "none",
         start |-> 0, timeout |-> 0, result |-> "none"]

NewBreaker == [status |-> "Closed", failures |-> {}, opened |-> 0]

ToolsInit ==
  /\ tools = <<>> /\ breaker = NewBreaker
  /\ permits = MaxConcurrent /\ waiting = <<>> /\ queued = 0
  /\ call = [c \in Callers |-> Idle]
  /\ clock = 0 /\ calls = 0 /\ failLog = {}
  /\ token = "live" /\ requested = FALSE

\* execute borrows the registry: it changes only between invocations.
Quiescent == \A c \in Callers : call[c].pc = "idle"

\* ToolRegistry::register: validate, no duplicate, config, initialize, insert
\* with a fresh breaker and limiter.  A refusal leaves the registry alone.
Register(name, p) ==
  /\ Quiescent
  /\ PackageError(p) = "none" /\ name \notin DOMAIN tools
  /\ p.configOk /\ p.initOk
  /\ tools' = [n \in DOMAIN tools \cup {name} |-> IF n = name THEN p ELSE tools[n]]
  /\ breaker' = NewBreaker /\ permits' = MaxConcurrent /\ waiting' = <<>> /\ queued' = 0
  /\ failLog' = {}
  /\ UNCHANGED <<call, clock, calls, token, requested>>

\* ToolRegistry::unregister
Unregister(name) ==
  /\ Quiescent /\ name \in DOMAIN tools
  /\ tools' = [n \in DOMAIN tools \ {name} |-> tools[n]]
  /\ UNCHANGED <<breaker, permits, waiting, queued, call, clock, calls, failLog, token, requested>>

\* resolve_timeout: invocation, then capability, then default; capped.
ResolveTimeout(invocation, capability) ==
  LET base == IF invocation # 0 THEN invocation
              ELSE IF capability # 0 THEN capability ELSE DefaultTimeout
  IN  IF base < MaxTimeout THEN base ELSE MaxTimeout

Set(c, next) == call' = [call EXCEPT ![c] = next]

Finish(c, result) == Set(c, [call[c] EXCEPT !.pc = "done", !.result = result])

Returned(c, result) == Set(c, [call[c] EXCEPT !.pc = "returned", !.result = result])

\* Mutant: an open breaker lets a call through before the cooldown is over.
Mutant_NoCooldown == "probe"

\* CircuitBreaker::check, under its mutex
CheckVerdict ==
  CASE breaker.status = "Closed" -> "pass"
    [] breaker.status = "Open" ->
         IF clock - breaker.opened >= Cooldown THEN "probe" ELSE "refuse"
    [] breaker.status = "HalfOpen" -> "refuse"

\* execute, steps 1 and 2: lookup, then the breaker.
Begin(c, name, cap, invocation) ==
  /\ call[c].pc = "idle" /\ calls < MaxCalls
  /\ calls' = calls + 1
  /\ LET known == name \in DOMAIN tools /\ cap \in ToSet(tools[name].descriptor.caps)
     IN  IF ~known
         THEN Finish(c, "ValidationFailed") /\ UNCHANGED breaker
         ELSE IF cap \notin tools[name].handlers
         THEN Finish(c, "Inconsistent") /\ UNCHANGED breaker
         ELSE IF CheckVerdict = "refuse"
         THEN Finish(c, "Unavailable") /\ UNCHANGED breaker
         ELSE /\ Set(c, [call[c] EXCEPT !.pc = "checked", !.cap = cap,
                           !.probe = CheckVerdict = "probe",
                           !.timeout = ResolveTimeout(invocation, 0)])
              /\ breaker' = IF CheckVerdict = "probe"
                            THEN [breaker EXCEPT !.status = "HalfOpen"] ELSE breaker
  /\ UNCHANGED <<tools, permits, waiting, queued, clock, failLog, token, requested>>

\* acquire: the immediate attempt, and the read of the queue counter.
TryAcquire(c) ==
  /\ call[c].pc = "checked"
  /\ IF permits > 0
     THEN /\ permits' = permits - 1
          /\ Set(c, [call[c] EXCEPT !.pc = "running", !.start = clock])
     ELSE /\ UNCHANGED permits
          /\ IF queued >= MaxQueued THEN Finish(c, "Overloaded")
             ELSE Set(c, [call[c] EXCEPT !.pc = "loaded"])
  /\ UNCHANGED <<tools, breaker, waiting, queued, clock, calls, failLog, token, requested>>

\* acquire: fetch_add, then wait for the semaphore.
Enqueue(c) ==
  /\ call[c].pc = "loaded"
  /\ queued' = queued + 1
  /\ IF permits > 0
     THEN /\ permits' = permits - 1 /\ UNCHANGED waiting
          /\ Set(c, [call[c] EXCEPT !.pc = "running", !.wasQueued = TRUE, !.start = clock])
     ELSE /\ waiting' = Append(waiting, c) /\ UNCHANGED permits
          /\ Set(c, [call[c] EXCEPT !.pc = "waiting", !.wasQueued = TRUE])
  /\ UNCHANGED <<tools, breaker, clock, calls, failLog, token, requested>>

\* The owner of the agent context cancels its token.
CancelAgent ==
  /\ token = "live" /\ token' = "cancelled" /\ requested' = TRUE
  /\ UNCHANGED <<tools, breaker, permits, waiting, queued, call, clock, calls, failLog>>

\* execution::execute up to the handler: input validation, then a token that
\* is cancelled already.
Invoke(c, valid) ==
  /\ call[c].pc = "running"
  /\ IF ~valid THEN Returned(c, "ValidationFailed")
     ELSE IF token = "cancelled" THEN Returned(c, "Cancelled")
     ELSE Set(c, [call[c] EXCEPT !.pc = "invoked", !.start = clock])
  /\ UNCHANGED <<tools, breaker, permits, waiting, queued, clock, calls, token, requested, failLog>>

\* execute_in_process: how a child process ends, and what its handler returns.
ProcessResult(child) ==
  CASE child \in {"notSpawned", "stdinClosed", "waitFailed"} -> "InternalError"
    [] child = "tooSlow" -> "Timeout"
    [] child = "exitZero" -> "Ok"
    [] child \in {"exitZeroNoJson", "exitNonZero"} -> "InternalError"

\* A handler's own outcome, in process or through a child: a panic is an
\* internal error, a result over the size limit an execution failure.
HandlerResults ==
  {"Ok", "ExecutionFailed", "InternalError"}
  \cup {ProcessResult(child) : child \in {"notSpawned", "tooSlow", "exitZero", "exitNonZero"}}

\* invoke_with_timeout: the handler's future completes, or the token is seen.
Engine(c, outcome) ==
  /\ call[c].pc = "invoked"
  /\ outcome \in HandlerResults \/ (outcome = "Cancelled" /\ token = "cancelled")
  /\ Returned(c, outcome)
  /\ UNCHANGED <<tools, breaker, permits, waiting, queued, clock, calls, token, requested, failLog>>

\* invoke_with_timeout: the timeout branch also cancels the token it was given.
EngineTimeout(c) ==
  /\ call[c].pc = "invoked" /\ clock >= call[c].start + call[c].timeout
  /\ Returned(c, "Timeout")
  /\ token' = "cancelled"
  /\ UNCHANGED <<tools, breaker, permits, waiting, queued, clock, calls, requested, failLog>>

\* A failure now, as one more row of a log: the n-th at its instant.
FailureRow(log) == [at |-> clock, n |-> Cardinality({f \in log : f.at = clock})]

\* Mutant: failures that left the window are kept.
Mutant_NoPrune ==
  LET failures == breaker.failures \cup {FailureRow(breaker.failures)}
  IN  [breaker EXCEPT !.failures = failures,
         !.status = IF Cardinality(failures) >= Threshold THEN "Open" ELSE @,
         !.opened = IF Cardinality(failures) >= Threshold THEN clock ELSE @]

\* record_failure on a closed breaker: prune, record, compare.
ClosedFailure ==
  LET recent == {f \in breaker.failures : f.at + Window >= clock}
      failures == recent \cup {FailureRow(recent)}
  IN  [breaker EXCEPT !.failures = failures,
         !.status = IF Cardinality(failures) >= Threshold THEN "Open" ELSE @,
         !.opened = IF Cardinality(failures) >= Threshold THEN clock ELSE @]

\* CircuitBreaker::record_success and record_failure, as execute calls them.
Recorded(outcome) ==
  CASE outcome = "Ok" ->
         IF breaker.status = "HalfOpen" THEN NewBreaker ELSE breaker
    [] outcome \in {"Timeout", "ExecutionFailed", "InternalError"} ->
         (CASE breaker.status = "Closed" -> ClosedFailure
            [] breaker.status = "HalfOpen" ->
                 [breaker EXCEPT !.status = "Open", !.opened = clock]
            [] breaker.status = "Open" -> breaker)
    [] OTHER -> breaker

Counts(outcome) == outcome \in {"Timeout", "ExecutionFailed", "InternalError"}

\* execute, step 5: tell the breaker.
Record(c) ==
  /\ call[c].pc = "returned"
  /\ breaker' = Recorded(call[c].result)
  /\ failLog' = IF Counts(call[c].result) /\ breaker.status = "Closed"
                THEN failLog \cup {FailureRow(failLog)}
                ELSE IF breaker'.status = "Closed" /\ breaker.status # "Closed" THEN {}
                ELSE failLog
  /\ Set(c, [call[c] EXCEPT !.pc = "recorded"])
  /\ UNCHANGED <<tools, permits, waiting, queued, clock, calls, token, requested>>

\* Mutant: the permit goes back to the pool and to the first in line.
Mutant_PassTwice(waiters, changed) ==
  /\ permits' = permits + 1
  /\ IF waiters = <<>> THEN waiting' = waiters /\ call' = changed
     ELSE /\ waiting' = Tail(waiters)
          /\ call' = [changed EXCEPT ![Head(waiters)].pc = "running",
                                     ![Head(waiters)].start = clock]

\* The caller a freed permit goes to: the first in line, if any.
PassOn(waiters, changed) ==
  IF waiters = <<>>
  THEN permits' = permits + 1 /\ waiting' = waiters /\ call' = changed
  ELSE /\ permits' = permits /\ waiting' = Tail(waiters)
       /\ call' = [changed EXCEPT ![Head(waiters)].pc = "running",
                                  ![Head(waiters)].start = clock]

\* Mutant: the queue slot is not given back.
Mutant_KeepSlot(c) == queued

\* Drop for ConcurrencyPermit
QueuedAfterDrop(c) == IF call[c].wasQueued THEN queued - 1 ELSE queued

\* The permit is dropped when execute returns.
Release(c) ==
  /\ call[c].pc = "recorded"
  /\ queued' = QueuedAfterDrop(c)
  /\ PassOn(waiting, [call EXCEPT ![c].pc = "done"])
  /\ UNCHANGED <<tools, breaker, clock, calls, failLog, token, requested>>

\* The future of execute is dropped at an await point.  The permit guard gives
\* its permit back; a caller still waiting for one leaves the line.
Abandon(c) ==
  /\ \/ /\ call[c].pc \in {"running", "invoked"}
        /\ queued' = QueuedAfterDrop(c)
        /\ PassOn(waiting, [call EXCEPT ![c].pc = "done", ![c].result = "dropped"])
     \/ /\ call[c].pc = "waiting"
        /\ \E i \in DOMAIN waiting :
             waiting[i] = c /\ waiting' = SubSeq(waiting, 1, i - 1)
                                          \o SubSeq(waiting, i + 1, Len(waiting))
        /\ Finish(c, "leaked")
        /\ UNCHANGED <<permits, queued>>
  /\ UNCHANGED <<tools, breaker, clock, calls, failLog, token, requested>>

\* The caller has its result and may invoke again.
Return(c) ==
  /\ call[c].pc = "done" /\ call[c].result # "leaked"
  /\ call' = [call EXCEPT ![c] = Idle]
  /\ UNCHANGED <<tools, breaker, permits, waiting, queued, clock, calls, failLog, token, requested>>

ToolTick ==
  /\ clock < MaxToolNow /\ clock' = clock + 1
  /\ UNCHANGED <<tools, breaker, permits, waiting, queued, call, calls, failLog, token, requested>>

\* Packages offered for registration.
Packages ==
  [descriptor : Descriptor, handlers : SUBSET Capabilities,
   configOk : BOOLEAN, initOk : BOOLEAN]

\* A directory of descriptor files; handlers are supplied for what is found.
Directory ==
  {[ext |-> "json", parses |-> TRUE, descriptor |-> d] : d \in Descriptor}
  \cup {[ext |-> "txt", parses |-> TRUE, descriptor |-> d] : d \in Descriptor}
  \cup {[ext |-> "yaml", parses |-> FALSE, descriptor |-> d] : d \in Descriptor}

Discovered ==
  {[descriptor |-> d, handlers |-> ToSet(d.caps), configOk |-> TRUE, initOk |-> TRUE] :
     d \in Discover(Directory).descriptors}

ToolsNext ==
  \/ \E n \in ToolNames :
       Unregister(n) \/ \E p \in Packages \cup Discovered : Register(n, p)
  \/ \E c \in Callers :
       \/ \E n \in ToolNames, cap \in Capabilities, t \in {0, MaxTimeout + 1} :
            Begin(c, n, cap, t)
       \/ TryAcquire(c) \/ Enqueue(c)
       \/ \E valid \in BOOLEAN : Invoke(c, valid)
       \/ \E o \in HandlerResults \cup {"Cancelled"} : Engine(c, o)
       \/ EngineTimeout(c) \/ Record(c) \/ Release(c) \/ Abandon(c) \/ Return(c)
  \/ CancelAgent \/ ToolTick

ToolsSpec == ToolsInit /\ [][ToolsNext]_toolVars

---------------------------------------------------------------------------
Holding == {c \in Callers : call[c].pc \in {"running", "invoked", "returned", "recorded"}}
Leaked == {c \in Callers : call[c].result = "leaked"}

\* Permits are neither lost nor duplicated, whatever is queued, cancelled or
\* dropped, so no more handlers run at once than the limit.
PermitsConserved ==
  permits + Cardinality(Holding) = MaxConcurrent /\ (waiting # <<>> => permits = 0)

\* The queue counter is exactly the callers that took a slot and still hold
\* it: waiting, or running after a wait, or dropped while they waited, which
\* is the one way a slot is never given back.
QueueSlotsExact ==
  queued = Cardinality({c \in Holding : call[c].wasQueued})
           + Len(waiting) + Cardinality(Leaked)

\* A registered tool has a handler for each capability: an invocation never
\* meets the registry inconsistency the code has an internal error for.
NeverInconsistent == \A c \in Callers : call[c].result # "Inconsistent"

\* The breaker opens from closed only when enough failures fell into one
\* window, of all those it was told of since it last closed.
TripsOnlyInWindow ==
  [][breaker.status = "Closed" /\ breaker'.status = "Open" =>
       Cardinality({f \in failLog' : f.at + Window >= clock}) >= Threshold]_toolVars

\* While the breaker is open and cooling down no handler is started for a
\* caller that arrived after it opened.
OpenAdmitsNone ==
  [][\A c \in Callers :
       (call[c].pc = "idle" /\ call'[c].pc = "checked" /\ breaker.status # "Closed")
         => breaker.status = "Open" /\ clock >= breaker.opened + Cooldown]_toolVars

\* handler.rs on the error code: an invocation ends cancelled when cancellation
\* was requested.
CancelledWasRequested ==
  (\E c \in Callers : call[c].result = "Cancelled") => requested

\* resilience.rs on half-open: a probe is in progress, and its outcome will
\* decide.
HalfOpenHasProbe ==
  breaker.status = "HalfOpen" =>
    \E c \in Callers : call[c].probe /\ call[c].pc \notin {"done", "idle"}

\* The path of an invocation under concurrent, cancelled and failing calls:
\* permits and slots are exact, no capability is without its handler, and the
\* breaker opens for a cause and then holds.
ToolsSound ==
  /\ [](PermitsConserved /\ QueueSlotsExact /\ NeverInconsistent)
  /\ TripsOnlyInWindow
  /\ OpenAdmitsNone
=============================================================================
